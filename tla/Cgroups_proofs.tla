----------------------------- MODULE Cgroups_proofs -----------------------------
(***************************************************************************)
(* Proofs about Cgroups, for any nodes, launchers, other processes and     *)
(* groups they begin in.  A launcher that set_cgroups tells to be confined *)
(* has the settings of all its nodes in force, whatever the others do      *)
(* (LimitsAs).  Launchers of one unit find one root, and a container that  *)
(* is started elsewhere than in that root is born in the leaf of its node  *)
(* (HierInv).  Launchers do not make each other fail (FairInv).  The first *)
(* part is about paths and types.                                          *)
(***************************************************************************)
EXTENDS Cgroups, FiniteSetTheorems, SequenceTheorems, TLAPS

\* Names appended to a path.
LEMMA AppendPath ==
    ASSUME NEW g \in Path, NEW name \in STRING
    PROVE  /\ Append(g, name) \in Path /\ Append(g, name) # Top
           /\ Parent(Append(g, name)) = g
           /\ Len(Append(g, name)) = Len(g) + 1
           /\ Append(g, name)[Len(g) + 1] = name
<1> DEFINE h == Append(g, name)
<1>1. Len(g) \in Nat /\ Len(h) = Len(g) + 1
  BY DEF Path
<1>2. h \in Seq(STRING)
  BY AppendProperties DEF Path
<1>3. h[Len(g) + 1] = name
  BY AppendProperties DEF Path
<1>4. Parent(h) = g
  <2> DEFINE t == SubSeq(h, 1, Len(g))
  <2>1. \A i \in 1 .. Len(g) : t[i] = g[i]
    BY DEF Path
  <2>2. t \in Seq(STRING) /\ Len(t) = Len(g)
    BY <1>1, <1>2
  <2>3. t = Parent(h)
    BY <1>1 DEF Parent
  <2> HIDE DEF t
  <2>4. t = g
    BY <2>1, <2>2, SeqEqual DEF Path
  <2>5. QED
    BY <2>3, <2>4
<1>5. h # Top
  <2>1. Len(Top) = 0
    BY DEF Top
  <2> HIDE DEF h
  <2>2. QED
    BY <1>1, <2>1
<1>6. QED
  BY <1>1, <1>2, <1>3, <1>4, <1>5 DEF Path

\* The beginning of a path is a path.
LEMMA PrefixPath ==
    ASSUME NEW g \in Path, NEW n \in Nat, n <= Len(g)
    PROVE  SubSeq(g, 1, n) \in Path /\ Len(SubSeq(g, 1, n)) = n
BY DEF Path

\* The group above is a path.
LEMMA ParentPath ==
    ASSUME NEW g \in Path, g # Top
    PROVE  Parent(g) \in Path
<1>1. Len(g) \in Nat \ {0}
  BY EmptySeq DEF Path, Top
<1>2. Len(g) - 1 \in Nat /\ Len(g) - 1 <= Len(g)
  BY <1>1
<1>3. QED
  BY <1>2, PrefixPath DEF Parent

\* What is left of a path without leaves is a path.
LEMMA StrippedType ==
    ASSUME NEW g \in Path
    PROVE  Stripped(g) \in Path
<1> DEFINE S == {i \in 1 .. Len(g) : \E j \in i .. Len(g) : g[j] # PidsLeaf}
<1>1. Len(g) \in Nat /\ Len(g) \in Int /\ 1 \in Int
  BY LenProperties DEF Path
<1>2. IsFiniteSet(1 .. Len(g)) /\ Cardinality(1 .. Len(g)) = Len(g)
  <2>1. Cardinality(1 .. Len(g)) = IF 1 > Len(g) THEN 0 ELSE Len(g) - 1 + 1
    BY <1>1, FS_Interval, Zenon
  <2>2. IsFiniteSet(1 .. Len(g))
    BY <1>1, FS_Interval
  <2>3. QED
    BY <2>1, <2>2, <1>1
<1>3. S \subseteq 1 .. Len(g)
  OBVIOUS
<1>4. Cardinality(S) \in Nat /\ Cardinality(S) <= Len(g)
  <2> HIDE DEF S
  <2>1. IsFiniteSet(S) /\ Cardinality(S) <= Cardinality(1 .. Len(g))
    BY <1>2, <1>3, FS_Subset
  <2>2. QED
    BY <2>1, <1>2, FS_CardinalityType
<1> HIDE DEF S
<1>5. SubSeq(g, 1, Cardinality(S)) \in Path
  BY <1>4, PrefixPath
<1>6. QED
  BY <1>5 DEF Stripped, S

\* A node of a launcher.
LEMMA NodeTypes ==
    ASSUME NEW p \in Launchers, NEW i \in 1 .. Len(Chain[p])
    PROVE  /\ Chain[p][i] \in Nodes /\ Need[Chain[p][i]] \subseteq Controllers
           /\ CgName[Chain[p][i]] \in STRING
BY CgroupsAssumption DEF Nodes

\* A node asks for controllers.
LEMMA MaskType ==
    ASSUME NEW p \in Launchers, NEW i \in Nat
    PROVE  Expected(p, i) \subseteq Controllers
<1>1. Len(Chain[p]) \in Nat
  BY CgroupsAssumption
<1>2. \A j \in i + 1 .. Len(Chain[p]) : j \in 1 .. Len(Chain[p])
  BY <1>1
<1>3. QED
  BY <1>2, NodeTypes, CgroupsAssumption DEF Expected, Mask

\* What a launcher has to fulfil beside the types of its fields.
JobOK(j, p, made) ==
    /\ j.level \in 0 .. Len(Chain[p])
    /\ j.step \notin {"start", "climb", "rootleaf", "clone", "done"} => j.cur \in made
    /\ j.step \in {"look", "grant"} => j.ask # << >>
    /\ j.step \in {"mknode", "mkleaf", "conf"} => j.level > 0
    /\ j.step \in {"open", "read", "move", "look", "grant", "conf", "enter"} => LeafOf(j.cur) \in made
    /\ \A i \in 1 .. Len(j.ask) : j.ask[i].at \in made

JobsOK == job \in [Launchers -> Job] /\ \A p \in Launchers : JobOK(job[p], p, Made)

TreeOK ==
    /\ tree \in [Made -> Group] /\ Made \subseteq Path /\ Top \in Made
    /\ \A g \in Made : g = Top \/ Parent(g) \in Made

CgTypes ==
    /\ TreeOK /\ JobsOK
    /\ where \in [Procs -> Made \cup {Unborn, Gone}]
    /\ box \in [Launchers -> Made \cup {Unborn, Gone}]
    /\ disturbed \in BOOLEAN

\* CgTypes is the type invariant, in parts.
LEMMA TypeParts == CgTypes => TypeOK
BY DEF CgTypes, TypeOK, TreeOK, JobsOK, JobOK

\* A launcher takes a step, the others stay where they are.
LEMMA UpdType ==
    ASSUME JobsOK, NEW p \in Launchers, NEW j \in Job, Upd(p, j), Made \subseteq Made',
           JobOK(j, p, Made')
    PROVE  JobsOK'
<1>1. job' \in [Launchers -> Job]
  BY DEF Upd, JobsOK
<1>2. ASSUME NEW q \in Launchers PROVE JobOK(job'[q], q, Made')
  <2>1. CASE q = p
    BY <2>1 DEF Upd, JobsOK
  <2>2. CASE q # p
    BY <2>2 DEF Upd, JobsOK, JobOK
  <2>3. QED
    BY <2>1, <2>2
<1>3. QED
  BY <1>1, <1>2 DEF JobsOK, JobOK

\* A launcher whose set_cgroups ends keeps its type.
LEMMA ReturnsType ==
    ASSUME JobsOK, NEW p \in Launchers, NEW rc \in {"ok", "fail"}, Returns(p, rc), Made \subseteq Made'
    PROVE  JobsOK'
<1> DEFINE j == [job[p] EXCEPT !.step = "clone", !.rc = rc, !.todo = {}]
<1>1. j \in Job /\ j.step = "clone" /\ j.level = job[p].level /\ j.ask = job[p].ask
  BY DEF JobsOK, Job, Steps
<1>2. JobOK(job[p], p, Made)
  BY DEF JobsOK
<1>3. JobOK(j, p, Made')
  BY <1>1, <1>2 DEF JobOK
<1>4. Upd(p, j)
  BY DEF Returns
<1> HIDE DEF j
<1>5. QED
  BY <1>1, <1>3, <1>4, UpdType

\* ensure_required_controllers begins with the current group.
LEMMA EnsuresType ==
    ASSUME JobsOK, NEW p \in Launchers, NEW j \in Job, Ensures(p, j), Made \subseteq Made',
           j.level \in 0 .. Len(Chain[p]), j.cur \in Made', LeafOf(j.cur) \in Made'
    PROVE  JobsOK'
<1> DEFINE first == [at |-> j.cur, mask |-> Expected(p, j.level)]
           new == [j EXCEPT !.step = "look", !.todo = {}, !.due = {}, !.seen = {},
                            !.ask = <<first>>]
<1>1. first \in [at : Path, mask : SUBSET Controllers] /\ first.at = j.cur
  BY MaskType DEF Job
<1> HIDE DEF first
<1>2. /\ <<first>> \in Seq([at : Path, mask : SUBSET Controllers])
      /\ Len(<<first>>) = 1 /\ <<first>>[1] = first /\ <<first>> # << >>
  BY <1>1
<1>3. new \in Job
  BY <1>2 DEF Job, Steps
<1>4. /\ new.step = "look" /\ new.level = j.level /\ new.cur = j.cur
      /\ new.ask = <<first>>
  BY DEF Job
<1>5. Upd(p, new)
  BY DEF Ensures, first
<1> HIDE DEF new
<1>6. \A i \in 1 .. Len(<<first>>) : <<first>>[i].at \in Made'
  BY <1>1, <1>2
<1>7. JobOK(new, p, Made')
  BY <1>2, <1>4, <1>6 DEF JobOK
<1>8. QED
  BY <1>3, <1>5, <1>7, UpdType

\* A group is made below one that is there.
LEMMA MakeType ==
    ASSUME TreeOK, NEW g \in Path, g = Top \/ Parent(g) \in Made, Make(g)
    PROVE  /\ TreeOK' /\ Made' = Made \cup {g}
           /\ \A h \in Made : tree'[h] = tree[h]
<1>1. Fresh \in Group
  BY DEF Fresh, Group
<1>2. tree' = [h \in Made \cup {g} |-> IF h \in Made THEN tree[h] ELSE Fresh]
  BY DEF Make
<1>3. Made' = Made \cup {g} /\ \A h \in Made : tree'[h] = tree[h]
  BY <1>2 DEF Made
<1>4. tree' \in [Made' -> Group]
  BY <1>1, <1>2, <1>3 DEF TreeOK
<1>5. \A h \in Made' : h = Top \/ Parent(h) \in Made'
  BY <1>3 DEF TreeOK
<1>6. QED
  BY <1>3, <1>4, <1>5 DEF TreeOK

-----------------------------------------------------------------------------
\* The types hold at first.
LEMMA CgTypesInit == Init => CgTypes
<1> SUFFICES ASSUME Init PROVE CgTypes
  OBVIOUS
<1>1. Fresh \in Group /\ [Fresh EXCEPT !.sub = Granted] \in Group
  BY CgroupsAssumption DEF Fresh, Group
<1>2. \A q \in Procs : where[q] \in Path \cup {Unborn, Gone}
  BY CgroupsAssumption DEF Init
<1> DEFINE Up(q) == {SubSeq(where[q], 1, i) : i \in 1 .. Len(where[q])}
           Dirs == {Top} \cup UNION {Up(q) : q \in {r \in Procs : Alive(r)}}
<1>3. /\ tree = [g \in Dirs |-> IF g = Top THEN [Fresh EXCEPT !.sub = Granted] ELSE Fresh]
      /\ Made = Dirs
  BY DEF Init, Made
<1>4. \A q \in Procs : Alive(q) => where[q] \in Path /\ Len(where[q]) \in Nat
  BY <1>2 DEF Alive, Path
<1>5. ASSUME NEW q \in Procs, Alive(q), NEW i \in 1 .. Len(where[q])
      PROVE  SubSeq(where[q], 1, i) \in Path /\ SubSeq(where[q], 1, i) # Top
             /\ (i = 1 => Parent(SubSeq(where[q], 1, i)) = Top)
             /\ (i > 1 => Parent(SubSeq(where[q], 1, i)) = SubSeq(where[q], 1, i - 1))
  <2> DEFINE w == where[q]
  <2>1. w \in Path /\ Len(w) \in Nat /\ i \in 1 .. Len(w)
    BY <1>4, <1>5
  <2> HIDE DEF w
  <2> DEFINE h == SubSeq(w, 1, i)
  <2>2. h \in Path /\ Len(h) = i
    BY <2>1, PrefixPath
  <2>3. h # Top
    <3>1. Len(Top) = 0
      BY DEF Top
    <3> HIDE DEF h
    <3>2. QED
      BY <2>1, <2>2, <3>1
  <2>4. Parent(h) = SubSeq(h, 1, i - 1)
    BY <2>2 DEF Parent
  <2>5. i = 1 => SubSeq(h, 1, i - 1) = Top
    BY SubSeqEmpty DEF Top
  <2>6. i > 1 => SubSeq(h, 1, i - 1) = SubSeq(w, 1, i - 1)
    BY <2>1 DEF Path
  <2>7. QED
    BY <2>2, <2>3, <2>4, <2>5, <2>6 DEF w
<1>6. ASSUME NEW g \in Dirs
      PROVE  g \in Path /\ (g = Top \/ Parent(g) \in Dirs)
  <2>1. CASE g = Top
    BY <2>1 DEF Top, Path
  <2>2. CASE g # Top
    <3>1. PICK q \in Procs : Alive(q) /\ \E i \in 1 .. Len(where[q]) : g = SubSeq(where[q], 1, i)
      BY <2>2
    <3>2. PICK i \in 1 .. Len(where[q]) : g = SubSeq(where[q], 1, i)
      BY <3>1
    <3>3. CASE i = 1
      BY <1>5, <3>1, <3>2, <3>3
    <3>4. CASE i # 1
      <4>1. i > 1 /\ i - 1 \in 1 .. Len(where[q])
        BY <1>4, <3>1, <3>4
      <4>2. Parent(g) = SubSeq(where[q], 1, i - 1)
        BY <1>5, <3>1, <3>2, <4>1
      <4>3. g \in Path
        BY <1>5, <3>1, <3>2
      <4>4. Parent(g) \in Up(q)
        BY <4>1, <4>2
      <4>5. QED
        BY <3>1, <4>3, <4>4
    <3>5. QED
      BY <3>3, <3>4
  <2>3. QED
    BY <2>1, <2>2
<1>7. TreeOK
  <2>1. tree \in [Made -> Group]
    BY <1>1, <1>3
  <2>2. QED
    BY <1>3, <1>6, <2>1 DEF TreeOK
<1>8. \A q \in Procs : where[q] \in Made \cup {Unborn, Gone}
  <2> SUFFICES ASSUME NEW q \in Procs, Alive(q) PROVE where[q] \in Dirs
    BY <1>3 DEF Alive
  <2>1. CASE Len(where[q]) = 0
    BY <1>4, <2>1, EmptySeq DEF Path, Top
  <2>2. CASE Len(where[q]) > 0
    <3>1. Len(where[q]) \in 1 .. Len(where[q])
      BY <1>4, <2>2
    <3>2. where[q] = SubSeq(where[q], 1, Len(where[q]))
      BY <1>4, SubSeqFull DEF Path
    <3>3. where[q] \in Up(q)
      BY <3>1, <3>2
    <3>4. QED
      BY <3>3
  <2>3. QED
    BY <1>4, <2>1, <2>2
<1>9. where \in [Procs -> Made \cup {Unborn, Gone}]
  BY <1>8 DEF Init
<1>10. JobsOK
  <2>1. \A p \in Launchers : Len(Chain[p]) \in Nat
    BY CgroupsAssumption
  <2>2. Top \in Path
    BY DEF Top, Path
  <2>3. QED
    BY <2>1, <2>2 DEF Init, JobsOK, JobOK, Job, Steps
<1>11. QED
  BY <1>7, <1>9, <1>10 DEF CgTypes, Init

-----------------------------------------------------------------------------
\* A tree that is left alone remains one.
LEMMA TreeStill ==
    ASSUME TreeOK, UNCHANGED tree
    PROVE  TreeOK' /\ Made' = Made
BY DEF TreeOK, Made

\* Types hold after a step of the tree and the launchers alone.
LEMMA RestStill ==
    ASSUME CgTypes, UNCHANGED <<where, box, disturbed>>, Made \subseteq Made', TreeOK', JobsOK'
    PROVE  CgTypes'
<1>1. where' \in [Procs -> Made' \cup {Unborn, Gone}] /\ box' \in [Launchers -> Made' \cup {Unborn, Gone}]
  BY DEF CgTypes
<1>2. disturbed' \in BOOLEAN
  BY DEF CgTypes
<1>3. QED
  BY <1>1, <1>2 DEF CgTypes

\* A launcher whose step changes only its own progress.
LEMMA OwnStep ==
    ASSUME CgTypes, UNCHANGED <<tree, where, box, disturbed>>,
           NEW p \in Launchers, NEW j \in Job, Upd(p, j), JobOK(j, p, Made)
    PROVE  CgTypes'
<1>1. TreeOK' /\ Made' = Made
  BY TreeStill DEF CgTypes
<1>2. JobsOK'
  BY <1>1, UpdType DEF CgTypes
<1>3. QED
  BY <1>1, <1>2, RestStill

\* What the types say of one launcher,
LEMMA JobFacts ==
    ASSUME CgTypes, NEW p \in Launchers
    PROVE  job[p] \in Job /\ JobOK(job[p], p, Made) /\ Made \subseteq Path
           /\ Len(Chain[p]) \in Nat
BY CgroupsAssumption DEF CgTypes, JobsOK, TreeOK

\* and of a process that lives.
LEMMA AliveMade ==
    ASSUME CgTypes, NEW q \in Procs, Alive(q)
    PROVE  where[q] \in Made /\ where[q] \in Path
BY DEF CgTypes, TreeOK, Alive

\* The types through each action of a launcher.
LEMMA NothingToSetType == ASSUME CgTypes, NEW p \in Launchers, NothingToSet(p) PROVE CgTypes'
<1>1. TreeOK' /\ Made' = Made
  BY TreeStill DEF CgTypes, NothingToSet
<1>2. JobsOK'
  BY <1>1, ReturnsType DEF CgTypes, NothingToSet
<1>3. QED
  BY <1>1, <1>2, RestStill DEF NothingToSet

\* Begin.
LEMMA BeginType == ASSUME CgTypes, NEW p \in Launchers, Begin(p) PROVE CgTypes'
<1> DEFINE g == Stripped(IF RootPath = NoPath THEN where[p] ELSE RootPath)
           j == [job[p] EXCEPT !.step = "climb", !.cur = g, !.root = g]
<1>1. g \in Path
  BY AliveMade, StrippedType, CgroupsAssumption DEF Begin, Procs
<1> HIDE DEF g
<1>2. j \in Job /\ j.step = "climb" /\ j.level = job[p].level /\ j.ask = job[p].ask
  BY <1>1, JobFacts DEF Job, Steps
<1>3. JobOK(j, p, Made)
  BY <1>2, JobFacts DEF JobOK
<1>4. Upd(p, j) /\ UNCHANGED <<tree, where, box, disturbed>>
  BY DEF Begin, g
<1> HIDE DEF j
<1>5. QED
  BY <1>2, <1>3, <1>4, OwnStep

\* Climb: it goes up the tree, to groups that are there.
LEMMA ClimbType == ASSUME CgTypes, NEW p \in Launchers, Climb(p) PROVE CgTypes'
<1> DEFINE g == job[p].cur
           leafy == LeafOf(g) \in Made
           root == IF leafy THEN g ELSE job[p].root
           cur == IF leafy /\ g # Top THEN Parent(g) ELSE root
           step == IF leafy /\ g # Top THEN "climb" ELSE "rootleaf"
           j == [job[p] EXCEPT !.root = root, !.cur = cur, !.step = step]
<1>1. root \in Path /\ cur \in Path
  BY JobFacts, ParentPath DEF Job
<1>2. Upd(p, j) /\ UNCHANGED <<tree, where, box, disturbed>>
  BY DEF Climb
<1>3. step \in {"climb", "rootleaf"}
  OBVIOUS
<1> HIDE DEF root, cur, step
<1>4. j \in Job /\ j.step \in {"climb", "rootleaf"} /\ j.level = job[p].level /\ j.ask = job[p].ask
  BY <1>1, <1>3, JobFacts DEF Job, Steps
<1>5. JobOK(j, p, Made)
  BY <1>4, JobFacts DEF JobOK
<1> HIDE DEF j
<1>6. QED
  BY <1>2, <1>4, <1>5, OwnStep

\* RootLeaf.
LEMMA RootLeafType == ASSUME CgTypes, NEW p \in Launchers, RootLeaf(p) PROVE CgTypes'
<1>1. CASE job[p].cur \in Made
  <2> DEFINE j == [job[p] EXCEPT !.step = "open"]
             g == LeafOf(job[p].cur)
  <2>1. g \in Path /\ Parent(g) = job[p].cur
    BY AppendPath, JobFacts, CgroupsAssumption DEF LeafOf, Job
  <2>2. Make(g) /\ Upd(p, j) /\ UNCHANGED <<where, box, disturbed>>
    BY <1>1 DEF RootLeaf
  <2> HIDE DEF g
  <2>3. TreeOK' /\ Made \subseteq Made' /\ g \in Made'
    BY <1>1, <2>1, <2>2, MakeType DEF CgTypes
  <2>4. j \in Job /\ j.step = "open" /\ j.level = job[p].level /\ j.cur = job[p].cur /\ j.ask = job[p].ask
    BY JobFacts DEF Job, Steps
  <2>5. JobOK(j, p, Made')
    BY <1>1, <2>3, <2>4, JobFacts DEF JobOK, g
  <2> HIDE DEF j
  <2>6. JobsOK'
    BY <2>2, <2>3, <2>4, <2>5, UpdType DEF CgTypes
  <2>7. QED
    BY <2>2, <2>3, <2>6, RestStill
<1>2. CASE job[p].cur \notin Made
  <2>1. TreeOK' /\ Made' = Made
    BY <1>2, TreeStill DEF CgTypes, RootLeaf
  <2>2. JobsOK'
    BY <1>2, <2>1, ReturnsType DEF CgTypes, RootLeaf
  <2>3. QED
    BY <2>1, <2>2, RestStill DEF RootLeaf
<1>3. QED
  BY <1>1, <1>2

\* OpenProcs.
LEMMA OpenProcsType == ASSUME CgTypes, NEW p \in Launchers, OpenProcs(p) PROVE CgTypes'
<1> DEFINE j == [job[p] EXCEPT !.step = "read", !.due = Members(job[p].cur)]
<1>1. j \in Job /\ j.step = "read" /\ j.level = job[p].level /\ j.cur = job[p].cur /\ j.ask = job[p].ask
  BY JobFacts DEF Job, Steps, Members
<1>2. JobOK(j, p, Made)
  BY <1>1, JobFacts DEF JobOK, OpenProcs, At
<1>3. Upd(p, j) /\ UNCHANGED <<tree, where, box, disturbed>>
  BY DEF OpenProcs
<1> HIDE DEF j
<1>4. QED
  BY <1>1, <1>2, <1>3, OwnStep

\* ReadProcs.
LEMMA ReadProcsType == ASSUME CgTypes, NEW p \in Launchers, ReadProcs(p) PROVE CgTypes'
<1> DEFINE new == Members(job[p].cur) \ job[p].seen
           j == [job[p] EXCEPT !.step = "move", !.todo = new, !.seen = @ \cup new]
<1>1. new \subseteq Procs
  BY DEF Members
<1>2. Upd(p, j) /\ UNCHANGED <<tree, where, box, disturbed>>
  BY DEF ReadProcs
<1> HIDE DEF new
<1>3. j \in Job /\ j.step = "move" /\ j.level = job[p].level /\ j.cur = job[p].cur /\ j.ask = job[p].ask
  BY <1>1, JobFacts DEF Job, Steps
<1>4. JobOK(j, p, Made)
  BY <1>3, JobFacts DEF JobOK, ReadProcs, At
<1> HIDE DEF j
<1>5. QED
  BY <1>2, <1>3, <1>4, OwnStep

\* MoveProc.
LEMMA MoveProcType == ASSUME CgTypes, NEW p \in Launchers, MoveProc(p) PROVE CgTypes'
<1>1. PICK q \in job[p].todo :
         IF where[q] = Gone
         THEN Returns(p, "fail") /\ UNCHANGED where
         ELSE /\ where' = [where EXCEPT ![q] = LeafOf(job[p].cur)]
              /\ Upd(p, [job[p] EXCEPT !.todo = @ \ {q},
                                       !.step = IF job[p].todo = {q} THEN "read" ELSE "move"])
  BY DEF MoveProc
<1>2. TreeOK' /\ Made' = Made /\ UNCHANGED <<box, disturbed>>
  BY TreeStill DEF CgTypes, MoveProc
<1>3. CASE where[q] = Gone
  <2>1. Returns(p, "fail") /\ UNCHANGED where
    BY <1>1, <1>3
  <2>2. JobsOK'
    BY <1>2, <2>1, ReturnsType DEF CgTypes
  <2>3. QED
    BY <1>2, <2>1, <2>2, RestStill
<1>4. CASE where[q] # Gone
  <2> DEFINE step == IF job[p].todo = {q} THEN "read" ELSE "move"
             j == [job[p] EXCEPT !.todo = @ \ {q}, !.step = step]
  <2>1. Upd(p, j) /\ where' = [where EXCEPT ![q] = LeafOf(job[p].cur)]
    BY <1>1, <1>4
  <2>2. step \in {"read", "move"}
    OBVIOUS
  <2> HIDE DEF step
  <2>3. j \in Job /\ j.step \in {"read", "move"} /\ j.level = job[p].level
        /\ j.cur = job[p].cur /\ j.ask = job[p].ask
    BY <2>2, JobFacts DEF Job, Steps
  <2>4. LeafOf(job[p].cur) \in Made /\ job[p].cur \in Made
    BY JobFacts DEF JobOK, MoveProc, At
  <2>5. JobOK(j, p, Made)
    BY <2>3, <2>4, JobFacts DEF JobOK
  <2> HIDE DEF j
  <2>6. JobsOK'
    BY <1>2, <2>1, <2>3, <2>5, UpdType DEF CgTypes
  <2>7. where' \in [Procs -> Made' \cup {Unborn, Gone}]
    BY <1>2, <2>1, <2>4 DEF CgTypes
  <2>8. box' \in [Launchers -> Made' \cup {Unborn, Gone}] /\ disturbed' \in BOOLEAN
    BY <1>2 DEF CgTypes
  <2>9. QED
    BY <1>2, <2>6, <2>7, <2>8 DEF CgTypes
<1>5. QED
  BY <1>3, <1>4

\* AllMoved.
LEMMA AllMovedType == ASSUME CgTypes, NEW p \in Launchers, AllMoved(p) PROVE CgTypes'
<1>1. TreeOK' /\ Made' = Made
  BY TreeStill DEF CgTypes, AllMoved
<1>2. job[p] \in Job /\ job[p].level \in 0 .. Len(Chain[p]) /\ job[p].cur \in Made'
      /\ LeafOf(job[p].cur) \in Made'
  BY <1>1, JobFacts DEF JobOK, AllMoved, At
<1>3. JobsOK'
  BY <1>1, <1>2, EnsuresType DEF CgTypes, AllMoved
<1>4. QED
  BY <1>1, <1>3, RestStill DEF AllMoved

\* Who is asked last is a group.
LEMMA AskedFacts ==
    ASSUME CgTypes, NEW p \in Launchers, job[p].step \in {"look", "grant"}
    PROVE  /\ Asked(p) \in [at : Path, mask : SUBSET Controllers]
           /\ Asked(p).at \in Made
           /\ Len(job[p].ask) \in Nat \ {0}
           /\ job[p].ask \in Seq([at : Path, mask : SUBSET Controllers])
           /\ job[p].cur \in Made /\ LeafOf(job[p].cur) \in Made
<1> DEFINE ask == job[p].ask
<1>1. /\ ask \in Seq([at : Path, mask : SUBSET Controllers]) /\ ask # << >>
      /\ \A i \in 1 .. Len(ask) : ask[i].at \in Made
      /\ job[p].cur \in Made /\ LeafOf(job[p].cur) \in Made
  BY JobFacts DEF JobOK, Job
<1> HIDE DEF ask
<1>2. Len(ask) \in Nat \ {0}
  BY <1>1, EmptySeq
<1>3. Len(ask) \in 1 .. Len(ask)
  BY <1>2
<1>4. ask[Len(ask)] \in [at : Path, mask : SUBSET Controllers]
  BY <1>1, <1>3, ElementOfSeq
<1>5. QED
  BY <1>1, <1>2, <1>3, <1>4 DEF Asked, ask

\* Look.
LEMMA LookType == ASSUME CgTypes, NEW p \in Launchers, Look(p) PROVE CgTypes'
<1> DEFINE missing == Asked(p).mask \ Avail(Asked(p).at)
           up == [at |-> Parent(Asked(p).at), mask |-> missing]
<1>1. UNCHANGED <<tree, where, box, disturbed>> /\ job[p].step = "look"
  BY DEF Look, At
<1>2. CASE missing = {}
  <2> DEFINE j == [job[p] EXCEPT !.step = "grant"]
  <2>1. Upd(p, j)
    BY <1>2 DEF Look
  <2>2. j \in Job /\ j.step = "grant" /\ j.level = job[p].level /\ j.cur = job[p].cur /\ j.ask = job[p].ask
    BY JobFacts DEF Job, Steps
  <2>3. JobOK(j, p, Made)
    BY <1>1, <2>2, JobFacts DEF JobOK
  <2> HIDE DEF j
  <2>4. QED
    BY <1>1, <2>1, <2>2, <2>3, OwnStep
<1>3. CASE missing # {} /\ Asked(p).at = Top
  <2>1. Returns(p, "fail")
    BY <1>3 DEF Look
  <2>2. TreeOK' /\ Made' = Made
    BY <1>1, TreeStill DEF CgTypes
  <2>3. JobsOK'
    BY <2>1, <2>2, ReturnsType DEF CgTypes
  <2>4. QED
    BY <1>1, <2>2, <2>3, RestStill
<1>4. CASE missing # {} /\ Asked(p).at # Top
  <2> DEFINE j == [job[p] EXCEPT !.ask = Append(@, up)]
  <2>1. Upd(p, j)
    BY <1>4 DEF Look
  <2>2. up \in [at : Path, mask : SUBSET Controllers] /\ up.at \in Made
    BY <1>1, <1>4, AskedFacts, ParentPath DEF CgTypes, TreeOK
  <2> HIDE DEF up
  <2>3. /\ Append(job[p].ask, up) \in Seq([at : Path, mask : SUBSET Controllers])
        /\ Append(job[p].ask, up) # << >>
        /\ \A i \in 1 .. Len(Append(job[p].ask, up)) : Append(job[p].ask, up)[i].at \in Made
    <3> DEFINE ask == job[p].ask
    <3>1. ask \in Seq([at : Path, mask : SUBSET Controllers]) /\ Len(ask) \in Nat
          /\ \A i \in 1 .. Len(ask) : ask[i].at \in Made
      BY <1>1, AskedFacts, JobFacts DEF JobOK
    <3> HIDE DEF ask
    <3>2. /\ Append(ask, up) \in Seq([at : Path, mask : SUBSET Controllers])
          /\ Len(Append(ask, up)) = Len(ask) + 1
          /\ Append(ask, up)[Len(ask) + 1] = up
      BY <2>2, <3>1, AppendProperties
    <3>3. \A i \in 1 .. Len(ask) : Append(ask, up)[i] = ask[i]
      BY <2>2, <3>1, AppendProperties
    <3>4. \A i \in 1 .. Len(ask) + 1 : Append(ask, up)[i].at \in Made
      BY <2>2, <3>1, <3>2, <3>3
    <3>5. Append(ask, up) # << >>
      BY <3>1, <3>2, EmptySeq
    <3>6. QED
      BY <3>2, <3>4, <3>5 DEF ask
  <2>4. j \in Job /\ j.step = "look" /\ j.level = job[p].level /\ j.cur = job[p].cur
        /\ j.ask = Append(job[p].ask, up)
    BY <1>1, <2>3, JobFacts DEF Job, Steps
  <2>5. JobOK(j, p, Made)
    BY <1>1, <2>3, <2>4, JobFacts DEF JobOK
  <2> HIDE DEF j
  <2>6. QED
    BY <1>1, <2>1, <2>4, <2>5, OwnStep
<1>5. QED
  BY <1>2, <1>3, <1>4

\* A group that is there changes: what it gives, or its settings.
LEMMA ChangeTree ==
    ASSUME CgTypes, NEW g \in Made, NEW r \in Group, tree' = [tree EXCEPT ![g] = r]
    PROVE  TreeOK' /\ Made' = Made
BY DEF CgTypes, TreeOK, Made

\* What follows the last grant of a level.
LEMMA DescendsType ==
    ASSUME CgTypes, NEW p \in Launchers, NEW j \in Job, JobOK(j, p, Made), Descends(p, j), Made' = Made,
           j.cur \in Made, LeafOf(j.cur) \in Made
    PROVE  JobsOK'
<1> DEFINE last == [j EXCEPT !.step = "enter"]
           up == j.level + 1
           next == [j EXCEPT !.step = "mknode", !.level = up]
<1>1. CASE j.level = Len(Chain[p])
  <2>1. Upd(p, last)
    BY <1>1 DEF Descends
  <2>2. last \in Job /\ last.step = "enter" /\ last.level = j.level /\ last.cur = j.cur /\ last.ask = j.ask
    BY DEF Job, Steps
  <2>3. JobOK(last, p, Made')
    BY <2>2 DEF JobOK
  <2> HIDE DEF last
  <2>4. QED
    BY <2>1, <2>2, <2>3, UpdType DEF CgTypes
<1>2. CASE j.level # Len(Chain[p])
  <2>1. Upd(p, next)
    BY <1>2 DEF Descends
  <2>2. up = j.level + 1 /\ up \in Nat
    BY DEF Job
  <2> HIDE DEF up
  <2>3. next \in Job /\ next.step = "mknode" /\ next.level = up /\ next.cur = j.cur /\ next.ask = j.ask
    BY <2>2 DEF Job, Steps
  <2>4. up \in 0 .. Len(Chain[p]) /\ up > 0
    BY <1>2, <2>2, JobFacts DEF JobOK
  <2>5. JobOK(next, p, Made')
    BY <2>3, <2>4 DEF JobOK
  <2> HIDE DEF next
  <2>6. QED
    BY <2>1, <2>3, <2>5, UpdType DEF CgTypes
<1>3. QED
  BY <1>1, <1>2

\* What is left of the asked when the last has been served.
LEMMA FrontAsked ==
    ASSUME NEW S, NEW s \in Seq(S), NEW n \in Nat, Len(s) = n + 1
    PROVE  /\ SubSeq(s, 1, Len(s) - 1) \in Seq(S)
           /\ Len(SubSeq(s, 1, Len(s) - 1)) = n
           /\ \A i \in 1 .. n : SubSeq(s, 1, Len(s) - 1)[i] = s[i]
<1>1. Len(s) - 1 = n
  OBVIOUS
<1>2. SubSeq(s, 1, n) \in Seq(S) /\ Len(SubSeq(s, 1, n)) = n
  OBVIOUS
<1>3. \A i \in 1 .. n : SubSeq(s, 1, n)[i] = s[i]
  OBVIOUS
<1>4. QED
  BY <1>1, <1>2, <1>3

\* Grant.
LEMMA GrantType == ASSUME CgTypes, NEW p \in Launchers, Grant(p) PROVE CgTypes'
<1> DEFINE g == Asked(p).at
           mask == Asked(p).mask
           ask == SubSeq(job[p].ask, 1, Len(job[p].ask) - 1)
           j == [job[p] EXCEPT !.ask = ask]
<1>1. job[p].step = "grant" /\ UNCHANGED <<where, box, disturbed>>
  BY DEF Grant, At
<1>2. /\ Asked(p) \in [at : Path, mask : SUBSET Controllers]
      /\ g \in Made
      /\ job[p].cur \in Made /\ LeafOf(job[p].cur) \in Made
  BY <1>1, AskedFacts
<1>3. CASE MayEnable(g, mask)
  <2> DEFINE new == [tree[g] EXCEPT !.sub = @ \cup mask]
  <2>1. tree' = [tree EXCEPT ![g] = new]
    BY <1>3 DEF Grant
  <2>2. new \in Group
    BY <1>2 DEF CgTypes, TreeOK, Group
  <2> HIDE DEF new
  <2>3. TreeOK' /\ Made' = Made
    BY <1>2, <2>1, <2>2, ChangeTree
  <2>4. /\ ask \in Seq([at : Path, mask : SUBSET Controllers])
        /\ \A i \in 1 .. Len(ask) : ask[i].at \in Made
    <3> DEFINE old == job[p].ask
    <3>1. old \in Seq([at : Path, mask : SUBSET Controllers]) /\ Len(old) \in Nat \ {0}
          /\ \A i \in 1 .. Len(old) : old[i].at \in Made
      BY <1>1, AskedFacts, JobFacts DEF JobOK
    <3> HIDE DEF old
    <3>2. Len(old) - 1 \in Nat
      BY <3>1
    <3>3. /\ SubSeq(old, 1, Len(old) - 1) \in Seq([at : Path, mask : SUBSET Controllers])
          /\ Len(SubSeq(old, 1, Len(old) - 1)) = Len(old) - 1
          /\ \A i \in 1 .. Len(old) - 1 : SubSeq(old, 1, Len(old) - 1)[i] = old[i]
      <4>1. Len(old) = (Len(old) - 1) + 1
        BY <3>1
      <4>2. QED
        BY <3>1, <3>2, <4>1, FrontAsked
    <3>4. \A i \in 1 .. Len(old) - 1 : i \in 1 .. Len(old)
      BY <3>1
    <3>5. QED
      BY <3>1, <3>3, <3>4 DEF old
  <2>5. j \in Job /\ j.step = "grant" /\ j.level = job[p].level /\ j.cur = job[p].cur /\ j.ask = ask
    BY <1>1, <2>4, JobFacts DEF Job, Steps
  <2>6. CASE ask = << >>
    <3>1. Descends(p, j)
      BY <1>3, <2>6 DEF Grant
    <3>2. j.level \in 0 .. Len(Chain[p])
      BY <2>5, JobFacts DEF JobOK
    <3>3. JobsOK'
      <4> DEFINE k == [j EXCEPT !.step = "open"]
      <4>1. k \in Job /\ k.step = "open" /\ k.level = j.level /\ k.cur = j.cur /\ k.ask = ask
        BY <2>5 DEF Job, Steps
      <4>2. Descends(p, k)
        BY <3>1, <2>5 DEF Descends, Job
      <4>3. JobOK(k, p, Made)
        BY <1>2, <2>4, <2>5, <3>2, <4>1 DEF JobOK
      <4> HIDE DEF k, j
      <4>4. QED
        BY <1>2, <2>3, <2>5, <4>1, <4>2, <4>3, DescendsType
    <3>4. QED
      BY <1>1, <2>3, <3>3, RestStill
  <2>7. CASE ask # << >>
    <3>1. Upd(p, j)
      BY <1>3, <2>7 DEF Grant
    <3>2. JobOK(j, p, Made')
      BY <1>2, <2>3, <2>4, <2>5, <2>7, JobFacts DEF JobOK
    <3> HIDE DEF j
    <3>3. JobsOK'
      BY <2>3, <2>5, <3>1, <3>2, UpdType DEF CgTypes
    <3>4. QED
      BY <1>1, <2>3, <3>3, RestStill
  <2>8. QED
    BY <2>6, <2>7
<1>4. CASE ~MayEnable(g, mask)
  <2>1. Returns(p, "fail") /\ UNCHANGED tree
    BY <1>4 DEF Grant
  <2>2. TreeOK' /\ Made' = Made
    BY <2>1, TreeStill DEF CgTypes
  <2>3. JobsOK'
    BY <2>1, <2>2, ReturnsType DEF CgTypes
  <2>4. QED
    BY <1>1, <2>2, <2>3, RestStill
<1>5. QED
  BY <1>3, <1>4

\* MakeNode.
LEMMA MakeNodeType == ASSUME CgTypes, NEW p \in Launchers, MakeNode(p) PROVE CgTypes'
<1> DEFINE g == Append(job[p].cur, CgName[Own(p)])
           j == [job[p] EXCEPT !.step = "mkleaf", !.cur = g]
<1>1. /\ Make(g) /\ Upd(p, j) /\ UNCHANGED <<where, box, disturbed>>
      /\ job[p].step = "mknode"
  BY DEF MakeNode, At
<1>2. job[p].level \in 1 .. Len(Chain[p]) /\ job[p].cur \in Made /\ job[p].cur \in Path
  BY <1>1, JobFacts DEF JobOK
<1>3. CgName[Own(p)] \in STRING
  BY <1>2, NodeTypes DEF Own
<1>4. g \in Path /\ Parent(g) = job[p].cur
  BY <1>2, <1>3, AppendPath
<1> HIDE DEF g
<1>5. TreeOK' /\ Made \subseteq Made' /\ g \in Made'
  BY <1>1, <1>2, <1>4, MakeType DEF CgTypes
<1>6. j \in Job /\ j.step = "mkleaf" /\ j.level = job[p].level /\ j.cur = g /\ j.ask = job[p].ask
  BY <1>4, JobFacts DEF Job, Steps
<1>7. JobOK(j, p, Made')
  BY <1>2, <1>5, <1>6, JobFacts DEF JobOK
<1> HIDE DEF j
<1>8. JobsOK'
  BY <1>1, <1>5, <1>6, <1>7, UpdType DEF CgTypes
<1>9. QED
  BY <1>1, <1>5, <1>8, RestStill

\* MakeLeaf.
LEMMA MakeLeafType == ASSUME CgTypes, NEW p \in Launchers, MakeLeaf(p) PROVE CgTypes'
<1> DEFINE g == LeafOf(job[p].cur)
           j == [job[p] EXCEPT !.step = "conf"]
<1>1. /\ Make(g) /\ Upd(p, j) /\ UNCHANGED <<where, box, disturbed>>
      /\ job[p].step = "mkleaf"
  BY DEF MakeLeaf, At
<1>2. job[p].cur \in Made /\ job[p].cur \in Path /\ job[p].level > 0
  BY <1>1, JobFacts DEF JobOK
<1>3. g \in Path /\ Parent(g) = job[p].cur
  BY <1>2, AppendPath, CgroupsAssumption DEF LeafOf
<1>4. j \in Job /\ j.step = "conf" /\ j.level = job[p].level /\ j.cur = job[p].cur /\ j.ask = job[p].ask
  BY JobFacts DEF Job, Steps
<1> HIDE DEF g
<1>5. TreeOK' /\ Made \subseteq Made' /\ g \in Made'
  BY <1>1, <1>2, <1>3, MakeType DEF CgTypes
<1>6. JobOK(j, p, Made')
  BY <1>2, <1>4, <1>5, JobFacts DEF JobOK, g
<1> HIDE DEF j
<1>7. JobsOK'
  BY <1>1, <1>4, <1>5, <1>6, UpdType DEF CgTypes
<1>8. QED
  BY <1>1, <1>5, <1>7, RestStill

\* Configure.
LEMMA ConfigureType == ASSUME CgTypes, NEW p \in Launchers, Configure(p) PROVE CgTypes'
<1> DEFINE g == job[p].cur
           set == Need[Own(p)] \cap Avail(g)
           limit == [c \in Controllers |-> IF c \in set THEN Own(p) ELSE tree[g].limit[c]]
           new == [tree[g] EXCEPT !.limit = limit]
<1>1. job[p].step = "conf" /\ UNCHANGED <<where, box, disturbed>>
  BY DEF Configure, At
<1>2. g \in Made /\ job[p].level \in 1 .. Len(Chain[p]) /\ LeafOf(g) \in Made
  BY <1>1, JobFacts DEF JobOK
<1>3. Own(p) \in Nodes
  BY <1>2, NodeTypes DEF Own
<1>4. tree[g] \in Group
  BY <1>2 DEF CgTypes, TreeOK
<1>5. tree' = [tree EXCEPT ![g] = new]
  BY DEF Configure
<1>6. limit \in [Controllers -> Nodes \cup {NoNode}]
  BY <1>3, <1>4 DEF Group
<1> HIDE DEF limit
<1>7. new \in Group
  BY <1>4, <1>6 DEF Group
<1> HIDE DEF new
<1>8. TreeOK' /\ Made' = Made
  BY <1>2, <1>5, <1>7, ChangeTree
<1>9. IF set = Need[Own(p)] THEN Ensures(p, job[p]) ELSE Returns(p, "fail")
  BY DEF Configure
<1>10. CASE set = Need[Own(p)]
  <2>1. JobsOK'
    BY <1>2, <1>8, <1>9, <1>10, JobFacts, EnsuresType DEF CgTypes
  <2>2. QED
    BY <1>1, <1>8, <2>1, RestStill
<1>11. CASE set # Need[Own(p)]
  <2>1. JobsOK'
    BY <1>8, <1>9, <1>11, ReturnsType DEF CgTypes
  <2>2. QED
    BY <1>1, <1>8, <2>1, RestStill
<1>12. QED
  BY <1>10, <1>11

\* EnterLeaf.
LEMMA EnterLeafType == ASSUME CgTypes, NEW p \in Launchers, EnterLeaf(p) PROVE CgTypes'
<1>1. TreeOK' /\ Made' = Made
  BY TreeStill DEF CgTypes, EnterLeaf
<1>2. JobsOK'
  BY <1>1, ReturnsType DEF CgTypes, EnterLeaf
<1>3. LeafOf(job[p].cur) \in Made
  BY JobFacts DEF EnterLeaf, At, JobOK
<1>4. where' \in [Procs -> Made' \cup {Unborn, Gone}]
  BY <1>1, <1>3 DEF CgTypes, EnterLeaf
<1>5. box' \in [Launchers -> Made' \cup {Unborn, Gone}] /\ disturbed' \in BOOLEAN
  BY <1>1 DEF CgTypes, EnterLeaf
<1>6. QED
  BY <1>1, <1>2, <1>4, <1>5 DEF CgTypes

\* Clone.
LEMMA CloneType == ASSUME CgTypes, NEW p \in Launchers, Clone(p) PROVE CgTypes'
<1> DEFINE j == [job[p] EXCEPT !.step = "done"]
<1>1. TreeOK' /\ Made' = Made
  BY TreeStill DEF CgTypes, Clone
<1>2. j \in Job /\ j.step = "done" /\ j.level = job[p].level /\ j.ask = job[p].ask
  BY JobFacts DEF Job, Steps
<1>3. JobOK(j, p, Made')
  BY <1>1, <1>2, JobFacts DEF JobOK
<1>4. Upd(p, j)
  BY DEF Clone
<1> HIDE DEF j
<1>5. JobsOK'
  BY <1>1, <1>2, <1>3, <1>4, UpdType DEF CgTypes
<1>6. box' \in [Launchers -> Made' \cup {Unborn, Gone}]
  BY <1>1 DEF CgTypes, Clone, Procs
<1>7. where' \in [Procs -> Made' \cup {Unborn, Gone}] /\ disturbed' \in BOOLEAN
  BY <1>1 DEF CgTypes, Clone
<1>8. QED
  BY <1>1, <1>5, <1>6, <1>7 DEF CgTypes

\* The rest of the system changes no progress and no group.
LEMMA RestType ==
    ASSUME CgTypes, \/ \E p \in Launchers : Spawn(p)
                    \/ \E q \in Procs : Fork(q) \/ End(q)
    PROVE  CgTypes'
<1>1. UNCHANGED <<tree, job, box>>
  BY DEF Spawn, Fork, End, Born
<1>2. TreeOK' /\ Made' = Made
  BY <1>1, TreeStill DEF CgTypes
<1>3. JobsOK'
  BY <1>1, <1>2 DEF CgTypes, JobsOK, JobOK
<1>4. box' \in [Launchers -> Made' \cup {Unborn, Gone}]
  BY <1>1, <1>2 DEF CgTypes
<1>5. where' \in [Procs -> Made' \cup {Unborn, Gone}] /\ disturbed' \in BOOLEAN
  <2>1. CASE \E p \in Launchers : Spawn(p)
    BY <1>2, <2>1 DEF CgTypes, Spawn, Born
  <2>2. CASE \E q \in Procs : Fork(q)
    <3>1. PICK q \in Procs, r \in Procs : Born(q, where[r])
      BY <2>2 DEF Fork
    <3>2. where' = [where EXCEPT ![q] = where[r]] /\ disturbed' \in BOOLEAN
      BY <3>1, Zenon DEF Born, CgTypes
    <3>3. QED
      BY <1>2, <3>2 DEF CgTypes
  <2>3. CASE \E q \in Procs : End(q)
    BY <1>2, <2>3, Zenon DEF CgTypes, End
  <2>4. QED
    BY <2>1, <2>2, <2>3
<1>6. QED
  BY <1>2, <1>3, <1>4, <1>5 DEF CgTypes

\* The types through any step.
LEMMA CgTypesStep == CgTypes /\ [Next]_vars => CgTypes'
<1> SUFFICES ASSUME CgTypes, [Next]_vars PROVE CgTypes'
  OBVIOUS
<1>1. ASSUME NEW p \in Launchers, Launch(p) PROVE CgTypes'
  BY <1>1, NothingToSetType, BeginType, ClimbType, RootLeafType, OpenProcsType, ReadProcsType,
     MoveProcType, AllMovedType, LookType, GrantType, MakeNodeType, MakeLeafType, ConfigureType,
     EnterLeafType, CloneType DEF Launch
<1>2. CASE UNCHANGED vars
  <2>1. TreeOK' /\ Made' = Made
    BY <1>2, TreeStill DEF CgTypes, vars
  <2>2. JobsOK'
    BY <1>2, <2>1 DEF CgTypes, JobsOK, JobOK, vars
  <2>3. QED
    BY <1>2, <2>1, <2>2, RestStill DEF vars
<1>3. QED
  BY <1>1, <1>2, RestType DEF Next

\* The kernel holds a tree, and where a launcher works, and whom it asks for
\* controllers, are groups of that tree: no call is made on a group that is not
\* there (prepare_root_cgroup, prepare_middle_cgroup, enter_leaf_cgroup).
THEOREM CgroupsTypeCorrect == Spec => []TypeOK
<1>1. CgTypes => TypeOK
  BY TypeParts
<1>2. QED
  BY <1>1, CgTypesInit, CgTypesStep, PTL DEF Spec

-----------------------------------------------------------------------------
(***************************************************************************)
(* Settings in force.  The places of LimitsInv in terms of the record that *)
(* a launcher has, so that a step has only to say what record it gives.    *)
(***************************************************************************)
GroupAt(p, root, i) == root \o [k \in 1 .. i |-> CgName[Chain[p][k]]]

ConfinedAs(p, j) == j.rc = "ok" /\ Mask(p, 0) # {}

PlaceAs(p, j) ==
    /\ j.step \notin {"clone", "done"} => j.rc = "none"
    /\ j.step \in {"start", "climb", "rootleaf", "open", "read", "move"} => j.level = 0
    /\ j.step \in {"rootleaf", "open", "read", "move"} => j.cur = j.root
    /\ j.step \in {"look", "grant", "mkleaf", "conf", "enter"} => j.cur = GroupAt(p, j.root, j.level)
    /\ j.step \in {"mknode", "mkleaf", "conf"} => j.level > 0
    /\ j.step = "mknode" => j.cur = GroupAt(p, j.root, j.level - 1)
    /\ j.step = "enter" \/ ConfinedAs(p, j) => j.level = Len(Chain[p])

PassedAs(p, j, i) ==
    \/ i < j.level
    \/ i = j.level /\ (j.step \in {"look", "grant", "enter"} \/ ConfinedAs(p, j))

InForceIn(t, g, n) ==
    /\ g \in DOMAIN t
    /\ \A c \in Need[n] : /\ c \in (IF g = Top THEN Controllers ELSE t[Parent(g)].sub)
                         /\ t[g].limit[c] = n

LimitsAs == \A p \in Launchers :
               /\ PlaceAs(p, job[p])
               /\ NamesDiffer => \A i \in 1 .. Len(Chain[p]) : PassedAs(p, job[p], i) =>
                   InForceIn(tree, GroupAt(p, job[p].root, i), Chain[p][i])

\* LimitsAs is LimitsInv, in parts.
LEMMA LimitsParts == NamesDiffer => (LimitsAs <=> LimitsInv)
BY DEF LimitsAs, LimitsInv, PlaceAs, PlaceInv, PassedAs, Passed, InForceIn, InForce, Made, Avail,
       ConfinedAs, Confined, GroupAt, GroupOf

\* The groups of a launcher's nodes, one below the other.
LEMMA GroupFacts ==
    ASSUME NEW p \in Launchers, NEW root \in Path, NEW i \in 0 .. Len(Chain[p])
    PROVE  /\ GroupAt(p, root, i) \in Path
           /\ Len(GroupAt(p, root, i)) = Len(root) + i
           /\ \A k \in 1 .. i : GroupAt(p, root, i)[Len(root) + k] = CgName[Chain[p][k]]
           /\ \A k \in 1 .. Len(root) : GroupAt(p, root, i)[k] = root[k]
<1> DEFINE names == [k \in 1 .. i |-> CgName[Chain[p][k]]]
<1>1. Len(Chain[p]) \in Nat /\ i \in Nat /\ i <= Len(Chain[p])
  BY CgroupsAssumption
<1>2. \A k \in 1 .. i : CgName[Chain[p][k]] \in STRING
  BY <1>1, NodeTypes
<1>3. names \in Seq(STRING) /\ Len(names) = i
  BY <1>1, <1>2
<1>4. \A k \in 1 .. i : names[k] = CgName[Chain[p][k]]
  OBVIOUS
<1> HIDE DEF names
<1>5. Len(root) \in Nat
  BY DEF Path
<1>6. /\ root \o names \in Seq(STRING)
      /\ Len(root \o names) = Len(root) + i
      /\ \A k \in 1 .. Len(root) + i : (root \o names)[k] = IF k <= Len(root) THEN root[k] ELSE names[k - Len(root)]
  BY <1>3, ConcatProperties DEF Path
<1>7. \A k \in 1 .. i : Len(root) + k \in 1 .. Len(root) + i /\ ~(Len(root) + k <= Len(root))
                        /\ (Len(root) + k) - Len(root) = k
  BY <1>1, <1>5
<1>8. \A k \in 1 .. i : (root \o names)[Len(root) + k] = names[k]
  BY <1>6, <1>7
<1>9. \A k \in 1 .. Len(root) : (root \o names)[k] = root[k]
  BY <1>1, <1>5, <1>6
<1>10. QED
  BY <1>4, <1>6, <1>8, <1>9 DEF GroupAt, names, Path

\* The group above all those of the nodes is the root found.
LEMMA GroupRoot ==
    ASSUME NEW p \in Launchers, NEW root \in Path
    PROVE  GroupAt(p, root, 0) = root
<1>1. Len(Chain[p]) \in Nat /\ 0 \in 0 .. Len(Chain[p])
  BY CgroupsAssumption
<1> DEFINE g == GroupAt(p, root, 0)
<1>2. g \in Path /\ Len(g) = Len(root) + 0 /\ \A k \in 1 .. Len(root) : g[k] = root[k]
  BY <1>1, GroupFacts
<1> HIDE DEF g
<1>3. Len(g) = Len(root)
  BY <1>2 DEF Path
<1>4. g = root
  BY <1>2, <1>3, SeqEqual DEF Path
<1>5. QED
  BY <1>4 DEF g

\* That of the next node is below the one before.
LEMMA GroupNext ==
    ASSUME NEW p \in Launchers, NEW root \in Path, NEW i \in 1 .. Len(Chain[p])
    PROVE  GroupAt(p, root, i) = Append(GroupAt(p, root, i - 1), CgName[Chain[p][i]])
<1> DEFINE g == GroupAt(p, root, i)
           h == GroupAt(p, root, i - 1)
           name == CgName[Chain[p][i]]
           a == Append(h, name)
<1>1. /\ Len(Chain[p]) \in Nat /\ i \in 0 .. Len(Chain[p]) /\ i - 1 \in 0 .. Len(Chain[p])
      /\ Len(root) \in Nat
  BY CgroupsAssumption DEF Path
<1>2. name \in STRING
  BY NodeTypes
<1>3. /\ g \in Path /\ Len(g) = Len(root) + i
      /\ \A k \in 1 .. i : g[Len(root) + k] = CgName[Chain[p][k]]
      /\ \A k \in 1 .. Len(root) : g[k] = root[k]
  BY <1>1, GroupFacts
<1>4. /\ h \in Path /\ Len(h) = Len(root) + (i - 1)
      /\ \A k \in 1 .. i - 1 : h[Len(root) + k] = CgName[Chain[p][k]]
      /\ \A k \in 1 .. Len(root) : h[k] = root[k]
  BY <1>1, GroupFacts
<1> HIDE DEF g, h, name
<1>5. /\ a \in Path /\ Len(a) = Len(h) + 1
      /\ a[Len(h) + 1] = name
      /\ \A k \in 1 .. Len(h) : a[k] = h[k]
  <2>1. a \in Path /\ Len(a) = Len(h) + 1 /\ a[Len(h) + 1] = name
    BY <1>2, <1>4, AppendPath
  <2>2. \A k \in 1 .. Len(h) : a[k] = h[k]
    BY <1>4 DEF Path
  <2>3. QED
    BY <2>1, <2>2
<1> HIDE DEF a
<1>6. Len(a) = Len(root) + i /\ Len(h) = Len(root) + i - 1
  BY <1>1, <1>4, <1>5
<1>7. ASSUME NEW k \in 1 .. Len(root) + i PROVE a[k] = g[k]
  <2>1. CASE k <= Len(root)
    BY <1>1, <1>3, <1>4, <1>5, <1>6, <2>1
  <2>2. CASE k > Len(root) /\ k < Len(root) + i
    <3>1. k - Len(root) \in 1 .. i - 1 /\ k - Len(root) \in 1 .. i /\ Len(root) + (k - Len(root)) = k /\ k \in 1 .. Len(h)
      BY <1>1, <1>6, <2>2
    <3>2. g[k] = CgName[Chain[p][k - Len(root)]]
      BY <1>3, <3>1
    <3>3. h[k] = CgName[Chain[p][k - Len(root)]]
      BY <1>4, <3>1
    <3>4. QED
      BY <1>5, <3>1, <3>2, <3>3
  <2>3. CASE k = Len(root) + i
    <3>1. g[k] = name
      BY <1>1, <1>3, <2>3 DEF name
    <3>2. a[k] = name
      <4>1. Len(h) + 1 = k
        BY <1>1, <1>6, <2>3
      <4>2. QED
        BY <1>5, <4>1
    <3>3. QED
      BY <3>1, <3>2
  <2>4. QED
    BY <1>1, <2>1, <2>2, <2>3
<1>8. a = g
  BY <1>3, <1>5, <1>6, <1>7, SeqEqual DEF Path
<1>9. QED
  BY <1>8 DEF a, g, h, name

\* Where names differ, a group is that of one node only.
LEMMA SameGroup ==
    ASSUME NamesDiffer, NEW p \in Launchers, NEW q \in Launchers, NEW r \in Path, NEW s \in Path,
           NEW i \in 1 .. Len(Chain[p]), NEW k \in 1 .. Len(Chain[q]),
           GroupAt(p, r, i) = GroupAt(q, s, k)
    PROVE  Chain[p][i] = Chain[q][k]
<1>1. /\ i \in 0 .. Len(Chain[p]) /\ i \in 1 .. i
      /\ k \in 0 .. Len(Chain[q]) /\ k \in 1 .. k
  BY CgroupsAssumption
<1>2. Len(GroupAt(p, r, i)) = Len(r) + i /\ GroupAt(p, r, i)[Len(r) + i] = CgName[Chain[p][i]]
  BY <1>1, GroupFacts
<1>3. Len(GroupAt(q, s, k)) = Len(s) + k /\ GroupAt(q, s, k)[Len(s) + k] = CgName[Chain[q][k]]
  BY <1>1, GroupFacts
<1>4. CgName[Chain[p][i]] = CgName[Chain[q][k]]
  BY <1>2, <1>3
<1>5. QED
  BY <1>4, NodeTypes DEF NamesDiffer

\* What a step may do to the groups: more of them, more given to children, and
\* settings only by a launcher at its node's group.
Steady ==
    /\ Made \subseteq Made'
    /\ \A g \in Made : tree[g].sub \subseteq tree'[g].sub
    /\ \A g \in Made, c \in Controllers :
         \/ tree'[g].limit[c] = tree[g].limit[c]
         \/ \E q \in Launchers : /\ job[q].step = "conf" /\ job[q].cur = g
                                 /\ tree'[g].limit[c] = Own(q)

\* A tree left alone is steady,
LEMMA SteadyStill == ASSUME UNCHANGED tree PROVE Steady
BY DEF Steady, Made

\* so is one to which a group is added,
LEMMA SteadyMake ==
    ASSUME CgTypes, NEW g, Make(g)
    PROVE  Steady
<1>1. tree' = [h \in Made \cup {g} |-> IF h \in Made THEN tree[h] ELSE Fresh]
  BY DEF Make
<1>2. Made' = Made \cup {g} /\ \A h \in Made : tree'[h] = tree[h]
  BY <1>1 DEF Made
<1>3. QED
  BY <1>2 DEF Steady

\* and each step leaves it steady.
LEMMA SteadyStep == ASSUME CgTypes, [Next]_vars PROVE Steady
<1>1. ASSUME NEW p \in Launchers, Grant(p), ~UNCHANGED tree PROVE Steady
  <2> DEFINE g == Asked(p).at
             mask == Asked(p).mask
             new == [tree[g] EXCEPT !.sub = @ \cup mask]
  <2>1. tree' = [tree EXCEPT ![g] = new]
    BY <1>1 DEF Grant
  <2>2. g \in Made /\ mask \subseteq Controllers
    BY <1>1, AskedFacts DEF Grant, At
  <2>3. tree[g] \in Group
    BY <2>2 DEF CgTypes, TreeOK
  <2>4. new.limit = tree[g].limit /\ tree[g].sub \subseteq new.sub
    BY <2>3 DEF Group
  <2> HIDE DEF new, g, mask
  <2>5. Made' = Made /\ \A h \in Made : tree'[h] = IF h = g THEN new ELSE tree[h]
    BY <2>1, <2>2 DEF CgTypes, TreeOK, Made
  <2>6. QED
    BY <2>4, <2>5 DEF Steady
<1>2. ASSUME NEW p \in Launchers, Configure(p) PROVE Steady
  <2> DEFINE g == job[p].cur
             set == Need[Own(p)] \cap Avail(g)
             limit == [c \in Controllers |-> IF c \in set THEN Own(p) ELSE tree[g].limit[c]]
             new == [tree[g] EXCEPT !.limit = limit]
  <2>1. tree' = [tree EXCEPT ![g] = new] /\ job[p].step = "conf"
    BY <1>2 DEF Configure, At
  <2>2. g \in Made
    BY <2>1, JobFacts DEF JobOK
  <2>3. tree[g] \in Group
    BY <2>2 DEF CgTypes, TreeOK
  <2>4. \A c \in Controllers : limit[c] \in {tree[g].limit[c], Own(p)}
    OBVIOUS
  <2> HIDE DEF limit
  <2>5. new.limit = limit /\ new.sub = tree[g].sub
    BY <2>3 DEF Group
  <2> HIDE DEF new
  <2>6. Made' = Made /\ \A h \in Made : tree'[h] = IF h = g THEN new ELSE tree[h]
    BY <2>1, <2>2 DEF CgTypes, TreeOK, Made
  <2>7. \A h \in Made : tree[h].sub \subseteq tree'[h].sub
    BY <2>5, <2>6
  <2>8. ASSUME NEW h \in Made, NEW c \in Controllers
        PROVE  \/ tree'[h].limit[c] = tree[h].limit[c]
               \/ job[p].cur = h /\ tree'[h].limit[c] = Own(p)
    <3>1. CASE h = g
      BY <2>4, <2>5, <2>6, <3>1
    <3>2. CASE h # g
      BY <2>6, <3>2
    <3>3. QED
      BY <3>1, <3>2
  <2>9. QED
    BY <2>1, <2>6, <2>7, <2>8 DEF Steady
<1>3. ASSUME NEW p \in Launchers, RootLeaf(p) \/ MakeNode(p) \/ MakeLeaf(p) PROVE Steady
  BY <1>3, SteadyMake, SteadyStill DEF RootLeaf, MakeNode, MakeLeaf
<1>4. ASSUME NEW p \in Launchers, Launch(p) PROVE Steady
  BY <1>1, <1>2, <1>3, <1>4, SteadyStill DEF Launch, NothingToSet, Begin, Climb, OpenProcs, ReadProcs,
     MoveProc, AllMoved, Look, EnterLeaf, Clone
<1>5. QED
  BY <1>4, SteadyStill DEF Next, Spawn, Fork, End, Born, vars

\* Settings once in force stay so: who writes settings to the group of a node
\* writes those of that node.
LEMMA InForceKept ==
    ASSUME CgTypes, LimitsAs, NamesDiffer, Steady,
           NEW p \in Launchers, NEW i \in 1 .. Len(Chain[p]), NEW root \in Path,
           InForceIn(tree, GroupAt(p, root, i), Chain[p][i])
    PROVE  InForceIn(tree', GroupAt(p, root, i), Chain[p][i])
<1> DEFINE g == GroupAt(p, root, i)
           n == Chain[p][i]
<1>1. n \in Nodes /\ Need[n] \subseteq Controllers
  BY NodeTypes
<1>2. g \in Made /\ g \in Made'
  BY DEF InForceIn, Steady, Made
<1>3. g # Top => Parent(g) \in Made
  BY <1>2 DEF CgTypes, TreeOK
<1>4. ASSUME NEW q \in Launchers, job[q].step = "conf", job[q].cur = g PROVE Own(q) = n
  <2>1. /\ job[q].cur = GroupAt(q, job[q].root, job[q].level)
        /\ job[q].level > 0 /\ job[q].level \in 0 .. Len(Chain[q]) /\ job[q].root \in Path
    BY <1>4, JobFacts DEF LimitsAs, PlaceAs, JobOK, Job
  <2>2. job[q].level \in 1 .. Len(Chain[q])
    BY <2>1, JobFacts
  <2>3. GroupAt(q, job[q].root, job[q].level) = GroupAt(p, root, i)
    BY <1>4, <2>1
  <2> DEFINE s == job[q].root
             k == job[q].level
  <2>4. s \in Path /\ k \in 1 .. Len(Chain[q]) /\ GroupAt(p, root, i) = GroupAt(q, s, k) /\ Own(q) = Chain[q][k]
    BY <2>1, <2>2, <2>3 DEF Own
  <2> HIDE DEF s, k
  <2>5. Chain[p][i] = Chain[q][k]
    BY <2>4, SameGroup
  <2>6. QED
    BY <2>4, <2>5
<1>5. ASSUME NEW c \in Need[n] PROVE tree'[g].limit[c] = n
  <2>1. tree[g].limit[c] = n
    BY DEF InForceIn
  <2>2. QED
    BY <1>1, <1>2, <1>4, <2>1 DEF Steady
<1>6. ASSUME NEW c \in Need[n], g # Top PROVE c \in tree'[Parent(g)].sub
  BY <1>3, <1>6 DEF InForceIn, Steady
<1>7. ASSUME NEW c \in Need[n] PROVE c \in Controllers
  BY <1>1
<1> HIDE DEF g, n
<1>8. InForceIn(tree', g, n)
  BY <1>2, <1>5, <1>6, <1>7 DEF InForceIn, Made
<1>9. QED
  BY <1>8 DEF g, n

-----------------------------------------------------------------------------
\* The others are not disturbed by a launcher's step; what it passed stays in
\* force, what it passes now has to be.
LEMMA LimitsUpd ==
    ASSUME CgTypes, LimitsAs, Steady,
           NEW p \in Launchers, NEW j \in Job, Upd(p, j), PlaceAs(p, j),
           \A i \in 1 .. Len(Chain[p]) :
               PassedAs(p, j, i) =>
                   \/ PassedAs(p, job[p], i) /\ j.root = job[p].root
                   \/ InForceIn(tree', GroupAt(p, j.root, i), Chain[p][i])
    PROVE  LimitsAs'
<1>1. job' = [job EXCEPT ![p] = j] /\ job \in [Launchers -> Job]
  BY DEF Upd, CgTypes, JobsOK
<1>2. \A q \in Launchers : job'[q] = IF q = p THEN j ELSE job[q]
  BY <1>1
<1>3. ASSUME NamesDiffer, NEW q \in Launchers, NEW i \in 1 .. Len(Chain[q]), PassedAs(q, job[q], i)
      PROVE  InForceIn(tree', GroupAt(q, job[q].root, i), Chain[q][i])
  <2>1. InForceIn(tree, GroupAt(q, job[q].root, i), Chain[q][i]) /\ job[q].root \in Path
    BY <1>3, JobFacts DEF LimitsAs, Job
  <2> DEFINE r == job[q].root
  <2>2. r \in Path /\ InForceIn(tree, GroupAt(q, r, i), Chain[q][i])
    BY <2>1
  <2> HIDE DEF r
  <2>3. InForceIn(tree', GroupAt(q, r, i), Chain[q][i])
    BY <1>3, <2>2, InForceKept
  <2>4. QED
    BY <2>3 DEF r
<1>4. ASSUME NEW q \in Launchers
      PROVE  PlaceAs(q, job'[q]) /\ (NamesDiffer => \A i \in 1 .. Len(Chain[q]) : PassedAs(q, job'[q], i) =>
                 InForceIn(tree', GroupAt(q, job'[q].root, i), Chain[q][i]))
  <2>1. CASE q = p
    BY <1>2, <1>3, <2>1
  <2>2. CASE q # p
    <3>1. job'[q] = job[q]
      BY <1>2, <2>2
    <3>2. PlaceAs(q, job[q])
      BY DEF LimitsAs
    <3>3. QED
      BY <1>3, <3>1, <3>2
  <2>3. QED
    BY <2>1, <2>2
<1>5. QED
  BY <1>4 DEF NamesDiffer, LimitsAs, PlaceAs, PassedAs, InForceIn, ConfinedAs, GroupAt, Mask

\* set_cgroups gives up: nobody tells that its launcher is confined.
LEMMA LimitsReturns ==
    ASSUME CgTypes, LimitsAs, Steady, NEW p \in Launchers, NEW rc \in {"ok", "fail"},
           Returns(p, rc),
           rc = "ok" => Mask(p, 0) = {} \/ job[p].step = "enter"
    PROVE  LimitsAs'
<1> DEFINE j == [job[p] EXCEPT !.step = "clone", !.rc = rc, !.todo = {}]
<1>1. j \in Job /\ j.step = "clone" /\ j.level = job[p].level /\ j.rc = rc /\ j.root = job[p].root
  BY JobFacts DEF Job, Steps
<1>2. Upd(p, j)
  BY DEF Returns
<1>3. PlaceAs(p, job[p])
  BY DEF LimitsAs
<1> HIDE DEF j
<1>4. PlaceAs(p, j)
  BY <1>1, <1>3 DEF PlaceAs, ConfinedAs
<1>5. \A i \in 1 .. Len(Chain[p]) : PassedAs(p, j, i) => PassedAs(p, job[p], i)
  BY <1>1 DEF PassedAs, ConfinedAs
<1>6. QED
  BY <1>1, <1>2, <1>4, <1>5, LimitsUpd

\* ensure_required_controllers begins at a level whose settings are in force.
LEMMA LimitsEnsures ==
    ASSUME CgTypes, LimitsAs, Steady, NEW p \in Launchers, Ensures(p, job[p]),
           job[p].cur = GroupAt(p, job[p].root, job[p].level), job[p].cur \in Made, job[p].rc = "none",
           job[p].level > 0 =>
               InForceIn(tree', GroupAt(p, job[p].root, job[p].level), Chain[p][job[p].level])
    PROVE  LimitsAs'
<1> DEFINE first == [at |-> job[p].cur, mask |-> Expected(p, job[p].level)]
           j == [job[p] EXCEPT !.step = "look", !.todo = {}, !.due = {}, !.seen = {},
                               !.ask = <<first>>]
<1>1. job[p] \in Job /\ job[p].level \in Nat
  BY JobFacts DEF Job
<1>2. first \in [at : Path, mask : SUBSET Controllers]
  BY <1>1, MaskType DEF Job
<1>3. Upd(p, j)
  BY DEF Ensures
<1> HIDE DEF first
<1>4. <<first>> \in Seq([at : Path, mask : SUBSET Controllers])
  BY <1>2
<1>5. j \in Job /\ j.step = "look" /\ j.level = job[p].level /\ j.rc = job[p].rc /\ j.root = job[p].root
      /\ j.cur = job[p].cur
  BY <1>1, <1>4 DEF Job, Steps
<1> HIDE DEF j
<1>6. PlaceAs(p, j)
  BY <1>5 DEF PlaceAs, ConfinedAs
<1>7. ASSUME NEW i \in 1 .. Len(Chain[p]), PassedAs(p, j, i)
      PROVE  \/ PassedAs(p, job[p], i) /\ j.root = job[p].root
             \/ InForceIn(tree', GroupAt(p, j.root, i), Chain[p][i])
  <2>1. CASE i < j.level
    BY <1>5, <2>1 DEF PassedAs
  <2>2. CASE i = j.level
    <3>1. job[p].level = i /\ i > 0 /\ j.root = job[p].root
      BY <1>5, <2>2
    <3>2. QED
      BY <3>1
  <2>3. QED
    BY <1>7, <2>1, <2>2 DEF PassedAs
<1>8. QED
  BY <1>3, <1>5, <1>6, <1>7, LimitsUpd

\* A step within a level: the same level, root and result, in a place that fits.
LEMMA LimitsWithin ==
    ASSUME CgTypes, LimitsAs, Steady, NEW p \in Launchers, NEW j \in Job, Upd(p, j),
           j.level = job[p].level, j.root = job[p].root, j.rc = job[p].rc, PlaceAs(p, j),
           j.step \in {"look", "grant", "enter"} => job[p].step \in {"look", "grant", "enter"}
    PROVE  LimitsAs'
<1>1. \A i \in 1 .. Len(Chain[p]) : PassedAs(p, j, i) => PassedAs(p, job[p], i)
  BY DEF PassedAs, ConfinedAs
<1>2. QED
  BY <1>1, LimitsUpd

\* LimitsAs holds at first.
LEMMA LimitsInit == Init => LimitsAs
<1> SUFFICES ASSUME Init, NEW p \in Launchers
             PROVE  PlaceAs(p, job[p]) /\ \A i \in 1 .. Len(Chain[p]) : ~PassedAs(p, job[p], i)
  BY DEF LimitsAs
<1>1. job[p].step = "start" /\ job[p].rc = "none" /\ job[p].level = 0
  BY DEF Init
<1>2. QED
  BY <1>1 DEF PlaceAs, PassedAs, ConfinedAs

\* While the root is looked for, nothing has been passed.
LEMMA LimitsSearch ==
    ASSUME CgTypes, LimitsAs, Steady, NEW p \in Launchers, NEW j \in Job, Upd(p, j),
           j.step \in {"climb", "rootleaf"}, job[p].step \in {"start", "climb"},
           j.level = job[p].level, j.rc = job[p].rc, j.step = "rootleaf" => j.cur = j.root
    PROVE  LimitsAs'
<1>1. PlaceAs(p, job[p])
  BY DEF LimitsAs
<1>2. j.level = 0 /\ j.rc = "none"
  BY <1>1 DEF PlaceAs
<1>3. PlaceAs(p, j)
  BY <1>2 DEF PlaceAs, ConfinedAs
<1>4. \A i \in 1 .. Len(Chain[p]) : ~PassedAs(p, j, i)
  BY <1>2 DEF PassedAs
<1>5. QED
  BY <1>3, <1>4, LimitsUpd

\* LimitsAs through each action of a launcher.
LEMMA LimitsBegin ==
    ASSUME CgTypes, LimitsAs, Steady, NEW p \in Launchers, Begin(p)
    PROVE  LimitsAs'
<1> DEFINE g == Stripped(IF RootPath = NoPath THEN where[p] ELSE RootPath)
           j == [job[p] EXCEPT !.step = "climb", !.cur = g, !.root = g]
<1>1. g \in Path
  BY AliveMade, StrippedType, CgroupsAssumption DEF Begin, Procs
<1> HIDE DEF g
<1>2. j \in Job /\ j.step = "climb" /\ j.level = job[p].level /\ j.rc = job[p].rc
  BY <1>1, JobFacts DEF Job, Steps
<1>3. Upd(p, j) /\ job[p].step = "start"
  BY DEF Begin, g, At
<1> HIDE DEF j
<1>4. QED
  BY <1>2, <1>3, LimitsSearch

\* Climb.
LEMMA LimitsClimb ==
    ASSUME CgTypes, LimitsAs, Steady, NEW p \in Launchers, Climb(p)
    PROVE  LimitsAs'
<1> DEFINE g == job[p].cur
           up == LeafOf(g) \in Made /\ g # Top
           root == IF LeafOf(g) \in Made THEN g ELSE job[p].root
           cur == IF up THEN Parent(g) ELSE root
           step == IF up THEN "climb" ELSE "rootleaf"
           j == [job[p] EXCEPT !.root = root, !.cur = cur, !.step = step]
<1>1. root \in Path /\ cur \in Path
  BY JobFacts, ParentPath DEF Job
<1>2. Upd(p, j) /\ job[p].step = "climb"
  BY DEF Climb, At
<1>3. step \in {"climb", "rootleaf"} /\ (step = "rootleaf" => cur = root)
  OBVIOUS
<1> HIDE DEF root, cur, step
<1>4. j \in Job /\ j.step = step /\ j.level = job[p].level /\ j.rc = job[p].rc /\ j.root = root /\ j.cur = cur
  BY <1>1, <1>3, JobFacts DEF Job, Steps
<1> HIDE DEF j
<1>5. QED
  BY <1>2, <1>3, <1>4, LimitsSearch

\* RootLeaf.
LEMMA LimitsRootLeaf ==
    ASSUME CgTypes, LimitsAs, Steady, NEW p \in Launchers, RootLeaf(p)
    PROVE  LimitsAs'
<1>1. CASE job[p].cur \in Made
  <2> DEFINE j == [job[p] EXCEPT !.step = "open"]
  <2>1. Upd(p, j) /\ job[p].step = "rootleaf" /\ PlaceAs(p, job[p])
    BY <1>1 DEF RootLeaf, At, LimitsAs
  <2>2. j \in Job /\ j.step = "open" /\ j.level = job[p].level /\ j.rc = job[p].rc /\ j.root = job[p].root
        /\ j.cur = job[p].cur
    BY JobFacts DEF Job, Steps
  <2> HIDE DEF j
  <2>3. PlaceAs(p, j)
    BY <2>1, <2>2 DEF PlaceAs, ConfinedAs
  <2>4. QED
    BY <2>1, <2>2, <2>3, LimitsWithin
<1>2. CASE job[p].cur \notin Made
  BY <1>2, LimitsReturns DEF RootLeaf
<1>3. QED
  BY <1>1, <1>2

\* The actions of moveProcs.
LEMMA LimitsProcs ==
    ASSUME CgTypes, LimitsAs, Steady, NEW p \in Launchers,
           OpenProcs(p) \/ ReadProcs(p) \/ MoveProc(p) \/ AllMoved(p)
    PROVE  LimitsAs'
<1>1. /\ job[p].step \in {"open", "read", "move"} /\ PlaceAs(p, job[p])
      /\ job[p].level = 0 /\ job[p].rc = "none" /\ job[p].cur = job[p].root
  BY DEF OpenProcs, ReadProcs, MoveProc, AllMoved, At, LimitsAs, PlaceAs
<1>2. ASSUME NEW j \in Job, Upd(p, j), j.step \in {"open", "read", "move"},
             j.level = job[p].level, j.rc = job[p].rc, j.root = job[p].root, j.cur = job[p].cur
      PROVE  LimitsAs'
  <2>1. PlaceAs(p, j)
    BY <1>1, <1>2 DEF PlaceAs, ConfinedAs
  <2>2. QED
    BY <1>1, <1>2, <2>1, LimitsWithin
<1>3. CASE OpenProcs(p)
  <2> DEFINE j == [job[p] EXCEPT !.step = "read", !.due = Members(job[p].cur)]
  <2>1. j \in Job /\ j.step = "read" /\ j.level = job[p].level /\ j.rc = job[p].rc /\ j.root = job[p].root
        /\ j.cur = job[p].cur
    BY JobFacts DEF Job, Steps, Members
  <2>2. Upd(p, j)
    BY <1>3 DEF OpenProcs
  <2> HIDE DEF j
  <2>3. QED
    BY <1>2, <2>1, <2>2
<1>4. CASE ReadProcs(p)
  <2> DEFINE new == Members(job[p].cur) \ job[p].seen
             j == [job[p] EXCEPT !.step = "move", !.todo = new, !.seen = @ \cup new]
  <2>1. new \subseteq Procs
    BY DEF Members
  <2>2. Upd(p, j)
    BY <1>4 DEF ReadProcs
  <2> HIDE DEF new
  <2>3. j \in Job /\ j.step = "move" /\ j.level = job[p].level /\ j.rc = job[p].rc /\ j.root = job[p].root
        /\ j.cur = job[p].cur
    BY <2>1, JobFacts DEF Job, Steps
  <2> HIDE DEF j
  <2>4. QED
    BY <1>2, <2>2, <2>3
<1>5. CASE MoveProc(p)
  <2>1. PICK q \in job[p].todo :
           IF where[q] = Gone
           THEN Returns(p, "fail") /\ UNCHANGED where
           ELSE /\ where' = [where EXCEPT ![q] = LeafOf(job[p].cur)]
                /\ Upd(p, [job[p] EXCEPT !.todo = @ \ {q},
                                         !.step = IF job[p].todo = {q} THEN "read" ELSE "move"])
    BY <1>5 DEF MoveProc
  <2>2. CASE where[q] = Gone
    BY <2>1, <2>2, LimitsReturns
  <2>3. CASE where[q] # Gone
    <3> DEFINE step == IF job[p].todo = {q} THEN "read" ELSE "move"
               j == [job[p] EXCEPT !.todo = @ \ {q}, !.step = step]
    <3>1. Upd(p, j) /\ step \in {"read", "move"}
      BY <2>1, <2>3
    <3> HIDE DEF step
    <3>2. j \in Job /\ j.step \in {"read", "move"} /\ j.level = job[p].level /\ j.rc = job[p].rc
          /\ j.root = job[p].root /\ j.cur = job[p].cur
      BY <3>1, JobFacts DEF Job, Steps
    <3> HIDE DEF j
    <3>3. QED
      BY <1>2, <3>1, <3>2
  <2>4. QED
    BY <2>2, <2>3
<1>6. CASE AllMoved(p)
  <2>1. Ensures(p, job[p]) /\ job[p].step = "read"
    BY <1>6 DEF AllMoved, At
  <2>2. job[p].cur = GroupAt(p, job[p].root, job[p].level)
    BY <1>1, GroupRoot, JobFacts DEF Job
  <2>3. job[p].cur \in Made
    BY <2>1, JobFacts DEF JobOK
  <2>4. QED
    BY <1>1, <2>1, <2>2, <2>3, LimitsEnsures
<1>7. QED
  BY <1>3, <1>4, <1>5, <1>6

\* Look.
LEMMA LimitsLook ==
    ASSUME CgTypes, LimitsAs, Steady, NEW p \in Launchers, Look(p)
    PROVE  LimitsAs'
<1>1. job[p].step = "look" /\ PlaceAs(p, job[p])
  BY DEF Look, At, LimitsAs
<1>2. CASE Returns(p, "fail")
  BY <1>2, LimitsReturns
<1>3. CASE ~Returns(p, "fail")
  <2>1. PICK step \in {"look", "grant"} : \E ask : Upd(p, [job[p] EXCEPT !.step = step, !.ask = ask])
    <3>1. CASE Asked(p).mask \ Avail(Asked(p).at) = {}
      <4>1. Upd(p, [job[p] EXCEPT !.step = "grant"])
        BY <3>1 DEF Look
      <4>2. [job[p] EXCEPT !.step = "grant"] = [job[p] EXCEPT !.step = "grant", !.ask = job[p].ask]
        BY JobFacts DEF Job
      <4>3. QED
        BY <4>1, <4>2
    <3>2. CASE Asked(p).mask \ Avail(Asked(p).at) # {}
      <4> DEFINE ask == Append(job[p].ask, [at |-> Parent(Asked(p).at), mask |-> Asked(p).mask \ Avail(Asked(p).at)])
      <4>1. Upd(p, [job[p] EXCEPT !.ask = ask])
        BY <1>3, <3>2 DEF Look
      <4> HIDE DEF ask
      <4>2. [job[p] EXCEPT !.ask = ask] = [job[p] EXCEPT !.step = "look", !.ask = ask]
        BY <1>1, JobFacts DEF Job
      <4>3. QED
        BY <4>1, <4>2
    <3>3. QED
      BY <3>1, <3>2
  <2>2. PICK ask : Upd(p, [job[p] EXCEPT !.step = step, !.ask = ask])
    BY <2>1
  <2> DEFINE j == [job[p] EXCEPT !.step = step, !.ask = ask]
  <2>3. j.step = step /\ j.level = job[p].level /\ j.rc = job[p].rc /\ j.root = job[p].root /\ j.cur = job[p].cur
    BY JobFacts DEF Job
  <2>4. job' \in [Launchers -> Job] /\ job'[p] = j
    <3>1. CgTypes'
      BY LookType
    <3>2. QED
      BY <2>2, <3>1 DEF CgTypes, JobsOK, Upd
  <2>5. j \in Job /\ Upd(p, j)
    BY <2>2, <2>4
  <2> HIDE DEF j
  <2>6. PlaceAs(p, j)
    BY <1>1, <2>3 DEF PlaceAs, ConfinedAs
  <2>7. QED
    BY <1>1, <2>3, <2>5, <2>6, LimitsWithin
<1>4. QED
  BY <1>2, <1>3

\* Grant.
LEMMA LimitsGrant ==
    ASSUME CgTypes, LimitsAs, Steady, NEW p \in Launchers, Grant(p)
    PROVE  LimitsAs'
<1> DEFINE ask == SubSeq(job[p].ask, 1, Len(job[p].ask) - 1)
           k == [job[p] EXCEPT !.ask = ask]
           lv == job[p].level
<1>1. job[p].step = "grant" /\ PlaceAs(p, job[p]) /\ lv \in 0 .. Len(Chain[p])
  BY JobFacts DEF Grant, At, LimitsAs, JobOK
<1>2. job[p].rc = "none" /\ job[p].cur = GroupAt(p, job[p].root, lv)
  BY <1>1 DEF PlaceAs
<1>3. job' \in [Launchers -> Job]
  BY GrantType DEF CgTypes, JobsOK
<1>4. Returns(p, "fail") \/ Descends(p, k) \/ Upd(p, k)
  BY DEF Grant
<1>5. k.step = "grant" /\ k.level = lv /\ k.rc = job[p].rc /\ k.root = job[p].root /\ k.cur = job[p].cur
  BY <1>1, JobFacts DEF Job
<1> HIDE DEF k
<1>6. ASSUME NEW j, Upd(p, j) PROVE j \in Job
  BY <1>3, <1>6 DEF Upd
<1>7. CASE Upd(p, k)
  <2>1. PlaceAs(p, k)
    BY <1>1, <1>5 DEF PlaceAs, ConfinedAs
  <2>2. QED
    BY <1>1, <1>5, <1>6, <1>7, <2>1, LimitsWithin
<1>8. CASE Descends(p, k)
  <2>1. k \in [step : Steps, rc : {"none", "ok", "fail"}, level : Nat, cur : Path, root : Path,
                due : SUBSET Procs, seen : SUBSET Procs, todo : SUBSET Procs,
                ask : {ask}]
    BY JobFacts DEF k, Job
  <2>2. CASE lv = Len(Chain[p])
    <3> DEFINE j == [k EXCEPT !.step = "enter"]
    <3>1. Upd(p, j)
      BY <1>5, <1>8, <2>2 DEF Descends
    <3>2. j.step = "enter" /\ j.level = lv /\ j.rc = job[p].rc /\ j.root = job[p].root /\ j.cur = job[p].cur
      BY <1>5, <2>1
    <3> HIDE DEF j
    <3>3. PlaceAs(p, j)
      BY <1>1, <1>2, <2>2, <3>2 DEF PlaceAs, ConfinedAs
    <3>4. QED
      BY <1>1, <1>6, <3>1, <3>2, <3>3, LimitsWithin
  <2>3. CASE lv # Len(Chain[p])
    <3> DEFINE up == lv + 1
               j == [k EXCEPT !.step = "mknode", !.level = up]
    <3>1. Upd(p, j)
      BY <1>5, <1>8, <2>3 DEF Descends
    <3>2. up \in Nat /\ up - 1 = lv /\ up > 0 /\ \A i \in 1 .. Len(Chain[p]) : i < up => i <= lv
      BY <1>1
    <3> HIDE DEF up
    <3>3. j.step = "mknode" /\ j.level = up /\ j.rc = job[p].rc /\ j.root = job[p].root /\ j.cur = job[p].cur
      BY <1>5, <2>1
    <3> HIDE DEF j
    <3>4. PlaceAs(p, j)
      BY <1>2, <3>2, <3>3 DEF PlaceAs, ConfinedAs
    <3>5. \A i \in 1 .. Len(Chain[p]) : PassedAs(p, j, i) => PassedAs(p, job[p], i)
      BY <1>1, <1>2, <3>2, <3>3 DEF PassedAs, ConfinedAs
    <3>6. QED
      BY <1>6, <3>1, <3>3, <3>4, <3>5, LimitsUpd
  <2>4. QED
    BY <2>2, <2>3
<1>9. CASE Returns(p, "fail")
  BY <1>9, LimitsReturns
<1>10. QED
  BY <1>4, <1>7, <1>8, <1>9

\* MakeNode.
LEMMA LimitsMakeNode ==
    ASSUME CgTypes, LimitsAs, Steady, NEW p \in Launchers, MakeNode(p)
    PROVE  LimitsAs'
<1> DEFINE g == Append(job[p].cur, CgName[Own(p)])
           j == [job[p] EXCEPT !.step = "mkleaf", !.cur = g]
<1>1. Upd(p, j) /\ job[p].step = "mknode" /\ PlaceAs(p, job[p])
  BY DEF MakeNode, At, LimitsAs
<1>2. job[p].level \in 1 .. Len(Chain[p]) /\ job[p].root \in Path
  BY <1>1, JobFacts DEF JobOK, Job
<1>3. g = GroupAt(p, job[p].root, job[p].level)
  <2>1. job[p].cur = GroupAt(p, job[p].root, job[p].level - 1)
    BY <1>1 DEF PlaceAs
  <2>2. QED
    BY <1>2, <2>1, GroupNext DEF Own
<1>4. job' \in [Launchers -> Job]
  BY MakeNodeType DEF CgTypes, JobsOK
<1>5. j \in Job
  BY <1>1, <1>4 DEF Upd
<1> HIDE DEF g
<1>6. j.step = "mkleaf" /\ j.level = job[p].level /\ j.rc = job[p].rc /\ j.root = job[p].root /\ j.cur = g
  BY JobFacts DEF Job
<1> HIDE DEF j
<1>7. PlaceAs(p, j)
  BY <1>1, <1>2, <1>3, <1>6 DEF PlaceAs, ConfinedAs
<1>8. QED
  BY <1>1, <1>5, <1>6, <1>7, LimitsWithin

\* MakeLeaf.
LEMMA LimitsMakeLeaf ==
    ASSUME CgTypes, LimitsAs, Steady, NEW p \in Launchers, MakeLeaf(p)
    PROVE  LimitsAs'
<1> DEFINE j == [job[p] EXCEPT !.step = "conf"]
<1>1. Upd(p, j) /\ job[p].step = "mkleaf" /\ PlaceAs(p, job[p])
  BY DEF MakeLeaf, At, LimitsAs
<1>2. j \in Job /\ j.step = "conf" /\ j.level = job[p].level /\ j.rc = job[p].rc /\ j.root = job[p].root
      /\ j.cur = job[p].cur
  BY JobFacts DEF Job, Steps
<1> HIDE DEF j
<1>3. PlaceAs(p, j)
  BY <1>1, <1>2 DEF PlaceAs, ConfinedAs
<1>4. QED
  BY <1>1, <1>2, <1>3, LimitsWithin

\* Configure: it is here that the settings of a node come into force.
LEMMA LimitsConfigure ==
    ASSUME CgTypes, LimitsAs, Steady, NEW p \in Launchers, Configure(p)
    PROVE  LimitsAs'
<1> DEFINE g == job[p].cur
           set == Need[Own(p)] \cap Avail(g)
           limit == [c \in Controllers |-> IF c \in set THEN Own(p) ELSE tree[g].limit[c]]
<1>1. job[p].step = "conf" /\ PlaceAs(p, job[p])
  BY DEF Configure, At, LimitsAs
<1>2. g \in Made /\ job[p].level \in 1 .. Len(Chain[p]) /\ g \in Path /\ (g # Top => Parent(g) \in Made)
  BY <1>1, JobFacts DEF JobOK, Job, CgTypes, TreeOK
<1>3. g = GroupAt(p, job[p].root, job[p].level) /\ job[p].rc = "none"
  BY <1>1 DEF PlaceAs
<1>4. CASE set = Need[Own(p)]
  <2>1. Ensures(p, job[p])
    BY <1>4 DEF Configure
  <2>2. tree' = [tree EXCEPT ![g] = [tree[g] EXCEPT !.limit = limit]]
    BY DEF Configure
  <2>3. tree'[g].limit = limit
    BY <1>2, <2>2 DEF CgTypes, TreeOK, Group
  <2>4. ASSUME NEW c \in Need[Own(p)] PROVE tree'[g].limit[c] = Own(p)
    <3>1. c \in Controllers /\ c \in set
      BY <1>2, <1>4, NodeTypes DEF Own
    <3>2. QED
      BY <2>3, <3>1
  <2>5. ASSUME NEW c \in Need[Own(p)] PROVE c \in (IF g = Top THEN Controllers ELSE tree'[Parent(g)].sub)
    BY <1>2, <1>4 DEF Avail, Steady
  <2>6. g \in DOMAIN tree'
    BY <1>2 DEF Steady, Made
  <2>7. InForceIn(tree', g, Own(p))
    BY <2>4, <2>5, <2>6 DEF InForceIn
  <2>8. QED
    BY <1>2, <1>3, <2>1, <2>7, LimitsEnsures DEF Own
<1>5. CASE set # Need[Own(p)]
  <2>1. Returns(p, "fail")
    BY <1>5 DEF Configure
  <2>2. QED
    BY <2>1, LimitsReturns
<1>6. QED
  BY <1>4, <1>5

\* Clone.
LEMMA LimitsClone ==
    ASSUME CgTypes, LimitsAs, Steady, NEW p \in Launchers, Clone(p)
    PROVE  LimitsAs'
<1> DEFINE j == [job[p] EXCEPT !.step = "done"]
<1>1. Upd(p, j) /\ job[p].step = "clone" /\ PlaceAs(p, job[p])
  BY DEF Clone, At, LimitsAs
<1>2. j \in Job /\ j.step = "done" /\ j.level = job[p].level /\ j.rc = job[p].rc /\ j.root = job[p].root
  BY JobFacts DEF Job, Steps
<1> HIDE DEF j
<1>3. PlaceAs(p, j)
  BY <1>1, <1>2 DEF PlaceAs, ConfinedAs
<1>4. QED
  BY <1>1, <1>2, <1>3, LimitsWithin

\* LimitsAs through any step.
LEMMA LimitsStep == CgTypes /\ LimitsAs /\ [Next]_vars => LimitsAs'
<1> SUFFICES ASSUME CgTypes, LimitsAs, [Next]_vars PROVE LimitsAs'
  OBVIOUS
<1>1. Steady
  BY SteadyStep
<1>2. ASSUME NEW p \in Launchers, Launch(p) PROVE LimitsAs'
  <2>1. CASE NothingToSet(p)
    BY <1>1, <2>1, LimitsReturns DEF NothingToSet
  <2>2. CASE EnterLeaf(p)
    BY <1>1, <2>2, LimitsReturns DEF EnterLeaf, At
  <2>3. QED
    BY <1>1, <1>2, <2>1, <2>2, LimitsBegin, LimitsClimb, LimitsRootLeaf, LimitsProcs, LimitsLook,
       LimitsGrant, LimitsMakeNode, LimitsMakeLeaf, LimitsConfigure, LimitsClone DEF Launch
<1>3. CASE UNCHANGED job
  <2>1. ASSUME NamesDiffer, NEW q \in Launchers, NEW i \in 1 .. Len(Chain[q]), PassedAs(q, job[q], i)
        PROVE  InForceIn(tree', GroupAt(q, job[q].root, i), Chain[q][i])
    <3> DEFINE r == job[q].root
    <3>1. r \in Path /\ InForceIn(tree, GroupAt(q, r, i), Chain[q][i])
      BY <2>1, JobFacts DEF LimitsAs, Job
    <3> HIDE DEF r
    <3>2. InForceIn(tree', GroupAt(q, r, i), Chain[q][i])
      BY <2>1, <1>1, <3>1, InForceKept
    <3>3. QED
      BY <3>2 DEF r
  <2>2. \A q \in Launchers : PlaceAs(q, job[q])
    BY DEF LimitsAs
  <2>3. ASSUME NEW q \in Launchers
        PROVE  PlaceAs(q, job'[q]) /\ (NamesDiffer => \A i \in 1 .. Len(Chain[q]) : PassedAs(q, job'[q], i) =>
                   InForceIn(tree', GroupAt(q, job'[q].root, i), Chain[q][i]))
    BY <1>3, <2>1, <2>2
  <2>4. QED
    BY <2>3 DEF NamesDiffer, LimitsAs, PlaceAs, PassedAs, InForceIn, ConfinedAs, GroupAt, Mask
<1>4. QED
  BY <1>2, <1>3 DEF Next, Spawn, Fork, End, Born, vars

\* The inductive invariant of LimitsInForce: every launcher is in the group of
\* its level, and those of the levels passed have their settings in force.
THEOREM LimitsInvCorrect ==
    ASSUME NamesDiffer PROVE Spec => []LimitsInv
<1>1. Init => CgTypes /\ LimitsAs
  BY CgTypesInit, LimitsInit
<1>2. CgTypes /\ LimitsAs /\ [Next]_vars => (CgTypes /\ LimitsAs)'
  BY CgTypesStep, LimitsStep
<1>3. LimitsAs => LimitsInv
  BY LimitsParts
<1>4. QED
  BY <1>1, <1>2, <1>3, PTL DEF Spec

\* Whatever other launchers, forks and ends of processes do, and in any order,
\* when set_cgroups returns 0 the settings of all nodes of the launcher, its
\* ancestors included, are in force and stay so, provided that different nodes
\* have groups of different names (set_cgroups, prepare_middle_cgroup).
THEOREM LimitsInForceCorrect ==
    ASSUME NamesDiffer PROVE Spec => []LimitsInForce
<1>1. LimitsInv => LimitsInForce
  <2> SUFFICES ASSUME LimitsInv, NEW p \in Launchers, Confined(p), NEW i \in 1 .. Len(Chain[p])
               PROVE  InForce(p, i)
    BY DEF LimitsInForce
  <2>1. job[p].level = Len(Chain[p])
    BY DEF LimitsInv, PlaceInv
  <2>2. Len(Chain[p]) \in Nat
    BY CgroupsAssumption
  <2>3. Passed(p, i)
    BY <2>1, <2>2 DEF Passed
  <2>4. QED
    BY <2>3 DEF LimitsInv
<1>2. QED
  BY <1>1, LimitsInvCorrect, PTL

-----------------------------------------------------------------------------
(***************************************************************************)
(* One hierarchy.  A unit is the group that a launcher's search should end *)
(* in: what is left of the option, or of the group it began in, without    *)
(* leaves.                                                                 *)
(***************************************************************************)
Under(g, V) == Len(V) <= Len(g) /\ \A i \in 1 .. Len(V) : g[i] = V[i]

Placed(q) == Start[q] \notin Launchers \cup {Unborn}

Units == IF RootPath = NoPath THEN {Stripped(Start[p]) : p \in {r \in Launchers : Placed(r)}}
                              ELSE {Stripped(RootPath)}

\* Units are not one in another, and no process begins in or below a group
\* beside a unit that has the name of leaves.
UnitsApart ==
    /\ \A V, W \in Units : Under(V, W) => V = W
    /\ \A V \in Units, q \in Procs : V # Top /\ Placed(q) => ~Under(Start[q], LeafOf(Parent(V)))

\* The units that a launcher may find: the one above the group it began in.
Homes(p) == IF RootPath = NoPath THEN {V \in Units : Under(Began(p), V)} ELSE Units

\* All groups from a unit down to a group have their leaf.
Leafy(made, V, g) == Under(g, V) /\ \A k \in Len(V) .. Len(g) : LeafOf(SubSeq(g, 1, k)) \in made

Reach(made, V, g) == g = V \/ Leafy(made, V, g)

\* Who has begun lives, who lives was placed or started by a container, and
\* the numbers in hand are of processes that were born.
BirthAs(p) ==
    /\ job[p].step # "start" => where[p] # Unborn
    /\ where[p] = Gone => job[p].step = "done"
    /\ where[p] # Unborn => /\ Start[p] # Unborn
                            /\ Start[p] \in Launchers => job[Start[p]].step = "done"
    /\ job[p].step = "done" => box[p] \in Made
    /\ job[p].step # "move" => job[p].todo = {}
    /\ \A q \in job[p].todo : where[q] # Unborn

BirthInv == \A p \in Launchers : BirthAs(p)

\* Where a launcher is in its search for the root, and in the groups below it.
HuntAs(made, units, p, j) ==
    /\ j.step \notin {"start", "clone", "done"} => Mask(p, 0) # {}
    /\ j.step = "climb" =>
         \E V \in units : \/ Reach(made, V, j.cur) /\ (j.cur = V => j.root = V \/ LeafOf(V) \in made)
                          \/ V # Top /\ j.cur = Parent(V) /\ j.root = V
    /\ j.step \notin {"start", "climb"} /\ Mask(p, 0) # {} => j.root \in units
    /\ j.step \in {"open", "read", "move", "look", "grant", "mknode", "conf", "enter"} =>
         Leafy(made, j.root, j.cur)
    /\ j.step = "mkleaf" => j.cur # Top /\ Leafy(made, j.root, Parent(j.cur))

\* No step of a launcher or of the kernel takes a launcher out of its unit.
HomeAs(p) ==
    RootPath = NoPath =>
        /\ Alive(p) => \E V \in Homes(p) : Reach(Made, V, Stripped(where[p]))
        /\ job[p].step = "done" => \E V \in Homes(p) : Reach(Made, V, Stripped(box[p]))
        /\ \A q \in job[p].todo \cap Launchers : job[p].root \in Homes(q)

\* Who began elsewhere than in a unit is never in one, and is not moved.
ShelterAs(p) ==
    where[p] # Unborn /\ Began(p) \notin Units =>
        /\ where[p] \notin Units
        /\ \A q \in Launchers : p \notin job[q].todo
        /\ job[p].step = "clone" /\ Confined(p) => where[p] = LeafOf(GroupOf(p, Len(Chain[p])))
        /\ job[p].step = "done" /\ Confined(p) => InItsLeaf(p)

NoneBeside == \A V \in Units : V # Top => LeafOf(Parent(V)) \notin Made

HierInv ==
    /\ BirthInv /\ NoneBeside
    /\ \A p \in Launchers : HuntAs(Made, Homes(p), p, job[p]) /\ HomeAs(p) /\ ShelterAs(p)

-----------------------------------------------------------------------------
\* Paths one below the other.
LEMMA PathFacts ==
    ASSUME NEW g \in Path
    PROVE  /\ Len(g) \in Nat
           /\ g = Top <=> Len(g) = 0
           /\ \A i \in 1 .. Len(g) : g[i] \in STRING
<1>1. Len(Top) = 0
  BY DEF Top
<1>2. Len(g) = 0 => g = << >>
  BY EmptySeq DEF Path
<1>3. QED
  BY <1>1, <1>2 DEF Path, Top

\* Paths of one length, one below the other, are the same.
LEMMA SamePath ==
    ASSUME NEW g \in Path, NEW h \in Path, Len(g) = Len(h), Under(g, h)
    PROVE  g = h
BY SeqEqual DEF Under, Path

\* Each group counts as below itself.
LEMMA UnderSelf ==
    ASSUME NEW g \in Path
    PROVE  Under(g, g)
BY PathFacts DEF Under

\* What is below a group is below those above it.
LEMMA UnderTrans ==
    ASSUME NEW g \in Path, NEW V \in Path, NEW W \in Path, Under(g, V), Under(V, W)
    PROVE  Under(g, W)
<1>1. Len(g) \in Nat /\ Len(V) \in Nat /\ Len(W) \in Nat
  BY PathFacts
<1>2. \A i \in 1 .. Len(W) : i \in 1 .. Len(V)
  BY <1>1 DEF Under
<1>3. QED
  BY <1>1, <1>2 DEF Under

\* Of two groups above a third, one is above the other.
LEMMA UnderBoth ==
    ASSUME NEW g \in Path, NEW V \in Path, NEW W \in Path, Under(g, V), Under(g, W), Len(V) <= Len(W)
    PROVE  Under(W, V)
<1>1. Len(g) \in Nat /\ Len(V) \in Nat /\ Len(W) \in Nat
  BY PathFacts
<1>2. \A i \in 1 .. Len(V) : i \in 1 .. Len(W)
  BY <1>1
<1>3. QED
  BY <1>1, <1>2 DEF Under

\* A beginning of a path, and the beginnings of that.
LEMMA Beginning ==
    ASSUME NEW g \in Path, NEW n \in 0 .. Len(g)
    PROVE  /\ SubSeq(g, 1, n) \in Path /\ Len(SubSeq(g, 1, n)) = n
           /\ \A i \in 1 .. n : SubSeq(g, 1, n)[i] = g[i]
           /\ Under(g, SubSeq(g, 1, n))
<1>1. Len(g) \in Nat /\ n \in Nat /\ n <= Len(g)
  BY PathFacts
<1>2. SubSeq(g, 1, n) \in Path /\ Len(SubSeq(g, 1, n)) = n
  BY <1>1, PrefixPath
<1>3. \A i \in 1 .. n : SubSeq(g, 1, n)[i] = g[i]
  BY <1>1 DEF Path
<1>4. QED
  BY <1>1, <1>2, <1>3 DEF Under

\* A group begins with the path of one above it.
LEMMA UnderBegins ==
    ASSUME NEW g \in Path, NEW V \in Path, Under(g, V)
    PROVE  /\ Len(V) \in 0 .. Len(g)
           /\ SubSeq(g, 1, Len(V)) = V
           /\ \A k \in 0 .. Len(V) : SubSeq(g, 1, k) = SubSeq(V, 1, k)
<1>1. Len(g) \in Nat /\ Len(V) \in Nat /\ Len(V) \in 0 .. Len(g)
  BY PathFacts DEF Under
<1>2. ASSUME NEW k \in 0 .. Len(V) PROVE SubSeq(g, 1, k) = SubSeq(V, 1, k)
  <2> DEFINE a == SubSeq(g, 1, k)
             b == SubSeq(V, 1, k)
  <2>1. k \in 0 .. Len(g) /\ k \in Nat
    BY <1>1
  <2>2. a \in Path /\ Len(a) = k /\ \A i \in 1 .. k : a[i] = g[i]
    BY <2>1, Beginning
  <2>3. b \in Path /\ Len(b) = k /\ \A i \in 1 .. k : b[i] = V[i]
    BY Beginning
  <2> HIDE DEF a, b
  <2>4. \A i \in 1 .. k : a[i] = b[i]
    BY <1>1, <2>2, <2>3 DEF Under
  <2>5. a = b
    BY <2>2, <2>3, <2>4, SeqEqual DEF Path
  <2>6. QED
    BY <2>5 DEF a, b
<1>3. SubSeq(V, 1, Len(V)) = V
  BY SubSeqFull DEF Path
<1>4. Len(V) \in 0 .. Len(V)
  BY <1>1
<1>5. QED
  BY <1>1, <1>2, <1>3, <1>4

\* The group above has a path shorter by one.
LEMMA ParentFacts ==
    ASSUME NEW g \in Path, g # Top
    PROVE  /\ Parent(g) \in Path /\ Len(Parent(g)) = Len(g) - 1 /\ Under(g, Parent(g))
           /\ Len(g) \in Nat \ {0}
<1>1. Len(g) \in Nat \ {0}
  BY PathFacts
<1>2. Len(g) - 1 \in 0 .. Len(g)
  BY <1>1
<1>3. QED
  BY <1>1, <1>2, Beginning DEF Parent

\* A group made in another is below it, and below what that one is below.
LEMMA AppendUnder ==
    ASSUME NEW g \in Path, NEW name \in STRING, NEW V \in Path
    PROVE  /\ Append(g, name) \in Path
           /\ Under(Append(g, name), g)
           /\ Under(g, V) => Under(Append(g, name), V)
           /\ Under(Append(g, name), V) => V = Append(g, name) \/ Under(g, V)
<1> DEFINE h == Append(g, name)
<1>1. h \in Path /\ Len(h) = Len(g) + 1
  BY AppendPath
<1>2. \A i \in 1 .. Len(g) : h[i] = g[i]
  BY DEF Path
<1> HIDE DEF h
<1>3. Len(g) \in Nat /\ Len(V) \in Nat
  BY PathFacts
<1>4. Under(h, g)
  BY <1>1, <1>2, <1>3 DEF Under
<1>5. ASSUME Under(h, V), V # h PROVE Under(g, V)
  <2>1. Len(V) <= Len(g) \/ Len(V) = Len(h)
    BY <1>1, <1>3, <1>5 DEF Under
  <2>2. CASE Len(V) = Len(h)
    BY <1>1, <1>5, <2>2, SamePath
  <2>3. CASE Len(V) <= Len(g)
    BY <1>1, <1>4, <1>5, <2>3, UnderBoth
  <2>4. QED
    BY <2>1, <2>2, <2>3
<1>6. QED
  BY <1>1, <1>4, <1>5, UnderTrans DEF h

\* A leaf is a group in the one whose leaf it is.
LEMMA LeafFacts ==
    ASSUME NEW g \in Path
    PROVE  /\ LeafOf(g) \in Path /\ LeafOf(g) # Top /\ Parent(LeafOf(g)) = g
           /\ Len(LeafOf(g)) = Len(g) + 1 /\ LeafOf(g)[Len(g) + 1] = PidsLeaf
           /\ Under(LeafOf(g), g)
BY AppendPath, AppendUnder, CgroupsAssumption DEF LeafOf

\* Names after the last that is not one of a leaf are what is stripped.
LEMMA StrippedFacts ==
    ASSUME NEW g \in Path
    PROVE  /\ Stripped(g) \in Path /\ Under(g, Stripped(g))
           /\ Stripped(g) # Top => g[Len(Stripped(g))] # PidsLeaf
           /\ \A i \in 1 .. Len(g) : i > Len(Stripped(g)) => g[i] = PidsLeaf
<1> DEFINE S == {i \in 1 .. Len(g) : \E j \in i .. Len(g) : g[j] # PidsLeaf}
           n == Cardinality(S)
<1>1. Len(g) \in Nat
  BY PathFacts
<1>2. \A i \in S : i \in 1 .. Len(g) /\ i \in Nat /\ 1 .. i \subseteq S
  BY <1>1
<1>3. \A i \in Nat : IsFiniteSet(1 .. i) /\ Cardinality(1 .. i) = i
  <2> TAKE i \in Nat
  <2>0. i \in Int /\ 1 \in Int
    OBVIOUS
  <2>1. Cardinality(1 .. i) = IF 1 > i THEN 0 ELSE i - 1 + 1
    BY <2>0, FS_Interval, Zenon
  <2>2. IsFiniteSet(1 .. i)
    BY FS_Interval
  <2>3. QED
    BY <2>1, <2>2
<1>4. S \subseteq 1 .. Len(g)
  OBVIOUS
<1> HIDE DEF S
<1>5. IsFiniteSet(S) /\ n \in Nat /\ n <= Len(g)
  <2>1. IsFiniteSet(S) /\ n <= Cardinality(1 .. Len(g))
    BY <1>1, <1>3, <1>4, FS_Subset
  <2>2. n \in Nat
    BY <2>1, FS_CardinalityType
  <2>3. QED
    BY <1>1, <1>3, <2>1, <2>2
<1>6. \A i \in S : i <= n
  <2> TAKE i \in S
  <2> DEFINE T == 1 .. i
  <2>1. T \in SUBSET S /\ Cardinality(T) = i
    BY <1>2, <1>3
  <2> HIDE DEF T
  <2>2. Cardinality(T) <= n
    BY <1>5, <2>1, FS_Subset
  <2>3. QED
    BY <2>1, <2>2
<1>7. S = 1 .. n
  <2>1. S \subseteq 1 .. n
    BY <1>2, <1>5, <1>6
  <2>2. IsFiniteSet(1 .. n) /\ Cardinality(1 .. n) = n
    BY <1>3, <1>5
  <2> HIDE DEF n
  <2>3. QED
    BY <2>1, <2>2, FS_Subset DEF n
<1>8. Stripped(g) = SubSeq(g, 1, n)
  BY DEF Stripped, S
<1> HIDE DEF n
<1>9. Stripped(g) \in Path /\ Len(Stripped(g)) = n /\ Under(g, Stripped(g))
  BY <1>1, <1>5, <1>8, Beginning
<1>10. ASSUME NEW i \in 1 .. Len(g), i > n PROVE g[i] = PidsLeaf
  <2>1. i \notin S /\ i \in i .. Len(g)
    BY <1>1, <1>5, <1>7, <1>10
  <2>2. QED
    BY <2>1 DEF S
<1>11. ASSUME n # 0 PROVE g[n] # PidsLeaf
  <2>1. n \in S
    BY <1>5, <1>7, <1>11
  <2>2. PICK j \in n .. Len(g) : g[j] # PidsLeaf
    BY <2>1 DEF S
  <2>3. j \in 1 .. Len(g) /\ (j > n \/ j = n)
    BY <1>1, <1>5, <1>11, <2>2
  <2>4. QED
    BY <1>10, <2>2, <2>3
<1>12. QED
  BY <1>9, <1>10, <1>11, PathFacts

\* How to find what is left of a path without the leaves at its end.
LEMMA StrippedIs ==
    ASSUME NEW g \in Path, NEW h \in Path, Under(g, h), h # Top => g[Len(h)] # PidsLeaf,
           \A i \in 1 .. Len(g) : i > Len(h) => g[i] = PidsLeaf
    PROVE  Stripped(g) = h
<1> DEFINE s == Stripped(g)
<1>1. /\ s \in Path /\ Under(g, s) /\ (s # Top => g[Len(s)] # PidsLeaf)
      /\ \A i \in 1 .. Len(g) : i > Len(s) => g[i] = PidsLeaf
  BY StrippedFacts
<1> HIDE DEF s
<1>2. /\ Len(g) \in Nat /\ Len(h) \in Nat /\ Len(s) \in Nat
      /\ (s = Top <=> Len(s) = 0) /\ (h = Top <=> Len(h) = 0)
      /\ Len(h) <= Len(g) /\ Len(s) <= Len(g)
  BY <1>1, PathFacts DEF Under
<1>3. Len(s) = Len(h)
  <2>1. CASE Len(h) > Len(s)
    <3>1. Len(h) \in 1 .. Len(g)
      BY <1>2, <2>1
    <3>2. QED
      BY <1>1, <1>2, <2>1, <3>1
  <2>2. CASE Len(s) > Len(h)
    <3>1. Len(s) \in 1 .. Len(g)
      BY <1>2, <2>2
    <3>2. QED
      BY <1>1, <1>2, <2>2, <3>1
  <2>3. QED
    BY <1>2, <2>1, <2>2
<1>4. Under(h, s)
  BY <1>1, <1>2, <1>3, UnderBoth
<1>5. QED
  BY <1>1, <1>3, <1>4, SamePath DEF s

\* Once stripped, nothing is left to strip.
LEMMA StrippedTwice ==
    ASSUME NEW g \in Path
    PROVE  Stripped(Stripped(g)) = Stripped(g)
<1> DEFINE s == Stripped(g)
<1>1. s \in Path /\ Under(g, s) /\ (s # Top => g[Len(s)] # PidsLeaf)
  BY StrippedFacts
<1> HIDE DEF s
<1>2. Len(s) \in Nat /\ (s # Top => Len(s) \in 1 .. Len(s)) /\ Under(s, s)
  BY <1>1, PathFacts, UnderSelf
<1>3. s # Top => s[Len(s)] # PidsLeaf
  BY <1>1, <1>2 DEF Under
<1>4. \A i \in 1 .. Len(s) : ~(i > Len(s))
  BY <1>2
<1>5. Stripped(s) = s
  BY <1>1, <1>2, <1>3, <1>4, StrippedIs
<1>6. QED
  BY <1>5 DEF s

\* A leaf is stripped to what its group is stripped to.
LEMMA StrippedLeaf ==
    ASSUME NEW g \in Path
    PROVE  Stripped(LeafOf(g)) = Stripped(g)
<1> DEFINE s == Stripped(g)
           h == LeafOf(g)
<1>1. /\ s \in Path /\ Under(g, s) /\ (s # Top => g[Len(s)] # PidsLeaf)
      /\ \A i \in 1 .. Len(g) : i > Len(s) => g[i] = PidsLeaf
  BY StrippedFacts
<1>2. h \in Path /\ Len(h) = Len(g) + 1 /\ h[Len(g) + 1] = PidsLeaf /\ Under(h, g)
  BY LeafFacts
<1> HIDE DEF s, h
<1>3. Len(g) \in Nat /\ Len(s) \in Nat /\ (s # Top => Len(s) \in 1 .. Len(g))
  BY <1>1, PathFacts DEF Under
<1>4. Under(h, s)
  BY <1>1, <1>2, UnderTrans
<1>5. s # Top => h[Len(s)] # PidsLeaf
  BY <1>1, <1>2, <1>3 DEF Under
<1>6. ASSUME NEW i \in 1 .. Len(h), i > Len(s) PROVE h[i] = PidsLeaf
  <2>1. CASE i = Len(g) + 1
    BY <1>2, <2>1
  <2>2. CASE i # Len(g) + 1
    <3>1. i \in 1 .. Len(g)
      BY <1>2, <1>3, <2>2
    <3>2. QED
      BY <1>1, <1>2, <1>6, <3>1 DEF Under
  <2>3. QED
    BY <2>1, <2>2
<1>7. Stripped(h) = s
  BY <1>1, <1>2, <1>4, <1>5, <1>6, StrippedIs
<1>8. QED
  BY <1>7 DEF s, h

\* Stripping does not leave a unit.
LEMMA StrippedUnder ==
    ASSUME NEW g \in Path, NEW V \in Path, Under(g, V), Stripped(V) = V
    PROVE  Under(Stripped(g), V)
<1> DEFINE s == Stripped(g)
<1>1. s \in Path /\ Under(g, s) /\ \A i \in 1 .. Len(g) : i > Len(s) => g[i] = PidsLeaf
  BY StrippedFacts
<1>2. V # Top => V[Len(V)] # PidsLeaf
  BY StrippedFacts
<1> HIDE DEF s
<1>3. Len(g) \in Nat /\ Len(V) \in Nat /\ Len(s) \in Nat /\ (V = Top <=> Len(V) = 0) /\ Len(V) <= Len(g)
  BY <1>1, PathFacts DEF Under
<1>4. ASSUME Len(V) > Len(s) PROVE FALSE
  <2>1. Len(V) \in 1 .. Len(g) /\ Len(V) \in 1 .. Len(V) /\ V # Top
    BY <1>3, <1>4
  <2>2. g[Len(V)] = PidsLeaf
    BY <1>1, <1>4, <2>1
  <2>3. g[Len(V)] = V[Len(V)]
    BY <2>1 DEF Under
  <2>4. QED
    BY <1>2, <2>1, <2>2, <2>3
<1>5. Under(s, V)
  BY <1>1, <1>3, <1>4, UnderBoth
<1>6. QED
  BY <1>5 DEF s

-----------------------------------------------------------------------------
\* Units.
LEMMA UnitType ==
    ASSUME NEW V \in Units
    PROVE  V \in Path /\ Stripped(V) = V
<1>1. CASE RootPath = NoPath
  <2>1. PICK p \in Launchers : Placed(p) /\ V = Stripped(Start[p])
    BY <1>1 DEF Units
  <2>2. Start[p] \in Path
    BY <2>1, CgroupsAssumption DEF Placed, Procs
  <2>3. QED
    BY <2>1, <2>2, StrippedType, StrippedTwice
<1>2. CASE RootPath # NoPath
  BY <1>2, CgroupsAssumption, StrippedType, StrippedTwice DEF Units
<1>3. QED
  BY <1>1, <1>2

\* A group is below one unit at most.
LEMMA UnitAlone ==
    ASSUME UnitsApart, NEW g \in Path, NEW V \in Units, NEW W \in Units, Under(g, V), Under(g, W)
    PROVE  V = W
<1>1. V \in Path /\ W \in Path /\ Len(V) \in Nat /\ Len(W) \in Nat
  BY UnitType, PathFacts
<1>2. Under(W, V) \/ Under(V, W)
  BY <1>1, UnderBoth
<1>3. QED
  BY <1>2 DEF UnitsApart

\* What is below a unit is no unit, and does not hold a unit.
LEMMA BelowUnit ==
    ASSUME UnitsApart, NEW g \in Path, NEW R \in Units, Under(g, R)
    PROVE  /\ LeafOf(g) \notin Units
           /\ \A V \in Units : V # Top => g # Parent(V)
<1>1. R \in Path
  BY UnitType
<1>2. ASSUME NEW V \in Units, V # Top, Under(V, g), Len(V) = Len(g) + 1 PROVE FALSE
  <2>1. V \in Path /\ Len(V) \in Nat /\ Len(g) \in Nat /\ Len(R) \in Nat
    BY <1>1, UnitType, PathFacts
  <2>2. Under(V, R)
    BY <1>1, <1>2, <2>1, UnderTrans
  <2>3. V = R
    BY <2>2 DEF UnitsApart
  <2>4. QED
    BY <1>2, <2>1, <2>3 DEF Under
<1>3. LeafOf(g) \notin Units
  BY <1>2, LeafFacts
<1>4. ASSUME NEW V \in Units, V # Top, g = Parent(V) PROVE FALSE
  <2>1. V \in Path /\ Len(V) \in Nat
    BY UnitType, PathFacts
  <2>2. Under(V, g) /\ Len(g) = Len(V) - 1
    BY <1>4, <2>1, ParentFacts
  <2>3. Len(V) = Len(g) + 1
    BY <2>1, <2>2
  <2>4. QED
    BY <1>2, <1>4, <2>2, <2>3
<1>5. QED
  BY <1>3, <1>4

-----------------------------------------------------------------------------
\* Groups that have leaves.
LEMMA LeafyEnds ==
    ASSUME NEW made, NEW g \in Path, NEW V \in Path, Leafy(made, V, g)
    PROVE  Under(g, V) /\ LeafOf(g) \in made /\ LeafOf(V) \in made
<1>1. Len(g) \in Nat /\ Len(V) \in Nat /\ SubSeq(g, 1, Len(V)) = V /\ Len(V) \in 0 .. Len(g)
  BY PathFacts, UnderBegins DEF Leafy
<1>2. SubSeq(g, 1, Len(g)) = g
  BY SubSeqFull DEF Path
<1>3. Len(g) \in Len(V) .. Len(g) /\ Len(V) \in Len(V) .. Len(g)
  BY <1>1
<1>4. QED
  BY <1>1, <1>2, <1>3 DEF Leafy

\* A unit with its leaf: the start of Leafy.
LEMMA LeafySelf ==
    ASSUME NEW made, NEW V \in Path, LeafOf(V) \in made
    PROVE  Leafy(made, V, V)
<1>1. Len(V) \in Nat /\ SubSeq(V, 1, Len(V)) = V /\ Under(V, V)
  BY PathFacts, UnderSelf, SubSeqFull DEF Path
<1>2. ASSUME NEW k \in Len(V) .. Len(V) PROVE LeafOf(SubSeq(V, 1, k)) \in made
  <2>1. k = Len(V)
    BY <1>1
  <2>2. QED
    BY <1>1, <2>1
<1>3. QED
  BY <1>1, <1>2 DEF Leafy

\* Leafy of a group gives it of those above,
LEMMA LeafyUp ==
    ASSUME NEW made, NEW g \in Path, NEW h \in Path, NEW V \in Path, Leafy(made, V, g),
           Under(g, h), Under(h, V)
    PROVE  Leafy(made, V, h)
<1>1. Len(g) \in Nat /\ Len(V) \in Nat /\ Len(h) \in Nat /\ Len(h) <= Len(g)
  BY PathFacts DEF Under
<1>2. ASSUME NEW k \in Len(V) .. Len(h) PROVE LeafOf(SubSeq(h, 1, k)) \in made
  <2>1. k \in Len(V) .. Len(g) /\ k \in 0 .. Len(h)
    BY <1>1
  <2>2. SubSeq(g, 1, k) = SubSeq(h, 1, k)
    BY <2>1, UnderBegins
  <2>3. LeafOf(SubSeq(g, 1, k)) \in made
    BY <2>1 DEF Leafy
  <2>4. QED
    BY <2>2, <2>3
<1>3. QED
  BY <1>2 DEF Leafy

\* and of the next one down that has its leaf.
LEMMA LeafyDown ==
    ASSUME NEW made, NEW g \in Path, NEW V \in Path, Leafy(made, V, Parent(g)), g # Top,
           LeafOf(g) \in made
    PROVE  Leafy(made, V, g)
<1> DEFINE h == Parent(g)
<1>1. h \in Path /\ Len(h) = Len(g) - 1 /\ Under(g, h) /\ Len(g) \in Nat \ {0}
  BY ParentFacts
<1> HIDE DEF h
<1>2. Under(g, V) /\ Len(V) \in Nat
  BY <1>1, UnderTrans, PathFacts DEF Leafy, h
<1>3. ASSUME NEW k \in Len(V) .. Len(g) PROVE LeafOf(SubSeq(g, 1, k)) \in made
  <2>1. CASE k = Len(g)
    BY <2>1, SubSeqFull DEF Path
  <2>2. CASE k # Len(g)
    <3>1. k \in Len(V) .. Len(h) /\ k \in 0 .. Len(h)
      BY <1>1, <1>2, <2>2
    <3>2. SubSeq(g, 1, k) = SubSeq(h, 1, k)
      BY <1>1, <3>1, UnderBegins
    <3>3. LeafOf(SubSeq(h, 1, k)) \in made
      BY <3>1 DEF Leafy, h
    <3>4. QED
      BY <3>2, <3>3
  <2>3. QED
    BY <2>1, <2>2
<1>4. QED
  BY <1>2, <1>3 DEF Leafy

\* More groups do no harm.
LEMMA LeafyMore ==
    ASSUME NEW made, NEW more, made \subseteq more, NEW g, NEW V
    PROVE  /\ Leafy(made, V, g) => Leafy(more, V, g)
           /\ Reach(made, V, g) => Reach(more, V, g)
BY DEF Leafy, Reach

-----------------------------------------------------------------------------
(***************************************************************************)
(* What a step makes of the record j of its launcher, in terms of fields.  *)
(***************************************************************************)
Rests(o, j) == j.level = o.level /\ j.root = o.root /\ j.cur = o.cur

Fails(o, j) == j.step = "clone" /\ j.rc = "fail" /\ j.todo = {} /\ Rests(o, j)

Looks(p, o, j) ==
    /\ j.step = "look" /\ j.todo = {} /\ j.due = {} /\ j.seen = {} /\ j.rc = o.rc /\ Rests(o, j)
    /\ j.ask = <<[at |-> o.cur, mask |-> Expected(p, o.level)]>>

Still == UNCHANGED <<tree, where, box, disturbed>>
Grows == UNCHANGED <<where, box, disturbed>>

\* The record of the launcher that takes a step; those of the others stay.
Takes(p, j) == j \in Job /\ job'[p] = j /\ \A q \in Launchers : q # p => job'[q] = job[q]

\* What each action of a launcher does, told by the record of its job:
\* first the ways to write it.
LEMMA TakesUpd ==
    ASSUME CgTypes, CgTypes', NEW p \in Launchers, NEW j, Upd(p, j)
    PROVE  Takes(p, j)
<1>1. job \in [Launchers -> Job] /\ job' \in [Launchers -> Job]
  BY DEF CgTypes, JobsOK
<1>2. job' = [job EXCEPT ![p] = j]
  BY DEF Upd
<1> HIDE DEF Upd
<1>3. job'[p] = j /\ \A q \in Launchers : q # p => job'[q] = job[q]
  BY <1>1, <1>2
<1>4. QED
  BY <1>1, <1>3 DEF Takes

\* A failure.
LEMMA FailsDoes ==
    ASSUME CgTypes, CgTypes', NEW p \in Launchers, Returns(p, "fail")
    PROVE  \E j : Takes(p, j) /\ Fails(job[p], j)
<1> DEFINE j == [job[p] EXCEPT !.step = "clone", !.rc = "fail", !.todo = {}]
<1>1. Takes(p, j)
  BY TakesUpd DEF Returns
<1>2. Fails(job[p], j)
  BY JobFacts DEF Fails, Rests, Job
<1>3. QED
  BY <1>1, <1>2

\* The start of the search for controllers.
LEMMA LooksDoes ==
    ASSUME CgTypes, CgTypes', NEW p \in Launchers, Ensures(p, job[p])
    PROVE  \E j : Takes(p, j) /\ Looks(p, job[p], j)
<1> DEFINE o == job[p]
           j == [o EXCEPT !.step = "look", !.todo = {}, !.due = {}, !.seen = {},
                          !.ask = <<[at |-> o.cur, mask |-> Expected(p, o.level)]>>]
<1>1. Takes(p, j)
  BY TakesUpd DEF Ensures
<1>2. o \in Job
  BY JobFacts
<1> HIDE DEF o
<1>3. Looks(p, o, j)
  BY <1>2 DEF Looks, Rests, Job
<1> HIDE DEF j
<1>4. QED
  BY <1>1, <1>3 DEF o

Lists(o, j) == j.due = o.due /\ j.seen = o.seen /\ j.todo = o.todo

\* Nothing but the step, and what the lemma says, changes.
Goes(o, j) == j.rc = o.rc /\ Lists(o, j)

\* NothingToSet and Begin.
LEMMA StartDoes ==
    ASSUME CgTypes, CgTypes', NEW p \in Launchers, NothingToSet(p) \/ Begin(p)
    PROVE  /\ job[p].step = "start" /\ Alive(p) /\ Still
           /\ \E j : /\ Takes(p, j)
                     /\ j.todo = job[p].todo \/ j.todo = {}
                     /\ j.level = job[p].level
                     /\ \/ Mask(p, 0) = {} /\ j.step = "clone" /\ j.rc = "ok"
                        \/ /\ Mask(p, 0) # {} /\ j.step = "climb" /\ Goes(job[p], j)
                           /\ j.cur = Stripped(IF RootPath = NoPath THEN where[p] ELSE RootPath)
                           /\ j.root = j.cur
<1>1. job[p] \in Job
  BY JobFacts
<1>2. CASE NothingToSet(p)
  <2> DEFINE j == [job[p] EXCEPT !.step = "clone", !.rc = "ok", !.todo = {}]
  <2>1. Takes(p, j)
    BY <1>2, TakesUpd DEF NothingToSet, Returns
  <2>2. j.level = job[p].level /\ j.step = "clone" /\ j.rc = "ok" /\ j.todo = {}
    BY <1>1 DEF Job
  <2> HIDE DEF j
  <2>3. QED
    BY <1>2, <2>1, <2>2 DEF NothingToSet, At, Still
<1>3. CASE Begin(p)
  <2> DEFINE g == Stripped(IF RootPath = NoPath THEN where[p] ELSE RootPath)
             j == [job[p] EXCEPT !.step = "climb", !.cur = g, !.root = g]
  <2>1. Takes(p, j)
    BY <1>3, TakesUpd DEF Begin
  <2> HIDE DEF g
  <2>2. j.level = job[p].level /\ j.step = "climb" /\ Goes(job[p], j) /\ j.cur = g /\ j.root = g
    BY <1>1 DEF Job, Goes, Lists
  <2> HIDE DEF j
  <2>3. j.todo = job[p].todo
    BY <2>2 DEF Goes, Lists
  <2>4. QED
    BY <1>3, <2>1, <2>2, <2>3 DEF Begin, At, Still, g
<1>4. QED
  BY <1>2, <1>3

\* Climb.
LEMMA ClimbDoes ==
    ASSUME CgTypes, CgTypes', NEW p \in Launchers, Climb(p)
    PROVE  /\ job[p].step = "climb" /\ Still
           /\ \E j : /\ Takes(p, j) /\ Goes(job[p], j) /\ j.level = job[p].level
                     /\ j.root = IF LeafOf(job[p].cur) \in Made THEN job[p].cur ELSE job[p].root
                     /\ IF LeafOf(job[p].cur) \in Made /\ job[p].cur # Top
                        THEN j.step = "climb" /\ j.cur = Parent(job[p].cur)
                        ELSE j.step = "rootleaf" /\ j.cur = j.root
<1> DEFINE g == job[p].cur
           leafy == LeafOf(g) \in Made
           root == IF leafy THEN g ELSE job[p].root
           cur == IF leafy /\ g # Top THEN Parent(g) ELSE root
           step == IF leafy /\ g # Top THEN "climb" ELSE "rootleaf"
           j == [job[p] EXCEPT !.root = root, !.cur = cur, !.step = step]
<1>1. Takes(p, j)
  BY TakesUpd DEF Climb
<1>2. /\ IF leafy /\ g # Top THEN step = "climb" /\ cur = Parent(g) ELSE step = "rootleaf" /\ cur = root
      /\ root = IF leafy THEN g ELSE job[p].root
  OBVIOUS
<1> HIDE DEF root, cur, step
<1>3. j.step = step /\ j.cur = cur /\ j.root = root /\ Goes(job[p], j) /\ j.level = job[p].level
  BY JobFacts DEF Job, Goes, Lists
<1> HIDE DEF j
<1>4. job[p].step = "climb" /\ Still
  BY DEF Climb, At, Still
<1>5. QED
  BY <1>1, <1>2, <1>3, <1>4

\* RootLeaf.
LEMMA RootLeafDoes ==
    ASSUME CgTypes, CgTypes', NEW p \in Launchers, RootLeaf(p)
    PROVE  /\ job[p].step = "rootleaf" /\ Grows
           /\ \E j : /\ Takes(p, j)
                     /\ \/ /\ job[p].cur \in Made /\ Make(LeafOf(job[p].cur))
                           /\ j.step = "open" /\ Goes(job[p], j) /\ Rests(job[p], j)
                        \/ job[p].cur \notin Made /\ UNCHANGED tree /\ Fails(job[p], j)
<1>1. job[p].step = "rootleaf" /\ Grows
  BY DEF RootLeaf, At, Grows
<1>2. CASE job[p].cur \in Made
  <2> DEFINE j == [job[p] EXCEPT !.step = "open"]
  <2>1. Takes(p, j) /\ Make(LeafOf(job[p].cur))
    BY <1>2, TakesUpd DEF RootLeaf
  <2>2. j.step = "open" /\ Goes(job[p], j) /\ Rests(job[p], j)
    BY JobFacts DEF Job, Goes, Lists, Rests
  <2> HIDE DEF j
  <2>3. QED
    BY <1>1, <1>2, <2>1, <2>2
<1>3. CASE job[p].cur \notin Made
  BY <1>1, <1>3, FailsDoes DEF RootLeaf
<1>4. QED
  BY <1>2, <1>3

\* OpenProcs.
LEMMA OpenDoes ==
    ASSUME CgTypes, CgTypes', NEW p \in Launchers, OpenProcs(p)
    PROVE  /\ job[p].step = "open" /\ Still
           /\ \E j : /\ Takes(p, j) /\ j.step = "read" /\ j.rc = job[p].rc /\ Rests(job[p], j)
                     /\ j.due = Members(job[p].cur) /\ j.seen = job[p].seen /\ j.todo = job[p].todo
<1> DEFINE j == [job[p] EXCEPT !.step = "read", !.due = Members(job[p].cur)]
<1>1. Takes(p, j)
  BY TakesUpd DEF OpenProcs
<1>2. /\ j.step = "read" /\ j.rc = job[p].rc /\ Rests(job[p], j)
      /\ j.due = Members(job[p].cur) /\ j.seen = job[p].seen /\ j.todo = job[p].todo
  BY JobFacts DEF Job, Rests
<1> HIDE DEF j
<1>3. QED
  BY <1>1, <1>2 DEF OpenProcs, At, Still

\* ReadProcs.
LEMMA ReadDoes ==
    ASSUME CgTypes, CgTypes', NEW p \in Launchers, ReadProcs(p)
    PROVE  /\ job[p].step = "read" /\ Still
           /\ \E j : /\ Takes(p, j) /\ j.step = "move" /\ j.rc = job[p].rc /\ Rests(job[p], j)
                     /\ j.due = job[p].due /\ j.todo = Members(job[p].cur) \ job[p].seen
                     /\ j.seen = job[p].seen \cup (Members(job[p].cur) \ job[p].seen)
<1> DEFINE new == Members(job[p].cur) \ job[p].seen
           j == [job[p] EXCEPT !.step = "move", !.todo = new, !.seen = @ \cup new]
<1>1. Takes(p, j)
  BY TakesUpd DEF ReadProcs
<1>2. /\ j.step = "move" /\ j.rc = job[p].rc /\ Rests(job[p], j)
      /\ j.due = job[p].due /\ j.todo = new /\ j.seen = job[p].seen \cup new
  BY JobFacts DEF Job, Rests
<1> HIDE DEF j
<1>3. QED
  BY <1>1, <1>2 DEF ReadProcs, At, Still

\* MoveProc.
LEMMA MoveDoes ==
    ASSUME CgTypes, CgTypes', NEW p \in Launchers, MoveProc(p)
    PROVE  /\ job[p].step = "move" /\ UNCHANGED <<tree, box, disturbed>>
           /\ \E j, q : /\ Takes(p, j) /\ q \in job[p].todo
                        /\ \/ where[q] = Gone /\ UNCHANGED where /\ Fails(job[p], j)
                           \/ /\ where[q] # Gone
                              /\ where' = [where EXCEPT ![q] = LeafOf(job[p].cur)]
                              /\ j.rc = job[p].rc /\ Rests(job[p], j)
                              /\ j.due = job[p].due /\ j.seen = job[p].seen /\ j.todo = job[p].todo \ {q}
                              /\ j.step = IF job[p].todo = {q} THEN "read" ELSE "move"
<1>1. job[p].step = "move" /\ UNCHANGED <<tree, box, disturbed>>
  BY DEF MoveProc, At
<1>2. PICK q \in job[p].todo :
         IF where[q] = Gone
         THEN Returns(p, "fail") /\ UNCHANGED where
         ELSE /\ where' = [where EXCEPT ![q] = LeafOf(job[p].cur)]
              /\ Upd(p, [job[p] EXCEPT !.todo = @ \ {q},
                                       !.step = IF job[p].todo = {q} THEN "read" ELSE "move"])
  BY DEF MoveProc
<1>3. CASE where[q] = Gone
  BY <1>1, <1>2, <1>3, FailsDoes
<1>4. CASE where[q] # Gone
  <2> DEFINE step == IF job[p].todo = {q} THEN "read" ELSE "move"
             j == [job[p] EXCEPT !.todo = @ \ {q}, !.step = step]
  <2>1. Takes(p, j) /\ where' = [where EXCEPT ![q] = LeafOf(job[p].cur)]
    BY <1>2, <1>4, TakesUpd
  <2> HIDE DEF step
  <2>2. /\ j.rc = job[p].rc /\ Rests(job[p], j) /\ j.step = step
        /\ j.due = job[p].due /\ j.seen = job[p].seen /\ j.todo = job[p].todo \ {q}
    BY JobFacts DEF Job, Rests
  <2> HIDE DEF j
  <2>3. QED
    BY <1>1, <1>4, <2>1, <2>2 DEF step
<1>5. QED
  BY <1>3, <1>4

\* AllMoved.
LEMMA AllMovedDoes ==
    ASSUME CgTypes, CgTypes', NEW p \in Launchers, AllMoved(p)
    PROVE  /\ job[p].step = "read" /\ Still
           /\ Members(job[p].cur) \cap job[p].due \subseteq job[p].seen
           /\ \E j : Takes(p, j) /\ Looks(p, job[p], j)
BY LooksDoes DEF AllMoved, At, Still

\* The parent is asked for what is missing.
Deeper(p) == Append(job[p].ask, [at |-> Parent(Asked(p).at), mask |-> Asked(p).mask \ Avail(Asked(p).at)])

\* Look.
LEMMA LookDoes ==
    ASSUME CgTypes, CgTypes', NEW p \in Launchers, Look(p)
    PROVE  /\ job[p].step = "look" /\ Still
           /\ \E j : /\ Takes(p, j)
                     /\ \/ /\ Asked(p).mask \ Avail(Asked(p).at) = {}
                           /\ j.step = "grant" /\ j.ask = job[p].ask /\ Goes(job[p], j) /\ Rests(job[p], j)
                        \/ /\ Asked(p).mask \ Avail(Asked(p).at) # {} /\ Asked(p).at # Top
                           /\ j.step = "look" /\ j.ask = Deeper(p) /\ Goes(job[p], j) /\ Rests(job[p], j)
                        \/ /\ Asked(p).mask \ Avail(Asked(p).at) # {} /\ Asked(p).at = Top
                           /\ Fails(job[p], j)
<1> DEFINE missing == Asked(p).mask \ Avail(Asked(p).at)
<1>1. job[p].step = "look" /\ Still
  BY DEF Look, At, Still
<1>2. CASE missing = {}
  <2> DEFINE j == [job[p] EXCEPT !.step = "grant"]
  <2>1. Takes(p, j)
    BY <1>2, TakesUpd DEF Look
  <2>2. j.step = "grant" /\ j.ask = job[p].ask /\ Goes(job[p], j) /\ Rests(job[p], j)
    BY JobFacts DEF Job, Goes, Lists, Rests
  <2> HIDE DEF j
  <2>3. QED
    BY <1>1, <1>2, <2>1, <2>2
<1>3. CASE missing # {} /\ Asked(p).at = Top
  <2>1. Returns(p, "fail")
    BY <1>3 DEF Look
  <2>2. QED
    BY <1>1, <1>3, <2>1, FailsDoes
<1>4. CASE missing # {} /\ Asked(p).at # Top
  <2> DEFINE j == [job[p] EXCEPT !.ask = Deeper(p)]
  <2>1. Takes(p, j)
    BY <1>4, TakesUpd DEF Look, Deeper
  <2>2. j.step = "look" /\ j.ask = Deeper(p) /\ Goes(job[p], j) /\ Rests(job[p], j)
    BY <1>1, JobFacts DEF Job, Goes, Lists, Rests
  <2> HIDE DEF j
  <2>3. QED
    BY <1>1, <1>4, <2>1, <2>2
<1>5. QED
  BY <1>2, <1>3, <1>4

Front(p) == SubSeq(job[p].ask, 1, Len(job[p].ask) - 1)

\* Grant.
LEMMA GrantDoes ==
    ASSUME CgTypes, CgTypes', NEW p \in Launchers, Grant(p)
    PROVE  /\ job[p].step = "grant" /\ Grows
           /\ \E j : /\ Takes(p, j)
                     /\ \/ /\ MayEnable(Asked(p).at, Asked(p).mask)
                           /\ tree' = [tree EXCEPT ![Asked(p).at].sub = @ \cup Asked(p).mask]
                           /\ j.ask = Front(p) /\ Goes(job[p], j) /\ j.root = job[p].root /\ j.cur = job[p].cur
                           /\ \/ Front(p) # << >> /\ j.step = "grant" /\ j.level = job[p].level
                              \/ /\ Front(p) = << >> /\ job[p].level = Len(Chain[p])
                                 /\ j.step = "enter" /\ j.level = job[p].level
                              \/ /\ Front(p) = << >> /\ job[p].level # Len(Chain[p])
                                 /\ j.step = "mknode" /\ j.level = job[p].level + 1
                        \/ /\ ~MayEnable(Asked(p).at, Asked(p).mask)
                           /\ UNCHANGED tree /\ Fails(job[p], j)
<1> DEFINE o == job[p]
           k == [o EXCEPT !.ask = Front(p)]
           last == [k EXCEPT !.step = "enter"]
           next == [k EXCEPT !.step = "mknode", !.level = @ + 1]
<1>1. o.step = "grant" /\ Grows /\ o \in Job
  BY JobFacts DEF Grant, At, Grows
<1>2. CASE MayEnable(Asked(p).at, Asked(p).mask)
  <2>1. /\ tree' = [tree EXCEPT ![Asked(p).at].sub = @ \cup Asked(p).mask]
        /\ IF Front(p) = << >> THEN Descends(p, k) ELSE Upd(p, k)
    <3>1. k.ask = Front(p)
      BY <1>1 DEF Job
    <3>2. QED
      BY <1>2, <3>1 DEF Grant, Front
  <2>2. Upd(p, k) => Takes(p, k)
    BY TakesUpd
  <2>3. Upd(p, last) => Takes(p, last)
    BY TakesUpd
  <2>4. Upd(p, next) => Takes(p, next)
    BY TakesUpd
  <2> HIDE DEF o
  <2>5. /\ k.step = "grant" /\ k.level = o.level /\ k.ask = Front(p) /\ Goes(o, k)
        /\ k.root = o.root /\ k.cur = o.cur
    BY <1>1 DEF Job, Goes, Lists
  <2>6. /\ last.step = "enter" /\ last.level = o.level /\ last.ask = Front(p) /\ Goes(o, last)
        /\ last.root = o.root /\ last.cur = o.cur
    BY <1>1 DEF Job, Goes, Lists
  <2>7. /\ next.step = "mknode" /\ next.level = o.level + 1 /\ next.ask = Front(p) /\ Goes(o, next)
        /\ next.root = o.root /\ next.cur = o.cur
    <3> DEFINE up == k.level + 1
               n == [k EXCEPT !.step = "mknode", !.level = up]
    <3>1. n = next /\ up = o.level + 1
      BY <2>5
    <3> HIDE DEF up
    <3>2. /\ n.step = "mknode" /\ n.level = up /\ n.ask = Front(p) /\ Goes(o, n)
          /\ n.root = o.root /\ n.cur = o.cur
      BY <1>1 DEF Job, Goes, Lists
    <3> HIDE DEF n, next
    <3>3. QED
      BY <3>1, <3>2
  <2>8. CASE Front(p) # << >>
    <3>1. Takes(p, k)
      BY <2>1, <2>2, <2>8
    <3> HIDE DEF k
    <3>2. QED
      BY <1>1, <1>2, <2>1, <2>5, <2>8, <3>1 DEF o
  <2>9. CASE Front(p) = << >> /\ o.level = Len(Chain[p])
    <3>1. Takes(p, last)
      <4>1. Descends(p, k)
        BY <2>1, <2>9
      <4>2. k.level = Len(Chain[p])
        BY <2>5, <2>9
      <4>3. Upd(p, last)
        BY <4>1, <4>2 DEF Descends
      <4>4. QED
        BY <4>3, <2>3
    <3> HIDE DEF last
    <3>2. QED
      BY <1>1, <1>2, <2>1, <2>6, <2>9, <3>1 DEF o
  <2>10. CASE Front(p) = << >> /\ o.level # Len(Chain[p])
    <3>1. Takes(p, next)
      <4>1. Descends(p, k)
        BY <2>1, <2>10
      <4>2. k.level # Len(Chain[p])
        BY <2>5, <2>10
      <4>3. Upd(p, next)
        BY <4>1, <4>2 DEF Descends
      <4>4. QED
        BY <4>3, <2>4
    <3> HIDE DEF next
    <3>2. QED
      BY <1>1, <1>2, <2>1, <2>7, <2>10, <3>1 DEF o
  <2>11. QED
    BY <2>8, <2>9, <2>10
<1>3. CASE ~MayEnable(Asked(p).at, Asked(p).mask)
  <2>1. Returns(p, "fail") /\ UNCHANGED tree
    BY <1>3 DEF Grant
  <2>2. QED
    BY <1>1, <1>3, <2>1, FailsDoes
<1>4. QED
  BY <1>2, <1>3

\* MakeNode and MakeLeaf.
LEMMA MakeDoes ==
    ASSUME CgTypes, CgTypes', NEW p \in Launchers, MakeNode(p) \/ MakeLeaf(p)
    PROVE  /\ Grows
           /\ \E j : /\ Takes(p, j) /\ Goes(job[p], j) /\ j.level = job[p].level /\ j.root = job[p].root
                     /\ \/ /\ job[p].step = "mknode" /\ j.step = "mkleaf"
                           /\ Make(j.cur) /\ j.cur = Append(job[p].cur, CgName[Own(p)])
                        \/ /\ job[p].step = "mkleaf" /\ j.step = "conf"
                           /\ Make(LeafOf(j.cur)) /\ j.cur = job[p].cur
<1>1. job[p] \in Job
  BY JobFacts
<1>2. CASE MakeNode(p)
  <2> DEFINE g == Append(job[p].cur, CgName[Own(p)])
             j == [job[p] EXCEPT !.step = "mkleaf", !.cur = g]
  <2>1. Takes(p, j) /\ Make(g)
    BY <1>2, TakesUpd DEF MakeNode
  <2> HIDE DEF g
  <2>2. j.step = "mkleaf" /\ j.cur = g /\ Goes(job[p], j) /\ j.level = job[p].level /\ j.root = job[p].root
    BY <1>1 DEF Job, Goes, Lists
  <2> HIDE DEF j
  <2>3. QED
    BY <1>2, <2>1, <2>2 DEF MakeNode, At, Grows, g
<1>3. CASE MakeLeaf(p)
  <2> DEFINE j == [job[p] EXCEPT !.step = "conf"]
  <2>1. Takes(p, j) /\ Make(LeafOf(job[p].cur))
    BY <1>3, TakesUpd DEF MakeLeaf
  <2>2. /\ j.step = "conf" /\ j.cur = job[p].cur /\ Goes(job[p], j)
        /\ j.level = job[p].level /\ j.root = job[p].root
    BY <1>1 DEF Job, Goes, Lists
  <2> HIDE DEF j
  <2>3. QED
    BY <1>3, <2>1, <2>2 DEF MakeLeaf, At, Grows
<1>4. QED
  BY <1>2, <1>3

\* Configure.
LEMMA ConfigureDoes ==
    ASSUME CgTypes, CgTypes', NEW p \in Launchers, Configure(p)
    PROVE  /\ job[p].step = "conf" /\ Grows
           /\ Made' = Made /\ \A g \in Made : tree'[g].sub = tree[g].sub
           /\ \E j : /\ Takes(p, j)
                     /\ \/ Need[Own(p)] \subseteq Avail(job[p].cur) /\ Looks(p, job[p], j)
                        \/ ~(Need[Own(p)] \subseteq Avail(job[p].cur)) /\ Fails(job[p], j)
<1> DEFINE g == job[p].cur
           set == Need[Own(p)] \cap Avail(g)
           limit == [c \in Controllers |-> IF c \in set THEN Own(p) ELSE tree[g].limit[c]]
           new == [tree[g] EXCEPT !.limit = limit]
<1>1. tree' = [tree EXCEPT ![g] = new] /\ job[p].step = "conf" /\ Grows
  BY DEF Configure, At, Grows
<1>2. g \in Made /\ tree[g] \in Group /\ tree \in [Made -> Group]
  BY <1>1, JobFacts DEF JobOK, CgTypes, TreeOK
<1>3. new.sub = tree[g].sub
  BY <1>2 DEF Group
<1> HIDE DEF new, limit, g
<1>4. Made' = Made /\ \A h \in Made : tree'[h] = IF h = g THEN new ELSE tree[h]
  BY <1>1, <1>2 DEF Made
<1>5. \A h \in Made : tree'[h].sub = tree[h].sub
  BY <1>3, <1>4
<1>6. IF set = Need[Own(p)] THEN Ensures(p, job[p]) ELSE Returns(p, "fail")
  BY DEF Configure, g
<1>7. CASE Need[Own(p)] \subseteq Avail(g)
  <2>1. Ensures(p, job[p])
    BY <1>6, <1>7
  <2>2. QED
    BY <1>1, <1>4, <1>5, <1>7, <2>1, LooksDoes DEF g
<1>8. CASE ~(Need[Own(p)] \subseteq Avail(g))
  <2>1. Returns(p, "fail")
    BY <1>6, <1>8
  <2>2. QED
    BY <1>1, <1>4, <1>5, <1>8, <2>1, FailsDoes DEF g
<1>9. QED
  BY <1>7, <1>8

\* EnterLeaf and Clone.
LEMMA EndDoes ==
    ASSUME CgTypes, CgTypes', NEW p \in Launchers, EnterLeaf(p) \/ Clone(p)
    PROVE  /\ UNCHANGED <<tree, disturbed>>
           /\ \E j : /\ Takes(p, j) /\ Rests(job[p], j)
                     /\ \/ /\ job[p].step = "enter" /\ j.step = "clone" /\ j.rc = "ok" /\ j.todo = {}
                           /\ where' = [where EXCEPT ![p] = LeafOf(job[p].cur)] /\ UNCHANGED box
                        \/ /\ job[p].step = "clone" /\ j.step = "done" /\ Goes(job[p], j)
                           /\ box' = [box EXCEPT ![p] = where[p]] /\ UNCHANGED where
<1>1. job[p] \in Job
  BY JobFacts
<1>2. CASE EnterLeaf(p)
  <2> DEFINE j == [job[p] EXCEPT !.step = "clone", !.rc = "ok", !.todo = {}]
  <2>1. Takes(p, j)
    BY <1>2, TakesUpd DEF EnterLeaf, Returns
  <2>2. Rests(job[p], j) /\ j.step = "clone" /\ j.rc = "ok" /\ j.todo = {}
    BY <1>1 DEF Job, Rests
  <2> HIDE DEF j
  <2>3. QED
    BY <1>2, <2>1, <2>2 DEF EnterLeaf, At
<1>3. CASE Clone(p)
  <2> DEFINE j == [job[p] EXCEPT !.step = "done"]
  <2>1. Takes(p, j)
    BY <1>3, TakesUpd DEF Clone
  <2>2. Rests(job[p], j) /\ j.step = "done" /\ Goes(job[p], j)
    BY <1>1 DEF Job, Rests, Goes, Lists
  <2> HIDE DEF j
  <2>3. QED
    BY <1>3, <2>1, <2>2 DEF Clone, At
<1>4. QED
  BY <1>2, <1>3

-----------------------------------------------------------------------------
\* What any step of a launcher does.
Acts(p, j) ==
    /\ Takes(p, j)
    /\ job[p].step # "done" /\ j.step # "start"
    /\ job[p].step = "start" => Alive(p)
    /\ \/ UNCHANGED box /\ j.step # "done"
       \/ box' = [box EXCEPT ![p] = where[p]] /\ job[p].step = "clone" /\ j.step = "done"
    /\ \/ j.todo = {}
       \/ j.todo = job[p].todo /\ job[p].step # "move"
       \/ j.todo \subseteq job[p].todo /\ j.step = "move" /\ job[p].step = "move"
       \/ j.todo \subseteq Members(job[p].cur) /\ j.step = "move" /\ job[p].step = "read"
    /\ j.step \in {"move", "done"} => Rests(job[p], j) /\ j.rc = job[p].rc
    /\ \/ j.step # "clone" \/ j.rc = "fail" \/ Mask(p, 0) = {}
       \/ /\ job[p].step = "enter" /\ Rests(job[p], j)
          /\ where' = [where EXCEPT ![p] = LeafOf(job[p].cur)]
    /\ UNCHANGED disturbed
    /\ \/ UNCHANGED where
       \/ /\ job[p].step = "move"
          /\ \E q \in job[p].todo : where[q] # Gone /\ where' = [where EXCEPT ![q] = LeafOf(job[p].cur)]
       \/ job[p].step = "enter" /\ where' = [where EXCEPT ![p] = LeafOf(job[p].cur)]

\* Each action of a launcher, as far as where it and others are is
\* concerned.
LEMMA LaunchActs ==
    ASSUME CgTypes, CgTypes', NEW p \in Launchers, Launch(p)
    PROVE  \E j : Acts(p, j)
<1>1. CASE NothingToSet(p) \/ Begin(p)
  BY <1>1, StartDoes DEF Acts, Still, Goes, Lists
<1>2. CASE Climb(p)
  BY <1>2, ClimbDoes DEF Acts, Still, Goes, Lists
<1>3. CASE RootLeaf(p)
  BY <1>3, RootLeafDoes DEF Acts, Grows, Goes, Lists, Fails
<1>4. CASE OpenProcs(p)
  BY <1>4, OpenDoes DEF Acts, Still
<1>5. CASE ReadProcs(p)
  BY <1>5, ReadDoes DEF Acts, Still
<1>6. CASE MoveProc(p)
  <2>1. PICK j, q :
           /\ Takes(p, j) /\ q \in job[p].todo
           /\ \/ where[q] = Gone /\ UNCHANGED where /\ Fails(job[p], j)
              \/ /\ where[q] # Gone
                 /\ where' = [where EXCEPT ![q] = LeafOf(job[p].cur)]
                 /\ j.rc = job[p].rc /\ Rests(job[p], j)
                 /\ j.due = job[p].due /\ j.seen = job[p].seen /\ j.todo = job[p].todo \ {q}
                 /\ j.step = IF job[p].todo = {q} THEN "read" ELSE "move"
    BY <1>6, MoveDoes
  <2>2. job[p].step = "move" /\ UNCHANGED <<tree, box, disturbed>>
    BY <1>6, MoveDoes
  <2>3. CASE where[q] = Gone
    BY <2>1, <2>2, <2>3 DEF Acts, Fails
  <2>4. CASE where[q] # Gone
    <3>1. j.step = "read" => j.todo = {}
      BY <2>1, <2>4
    <3>2. j.step \in {"read", "move"} /\ j.todo \subseteq job[p].todo
      BY <2>1, <2>4
    <3>3. QED
      BY <2>1, <2>2, <2>4, <3>1, <3>2 DEF Acts
  <2>5. QED
    BY <2>3, <2>4
<1>7. CASE AllMoved(p)
  BY <1>7, AllMovedDoes DEF Acts, Still, Looks
<1>8. CASE Look(p)
  BY <1>8, LookDoes DEF Acts, Still, Goes, Lists, Fails
<1>9. CASE Grant(p)
  BY <1>9, GrantDoes DEF Acts, Grows, Goes, Lists, Fails
<1>10. CASE MakeNode(p) \/ MakeLeaf(p)
  BY <1>10, MakeDoes DEF Acts, Grows, Goes, Lists
<1>11. CASE Configure(p)
  BY <1>11, ConfigureDoes DEF Acts, Grows, Looks, Fails
<1>12. CASE EnterLeaf(p) \/ Clone(p)
  BY <1>12, EndDoes DEF Acts, Goes, Lists
<1>13. QED
  BY <1>1, <1>2, <1>3, <1>4, <1>5, <1>6, <1>7, <1>8, <1>9, <1>10, <1>11, <1>12 DEF Launch

\* A leaf is a place to live.
LEMMA LeafLives ==
    ASSUME NEW g \in Path
    PROVE  LeafOf(g) \notin {Unborn, Gone}
BY LeafFacts, CgroupsAssumption

\* A launcher's step lets nobody be born or end.
LEMMA ActsBirth ==
    ASSUME CgTypes, CgTypes', Steady, BirthInv, NEW p \in Launchers, NEW j, Acts(p, j)
    PROVE  /\ \A q \in Procs : /\ where'[q] = Unborn <=> where[q] = Unborn
                               /\ where'[q] = Gone <=> where[q] = Gone
           /\ \A q \in Launchers : job[q].step = "done" => box'[q] = box[q]
           /\ BirthInv'
<1> DEFINE leaf == LeafOf(job[p].cur)
<1>1. job[p] \in Job /\ where \in [Procs -> Made \cup {Unborn, Gone}] /\ Launchers \subseteq Procs
      /\ where' \in [Procs -> Made' \cup {Unborn, Gone}] /\ box' \in [Launchers -> Made' \cup {Unborn, Gone}]
      /\ box \in [Launchers -> Made \cup {Unborn, Gone}]
  BY JobFacts DEF CgTypes, Procs
<1>2. leaf \notin {Unborn, Gone}
  BY <1>1, LeafLives DEF Job
<1>3. BirthAs(p)
  BY DEF BirthInv
<1> HIDE DEF leaf
<1>4. ASSUME NEW q \in Procs
      PROVE  (where'[q] = Unborn <=> where[q] = Unborn) /\ (where'[q] = Gone <=> where[q] = Gone)
  <2>1. CASE UNCHANGED where
    BY <2>1
  <2>2. CASE job[p].step = "move" /\ \E r \in job[p].todo : where[r] # Gone /\ where' = [where EXCEPT ![r] = leaf]
    <3>1. PICK r \in job[p].todo : where[r] # Gone /\ where' = [where EXCEPT ![r] = leaf]
      BY <2>2
    <3>2. where[r] # Unborn
      BY <1>3 DEF BirthAs
    <3>3. where'[q] = IF q = r THEN leaf ELSE where[q]
      BY <1>1, <3>1
    <3>4. QED
      BY <1>2, <3>1, <3>2, <3>3
  <2>3. CASE job[p].step = "enter" /\ where' = [where EXCEPT ![p] = leaf]
    <3>1. where[p] # Unborn /\ where[p] # Gone
      BY <1>3, <2>3 DEF BirthAs
    <3>2. where'[q] = IF q = p THEN leaf ELSE where[q]
      BY <1>1, <2>3
    <3>3. QED
      BY <1>2, <3>1, <3>2
  <2>4. QED
    BY <2>1, <2>2, <2>3 DEF Acts, leaf
<1>5. \A q \in Launchers : job[q].step = "done" => box'[q] = box[q]
  BY <1>1 DEF Acts
<1>6. job'[p] = j /\ j \in Job /\ \A q \in Launchers : q # p => job'[q] = job[q]
  BY DEF Acts, Takes
<1>7. ASSUME NEW q \in Launchers PROVE BirthAs(q)'
  <2>1. BirthAs(q)
    BY DEF BirthInv
  <2>2. job[q].step = "done" => job'[q].step = "done"
    BY <1>6 DEF Acts
  <2>3. job'[q].step # "start" => where'[q] # Unborn
    <3>1. job'[q].step # "start" => where[q] # Unborn
      BY <1>6, <2>1 DEF Acts, BirthAs, Alive
    <3>2. QED
      BY <1>1, <1>4, <3>1
  <2>4. where'[q] = Gone => job'[q].step = "done"
    BY <1>1, <1>4, <2>1, <2>2 DEF BirthAs
  <2>5. where'[q] # Unborn => /\ Start[q] # Unborn
                              /\ Start[q] \in Launchers => job'[Start[q]].step = "done"
    <3>1. Start[q] \in Launchers /\ job[Start[q]].step = "done" => job'[Start[q]].step = "done"
      BY <1>6 DEF Acts
    <3>2. QED
      BY <1>1, <1>4, <2>1, <3>1 DEF BirthAs
  <2>6. job'[q].step = "done" => box'[q] \in Made'
    <3>1. CASE job[q].step = "done"
      BY <1>5, <2>1, <3>1 DEF BirthAs, Steady
    <3>2. CASE job[q].step # "done"
      <4>1. ASSUME job'[q].step = "done" PROVE q = p /\ box'[p] = where[p] /\ job[p].step = "clone"
        BY <1>1, <1>6, <3>2, <4>1 DEF Acts
      <4>2. job[p].step = "clone" => where[p] # Unborn /\ where[p] # Gone
        BY <1>3 DEF BirthAs
      <4>3. QED
        BY <1>1, <4>1, <4>2
    <3>3. QED
      BY <3>1, <3>2
  <2>7. (job'[q].step # "move" => job'[q].todo = {}) /\ \A r \in job'[q].todo : where'[r] # Unborn
    <3>1. CASE q # p
      <4>1. job'[q] = job[q] /\ job[q].todo \subseteq Procs
        BY <1>6, <3>1, JobFacts DEF Job
      <4>2. QED
        BY <1>4, <2>1, <4>1 DEF BirthAs
    <3>2. CASE q = p
      <4>1. job'[q] = j /\ j.todo \subseteq Procs /\ job[p].todo \subseteq Procs
        BY <1>1, <1>6, <3>2 DEF Job
      <4>2. \A r \in Members(job[p].cur) : where[r] # Unborn
        BY <1>1, CgroupsAssumption DEF Members, Job
      <4>3. j.step # "move" => j.todo = {}
        BY <1>3 DEF Acts, BirthAs
      <4>4. \A r \in j.todo : where[r] # Unborn
        BY <1>3, <4>2 DEF Acts, BirthAs
      <4>5. QED
        BY <1>4, <4>1, <4>3, <4>4
    <3>3. QED
      BY <3>1, <3>2
  <2> DEFINE o == job'[q]
  <2>8. /\ o.step # "start" => where'[q] # Unborn
        /\ where'[q] = Gone => o.step = "done"
        /\ where'[q] # Unborn => /\ Start[q] # Unborn
                                 /\ Start[q] \in Launchers => job'[Start[q]].step = "done"
        /\ o.step = "done" => box'[q] \in Made'
        /\ o.step # "move" => o.todo = {}
        /\ \A r \in o.todo : where'[r] # Unborn
    BY <2>3, <2>4, <2>5, <2>6, <2>7
  <2>9. QED
    BY <2>8 DEF BirthAs
<1>8. QED
  BY <1>4, <1>5, <1>7 DEF BirthInv

\* The rest of the system starts launchers where a container was cloned, and
\* ends those whose container has.
LEMMA RestBirth ==
    ASSUME CgTypes, CgTypes', BirthInv, \/ \E p \in Launchers : Spawn(p)
                                        \/ \E q \in Procs : Fork(q) \/ End(q)
    PROVE  /\ UNCHANGED <<tree, job, box>>
           /\ \/ \E p \in Launchers : /\ where[p] = Unborn /\ Start[p] \in Launchers
                                      /\ job[Start[p]].step = "done" /\ job[p].step = "start"
                                      /\ where' = [where EXCEPT ![p] = box[Start[p]]]
              \/ \E q \in Others, r \in Procs :
                                      /\ where[q] = Unborn /\ Alive(r)
                                      /\ where' = [where EXCEPT ![q] = where[r]]
              \/ \E q \in Procs : /\ q \in Launchers => job[q].step = "done"
                                  /\ Alive(q) /\ where' = [where EXCEPT ![q] = Gone]
           /\ BirthInv'
<1>1. UNCHANGED <<tree, job, box>>
  BY DEF Spawn, Fork, End, Born
<1>2. \/ \E p \in Launchers : /\ where[p] = Unborn /\ Start[p] \in Launchers
                              /\ job[Start[p]].step = "done" /\ job[p].step = "start"
                              /\ where' = [where EXCEPT ![p] = box[Start[p]]]
      \/ \E q \in Others, r \in Procs :
                              /\ where[q] = Unborn /\ Alive(r)
                              /\ where' = [where EXCEPT ![q] = where[r]]
      \/ \E q \in Procs : /\ q \in Launchers => job[q].step = "done"
                          /\ Alive(q) /\ where' = [where EXCEPT ![q] = Gone]
  BY DEF Spawn, Fork, End, Born, At
<1>3. /\ where \in [Procs -> Made \cup {Unborn, Gone}] /\ Launchers \subseteq Procs
      /\ Made \subseteq Path
  BY DEF CgTypes, TreeOK, Procs
<1>4. Made' = Made
  BY <1>1 DEF Made
<1>5. ASSUME NEW q \in Procs PROVE where[q] # Unborn => where'[q] # Unborn
  <2>1. Unborn # Gone
    BY CgroupsAssumption
  <2>2. QED
    BY <1>2, <1>3, <2>1 DEF Procs
<1>6. ASSUME NEW q \in Launchers PROVE BirthAs(q)'
  <2>1. BirthAs(q)
    BY DEF BirthInv
  <2>2. where'[q] = Gone => job[q].step = "done"
    <3>1. CASE where'[q] = where[q]
      BY <2>1, <3>1 DEF BirthAs
    <3>2. CASE where'[q] # where[q]
      <4>1. CASE \E p \in Launchers : /\ where[p] = Unborn /\ Start[p] \in Launchers
                              /\ job[Start[p]].step = "done" /\ job[p].step = "start"
                              /\ where' = [where EXCEPT ![p] = box[Start[p]]]
        <5>1. PICK p \in Launchers : /\ Start[p] \in Launchers /\ job[Start[p]].step = "done"
                                     /\ where' = [where EXCEPT ![p] = box[Start[p]]]
          BY <4>1
        <5>2. box[Start[p]] \in Path
          BY <1>3, <5>1 DEF BirthInv, BirthAs
        <5>3. where'[q] # Gone
          BY <1>3, <3>2, <5>1, <5>2, CgroupsAssumption
        <5>4. QED
          BY <5>3
      <4>2. CASE \E s \in Others, r \in Procs :
                              /\ where[s] = Unborn /\ Alive(r)
                              /\ where' = [where EXCEPT ![s] = where[r]]
        BY <1>3, <3>2, <4>2 DEF Alive
      <4>3. CASE \E s \in Procs : /\ s \in Launchers => job[s].step = "done"
                                  /\ Alive(s) /\ where' = [where EXCEPT ![s] = Gone]
        BY <1>3, <3>2, <4>3
      <4>4. QED
        BY <1>2, <4>1, <4>2, <4>3
    <3>3. QED
      BY <3>1, <3>2
  <2>3. where'[q] # Unborn => /\ Start[q] # Unborn
                              /\ Start[q] \in Launchers => job[Start[q]].step = "done"
    <3>1. CASE where[q] # Unborn
      BY <2>1, <3>1 DEF BirthAs
    <3>2. CASE where[q] = Unborn /\ where'[q] # Unborn
      <4>1. q \notin Others
        BY CgroupsAssumption
      <4>2. Start[q] \in Launchers /\ job[Start[q]].step = "done"
        BY <1>2, <1>3, <3>2, <4>1 DEF Procs, Alive
      <4>3. Start[q] # Unborn
        BY <4>2, CgroupsAssumption
      <4>4. QED
        BY <4>2, <4>3
    <3>3. QED
      BY <3>1, <3>2
  <2>4. \A r \in job[q].todo : where'[r] # Unborn
    BY <1>5, <2>1, JobFacts DEF BirthAs, Job
  <2>5. job[q].step # "start" => where'[q] # Unborn
    BY <1>3, <1>5, <2>1 DEF BirthAs
  <2>6. QED
    BY <1>1, <1>4, <2>1, <2>2, <2>3, <2>4, <2>5 DEF BirthAs
<1>7. QED
  BY <1>1, <1>2, <1>6 DEF BirthInv

\* Who is born by whom holds at first,
LEMMA BirthInit == Init => BirthInv
<1> SUFFICES ASSUME Init, NEW p \in Launchers PROVE BirthAs(p)
  BY DEF BirthInv
<1>1. job[p].step = "start" /\ job[p].todo = {} /\ where[p] = IF Start[p] \in Launchers THEN Unborn ELSE Start[p]
  BY DEF Init, Procs
<1>2. where[p] # Gone /\ (where[p] # Unborn => Start[p] # Unborn /\ Start[p] \notin Launchers)
  BY <1>1, CgroupsAssumption DEF Procs
<1>3. QED
  BY <1>1, <1>2 DEF BirthAs

\* and through any step.
LEMMA BirthStep == CgTypes /\ CgTypes' /\ BirthInv /\ [Next]_vars => BirthInv'
<1> SUFFICES ASSUME CgTypes, CgTypes', BirthInv, [Next]_vars PROVE BirthInv'
  OBVIOUS
<1>1. Steady
  BY SteadyStep
<1>2. ASSUME NEW p \in Launchers, Launch(p) PROVE BirthInv'
  BY <1>1, <1>2, LaunchActs, ActsBirth
<1>3. CASE UNCHANGED vars
  BY <1>3 DEF vars, BirthInv, BirthAs, Made
<1>4. QED
  BY <1>2, <1>3, RestBirth DEF Next

\* Where a launcher began is settled once it lives.
BoxesKept == \A q \in Launchers : job[q].step = "done" => box'[q] = box[q]

\* Where a launcher began, and so its unit, does not change once it is
\* born.
LEMMA HomesStay ==
    ASSUME BirthInv, BoxesKept, NEW p \in Launchers, where[p] # Unborn
    PROVE  Began(p)' = Began(p) /\ Homes(p)' = Homes(p)
<1>1. Start[p] \in Launchers => job[Start[p]].step = "done"
  BY DEF BirthInv, BirthAs
<1>2. Began(p)' = Began(p)
  BY <1>1 DEF Began, BoxesKept
<1>3. QED
  BY <1>2 DEF Homes

\* More groups do no harm to the search.
LEMMA HuntMore ==
    ASSUME NEW made, NEW more, made \subseteq more, NEW units, NEW p, NEW j, HuntAs(made, units, p, j)
    PROVE  HuntAs(more, units, p, j)
BY LeafyMore DEF HuntAs

\* A launcher that stays at its group and root.
LEMMA HuntSame ==
    ASSUME NEW made, NEW more, made \subseteq more, NEW units, NEW p, NEW o, NEW j, HuntAs(made, units, p, o),
           Rests(o, j), o.step \notin {"start", "climb"},
           j.step \in {"clone", "done"} \/ o.step \notin {"start", "clone", "done"},
           j.step \notin {"climb", "mkleaf"},
           j.step \in {"open", "read", "move", "look", "grant", "mknode", "conf", "enter"} =>
               o.step \in {"open", "read", "move", "look", "grant", "mknode", "conf", "enter"}
    PROVE  HuntAs(more, units, p, j)
BY LeafyMore DEF HuntAs, Rests

\* A home is a unit.
LEMMA HomeIsUnit ==
    ASSUME NEW p, NEW V \in Homes(p)
    PROVE  V \in Units /\ V \in Path
BY UnitType DEF Homes

\* The search through a step up the tree,
LEMMA HuntClimb ==
    ASSUME CgTypes, CgTypes', NoneBeside, NEW p \in Launchers, Climb(p),
           HuntAs(Made, Homes(p), p, job[p])
    PROVE  HuntAs(Made', Homes(p), p, job'[p])
<1> DEFINE o == job[p]
           g == o.cur
           leafy == LeafOf(g) \in Made
<1>1. /\ o.step = "climb" /\ UNCHANGED tree /\ g \in Path
      /\ Mask(p, 0) # {}
  BY ClimbDoes, JobFacts DEF Still, HuntAs, Job
<1>2. PICK j : /\ Takes(p, j)
               /\ j.root = IF leafy THEN g ELSE o.root
               /\ IF leafy /\ g # Top
                  THEN j.step = "climb" /\ j.cur = Parent(g)
                  ELSE j.step = "rootleaf" /\ j.cur = j.root
  BY ClimbDoes, Zenon
<1>3. PICK V \in Homes(p) :
         \/ Reach(Made, V, g) /\ (g = V => o.root = V \/ LeafOf(V) \in Made)
         \/ V # Top /\ g = Parent(V) /\ o.root = V
  BY <1>1 DEF HuntAs
<1>4. V \in Units /\ V \in Path /\ Made' = Made /\ job'[p] = j
  BY <1>1, <1>2, HomeIsUnit DEF Made, Takes
<1> HIDE DEF o, g
<1>5. ASSUME j.step = "rootleaf", j.root = V PROVE HuntAs(Made, Homes(p), p, j)
  BY <1>1, <1>3, <1>5 DEF HuntAs
<1>6. ASSUME j.step = "climb",
             \/ Reach(Made, V, j.cur) /\ (j.cur = V => j.root = V \/ LeafOf(V) \in Made)
             \/ V # Top /\ j.cur = Parent(V) /\ j.root = V
      PROVE  HuntAs(Made, Homes(p), p, j)
  BY <1>1, <1>3, <1>6 DEF HuntAs
<1>7. CASE V # Top /\ g = Parent(V) /\ o.root = V
  <2>1. ~leafy
    BY <1>4, <1>7 DEF NoneBeside
  <2>2. j.step = "rootleaf" /\ j.root = V
    BY <1>2, <1>7, <2>1
  <2>3. QED
    BY <1>4, <1>5, <2>2
<1>8. CASE g = V /\ (o.root = V \/ LeafOf(V) \in Made)
  <2>1. j.root = V
    BY <1>2, <1>8
  <2>2. CASE leafy /\ g # Top
    BY <1>2, <1>4, <1>6, <1>8, <2>1, <2>2
  <2>3. CASE ~(leafy /\ g # Top)
    BY <1>2, <1>4, <1>5, <2>1, <2>3
  <2>4. QED
    BY <2>2, <2>3
<1>9. CASE g # V /\ Leafy(Made, V, g)
  <2>1. Under(g, V) /\ leafy /\ LeafOf(V) \in Made
    BY <1>1, <1>4, <1>9, LeafyEnds DEF leafy
  <2>2. Len(g) \in Nat /\ Len(V) \in Nat /\ Len(V) < Len(g)
    BY <1>1, <1>4, <1>9, <2>1, PathFacts, SamePath DEF Under
  <2>3. g # Top
    BY <1>1, <2>2, PathFacts
  <2>4. Parent(g) \in Path /\ Under(g, Parent(g)) /\ Len(Parent(g)) = Len(g) - 1
    BY <1>1, <2>3, ParentFacts
  <2>5. Under(Parent(g), V)
    BY <1>1, <1>4, <2>1, <2>2, <2>4, UnderBoth
  <2>6. Leafy(Made, V, Parent(g))
    BY <1>1, <1>4, <1>9, <2>4, <2>5, LeafyUp
  <2>7. j.step = "climb" /\ j.cur = Parent(g)
    BY <1>2, <2>1, <2>3
  <2>8. QED
    BY <1>4, <1>6, <2>1, <2>6, <2>7 DEF Reach
<1>10. QED
  BY <1>3, <1>7, <1>8, <1>9 DEF Reach

\* at its start,
LEMMA HuntStart ==
    ASSUME CgTypes, CgTypes', NEW p \in Launchers, NothingToSet(p) \/ Begin(p), HomeAs(p)
    PROVE  HuntAs(Made', Homes(p), p, job'[p])
<1>1. Alive(p) /\ Made' = Made
  BY StartDoes DEF Still, Made
<1>2. PICK j : /\ Takes(p, j)
               /\ \/ Mask(p, 0) = {} /\ j.step = "clone"
                  \/ /\ Mask(p, 0) # {} /\ j.step = "climb"
                     /\ j.cur = Stripped(IF RootPath = NoPath THEN where[p] ELSE RootPath)
                     /\ j.root = j.cur
  BY StartDoes, Zenon
<1>3. job'[p] = j
  BY <1>2 DEF Takes
<1>4. CASE Mask(p, 0) = {} /\ j.step = "clone"
  BY <1>3, <1>4 DEF HuntAs
<1>5. CASE Mask(p, 0) # {} /\ j.step = "climb"
  <2>1. \E V \in Homes(p) : Reach(Made, V, j.cur)
    <3>1. CASE RootPath = NoPath
      BY <1>1, <1>2, <1>5, <3>1 DEF HomeAs
    <3>2. CASE RootPath # NoPath
      BY <1>2, <1>5, <3>2 DEF Homes, Units, Reach
    <3>3. QED
      BY <3>1, <3>2
  <2>2. j.root = j.cur
    BY <1>2, <1>5
  <2>3. QED
    BY <1>1, <1>3, <1>5, <2>1, <2>2 DEF HuntAs
<1>6. QED
  BY <1>2, <1>4, <1>5

\* and through any action of the launcher.
LEMMA HuntLaunch ==
    ASSUME CgTypes, CgTypes', LimitsAs, Steady, HierInv, NEW p \in Launchers, Launch(p)
    PROVE  HuntAs(Made', Homes(p), p, job'[p])
<1> DEFINE o == job[p]
<1>1. HuntAs(Made, Homes(p), p, o) /\ HomeAs(p) /\ NoneBeside /\ Made \subseteq Made' /\ PlaceAs(p, o) /\ o \in Job
  BY JobFacts DEF HierInv, Steady, LimitsAs
<1>2. ASSUME NEW j, Takes(p, j), Fails(o, j), o.step \notin {"start", "climb"}
      PROVE  HuntAs(Made', Homes(p), p, job'[p])
  BY <1>1, <1>2, HuntSame DEF Takes, Fails
<1>3. ASSUME NEW j, Takes(p, j), Looks(p, o, j), o.step \in {"read", "conf"}
      PROVE  HuntAs(Made', Homes(p), p, job'[p])
  BY <1>1, <1>3, HuntSame DEF Takes, Looks
<1>4. ASSUME NEW j, Takes(p, j), Rests(o, j),
             o.step \in {"open", "read", "move", "look", "grant", "enter"},
             j.step \in {"read", "move", "look", "grant", "enter", "clone"}
      PROVE  HuntAs(Made', Homes(p), p, job'[p])
  BY <1>1, <1>4, HuntSame DEF Takes
<1>5. CASE NothingToSet(p) \/ Begin(p)
  BY <1>1, <1>5, HuntStart
<1>6. CASE Climb(p)
  BY <1>1, <1>6, HuntClimb
<1>7. CASE RootLeaf(p)
  <2>1. o.step = "rootleaf"
    BY <1>7, RootLeafDoes
  <2>2. PICK j : /\ Takes(p, j)
                 /\ \/ o.cur \in Made /\ Make(LeafOf(o.cur)) /\ j.step = "open" /\ Rests(o, j)
                    \/ Fails(o, j)
    BY <1>7, RootLeafDoes, Zenon
  <2>3. CASE o.cur \in Made /\ Make(LeafOf(o.cur)) /\ j.step = "open" /\ Rests(o, j)
    <3>1. o.cur = o.root /\ o.root \in Homes(p) /\ Mask(p, 0) # {}
      BY <1>1, <2>1 DEF HuntAs, PlaceAs
    <3>2. LeafOf(o.root) \in Made'
      BY <2>3, <3>1 DEF Make, Made
    <3>3. Leafy(Made', o.root, o.root)
      BY <1>1, <3>2, LeafySelf DEF Job
    <3> HIDE DEF o
    <3>4. j.root = o.root /\ j.cur = o.root
      BY <2>3, <3>1 DEF Rests
    <3>5. QED
      BY <2>2, <2>3, <3>1, <3>3, <3>4 DEF HuntAs, Takes
  <2>4. QED
    BY <1>2, <2>1, <2>2, <2>3
<1>8. CASE OpenProcs(p) \/ ReadProcs(p)
  BY <1>4, <1>8, OpenDoes, ReadDoes
<1>9. CASE MoveProc(p)
  <2>1. PICK j : Takes(p, j) /\ (Fails(o, j) \/ (Rests(o, j) /\ j.step \in {"read", "move"}))
    BY <1>9, MoveDoes
  <2>2. o.step = "move"
    BY <1>9, MoveDoes
  <2>3. QED
    BY <1>2, <1>4, <2>1, <2>2
<1>10. CASE AllMoved(p) \/ Configure(p)
  BY <1>2, <1>3, <1>10, AllMovedDoes, ConfigureDoes
<1>11. CASE Look(p)
  BY <1>2, <1>4, <1>11, LookDoes
<1>12. CASE Grant(p)
  <2>1. PICK j : /\ Takes(p, j)
                 /\ \/ j.root = o.root /\ j.cur = o.cur /\ j.step \in {"grant", "enter", "mknode"}
                    \/ Fails(o, j)
    BY <1>12, GrantDoes, Zenon
  <2>2. o.step = "grant"
    BY <1>12, GrantDoes
  <2>3. CASE j.root = o.root /\ j.cur = o.cur /\ j.step \in {"grant", "enter", "mknode"}
    <3>1. Leafy(Made', o.root, o.cur) /\ o.root \in Homes(p) /\ Mask(p, 0) # {}
      BY <1>1, <2>2, LeafyMore DEF HuntAs
    <3> HIDE DEF o
    <3>2. QED
      BY <2>1, <2>3, <3>1 DEF HuntAs, Takes
  <2>4. QED
    BY <1>2, <2>1, <2>2, <2>3
<1>13. CASE MakeNode(p) \/ MakeLeaf(p)
  <2>1. PICK j : /\ Takes(p, j) /\ j.level = o.level /\ j.root = o.root
                 /\ \/ /\ o.step = "mknode" /\ j.step = "mkleaf"
                       /\ j.cur = Append(o.cur, CgName[Own(p)])
                    \/ /\ o.step = "mkleaf" /\ j.step = "conf"
                       /\ Make(LeafOf(j.cur)) /\ j.cur = o.cur
    BY <1>13, MakeDoes
  <2>2. o.root \in Homes(p) /\ Mask(p, 0) # {} /\ job'[p] = j
    BY <1>1, <2>1 DEF HuntAs, Takes
  <2>3. CASE o.step = "mknode" /\ j.step = "mkleaf" /\ j.cur = Append(o.cur, CgName[Own(p)])
    <3>1. o.level \in 1 .. Len(Chain[p])
      BY <2>3, JobFacts DEF JobOK, Job
    <3>2. CgName[Own(p)] \in STRING
      BY <3>1, NodeTypes DEF Own
    <3>3. j.cur # Top /\ Parent(j.cur) = o.cur
      <4>1. o.cur \in Path
        BY <1>1 DEF Job
      <4> DEFINE c == o.cur
                 name == CgName[Own(p)]
      <4>2. c \in Path /\ name \in STRING /\ j.cur = Append(c, name)
        BY <2>3, <3>2, <4>1
      <4> HIDE DEF c, name
      <4>3. Append(c, name) # Top /\ Parent(Append(c, name)) = c
        BY <4>2, AppendPath
      <4>4. QED
        BY <4>2, <4>3 DEF c
    <3>4. Leafy(Made', o.root, o.cur)
      BY <1>1, <2>3, LeafyMore DEF HuntAs
    <3> HIDE DEF o
    <3>5. QED
      BY <2>1, <2>2, <2>3, <3>3, <3>4 DEF HuntAs
  <2>4. CASE o.step = "mkleaf" /\ j.step = "conf" /\ Make(LeafOf(j.cur)) /\ j.cur = o.cur
    <3>1. LeafOf(o.cur) \in Made'
      BY <2>4 DEF Make, Made
    <3>2. o.cur # Top /\ Leafy(Made', o.root, Parent(o.cur))
      BY <1>1, <2>4, LeafyMore DEF HuntAs
    <3>3. Leafy(Made', o.root, o.cur)
      BY <1>1, <3>1, <3>2, LeafyDown DEF Job
    <3> HIDE DEF o
    <3>4. QED
      BY <2>1, <2>2, <2>4, <3>3 DEF HuntAs
  <2>5. QED
    BY <2>1, <2>3, <2>4
<1>14. CASE EnterLeaf(p) \/ Clone(p)
  <2>1. PICK j : /\ Takes(p, j) /\ Rests(o, j) /\ j.step \in {"clone", "done"} /\ o.step \in {"enter", "clone"}
    BY <1>14, EndDoes
  <2>2. QED
    BY <1>1, <2>1, HuntSame DEF Takes
<1>15. QED
  BY <1>5, <1>6, <1>7, <1>8, <1>9, <1>10, <1>11, <1>12, <1>13, <1>14 DEF Launch

\* Groups are made below units.
LEMMA MakesBelow ==
    ASSUME CgTypes, CgTypes', LimitsAs, Steady, HierInv, UnitsApart, NEW p \in Launchers, Launch(p)
    PROVE  NoneBeside'
<1> DEFINE o == job[p]
<1>1. HuntAs(Made, Homes(p), p, o) /\ o \in Job /\ PlaceAs(p, o) /\ NoneBeside
  BY JobFacts DEF HierInv, LimitsAs
<1>2. ASSUME NEW c \in Path, NEW R \in Units, Under(c, R), NEW name \in STRING, Make(Append(c, name))
      PROVE  NoneBeside'
  <2>1. Made' = Made \cup {Append(c, name)} /\ Parent(Append(c, name)) = c
    BY <1>2, AppendPath DEF Make, Made
  <2>2. \A V \in Units : V # Top => c # Parent(V)
    BY <1>2, BelowUnit
  <2>3. \A V \in Units : V # Top => Parent(V) \in Path /\ Parent(LeafOf(Parent(V))) = Parent(V)
    BY UnitType, ParentPath, LeafFacts
  <2> HIDE DEF o
  <2>4. ASSUME NEW V \in Units, V # Top PROVE LeafOf(Parent(V)) \notin Made'
    <3>1. LeafOf(Parent(V)) # Append(c, name)
      BY <2>1, <2>2, <2>3, <2>4
    <3>2. QED
      BY <1>1, <2>1, <2>4, <3>1 DEF NoneBeside
  <2>5. QED
    BY <2>4 DEF NoneBeside
<1>3. CASE UNCHANGED tree
  BY <1>1, <1>3 DEF NoneBeside, Made
<1>4. CASE RootLeaf(p) /\ ~UNCHANGED tree
  <2>1. o.step = "rootleaf" /\ Make(LeafOf(o.cur))
    BY <1>4, RootLeafDoes
  <2>2. o.cur \in Path /\ o.cur \in Units
    BY <1>1, <2>1, HomeIsUnit DEF HuntAs, PlaceAs
  <2> HIDE DEF o
  <2>3. QED
    BY <1>2, <2>1, <2>2, UnderSelf, CgroupsAssumption DEF LeafOf
<1>5. CASE MakeNode(p)
  <2>1. o.step = "mknode" /\ Make(Append(o.cur, CgName[Own(p)]))
    BY <1>5 DEF MakeNode, At
  <2>2. o.level \in 1 .. Len(Chain[p])
    BY <2>1, JobFacts DEF JobOK, Job
  <2>3. CgName[Own(p)] \in STRING
    BY <2>2, NodeTypes DEF Own
  <2>4. o.cur \in Path /\ o.root \in Units /\ Under(o.cur, o.root)
    BY <1>1, <2>1, HomeIsUnit DEF HuntAs, Leafy, Job
  <2> HIDE DEF o
  <2>5. QED
    BY <1>2, <2>1, <2>3, <2>4
<1>6. CASE MakeLeaf(p)
  <2>1. o.step = "mkleaf" /\ Make(LeafOf(o.cur))
    BY <1>6 DEF MakeLeaf, At
  <2>2. o.cur \in Path /\ o.root \in Units /\ o.cur # Top /\ Under(Parent(o.cur), o.root)
    BY <1>1, <2>1, HomeIsUnit DEF HuntAs, Leafy, Job
  <2> DEFINE c == o.cur
             R == o.root
  <2>3. c \in Path /\ R \in Units /\ c # Top /\ Under(Parent(c), R) /\ Make(Append(c, PidsLeaf))
    BY <2>1, <2>2 DEF LeafOf
  <2> HIDE DEF o, c, R
  <2>4. Under(c, R)
    BY <2>3, ParentFacts, UnitType, UnderTrans
  <2>5. QED
    BY <1>2, <2>3, <2>4, CgroupsAssumption
<1>7. CASE Grant(p) \/ Configure(p)
  <2>1. Made' = Made
    <3>1. CASE Grant(p)
      <4>1. UNCHANGED tree \/ tree' = [tree EXCEPT ![Asked(p).at].sub = @ \cup Asked(p).mask]
        BY <3>1, GrantDoes
      <4>2. QED
        BY <4>1 DEF Made, CgTypes, TreeOK
    <3>2. CASE Configure(p)
      BY <3>2, ConfigureDoes
    <3>3. QED
      BY <1>7, <3>1, <3>2
  <2>2. QED
    BY <1>1, <2>1 DEF NoneBeside
<1>8. QED
  BY <1>3, <1>4, <1>5, <1>6, <1>7, StartDoes, ClimbDoes, OpenDoes, ReadDoes, MoveDoes, AllMovedDoes, LookDoes,
     EndDoes DEF Launch, Still

\* Where a launcher's step leaves the others, and itself.
LEMMA ActsHome ==
    ASSUME CgTypes, CgTypes', LimitsAs, Steady, HierInv, UnitsApart, NEW p \in Launchers, NEW j, Acts(p, j),
           NEW q \in Launchers
    PROVE  HomeAs(q)'
<1> DEFINE o == job[p]
<1>1. /\ HuntAs(Made, Homes(p), p, o) /\ HomeAs(p) /\ HomeAs(q) /\ BirthInv /\ BirthAs(p) /\ BirthAs(q)
      /\ o \in Job /\ PlaceAs(p, o) /\ Made \subseteq Made'
  BY JobFacts DEF HierInv, LimitsAs, Steady, BirthInv
<1>2. /\ \A r \in Procs : /\ where'[r] = Unborn <=> where[r] = Unborn
                          /\ where'[r] = Gone <=> where[r] = Gone
      /\ BoxesKept
  BY <1>1, ActsBirth DEF BoxesKept
<1>3. SUFFICES ASSUME RootPath = NoPath
               PROVE  /\ Alive(q)' => \E V \in Homes(q)' : Reach(Made', V, Stripped(where'[q]))
                      /\ job'[q].step = "done" => \E V \in Homes(q)' : Reach(Made', V, Stripped(box'[q]))
                      /\ \A r \in job'[q].todo \cap Launchers : job'[q].root \in Homes(r)'
  BY DEF HomeAs
<1>4. job'[p] = j /\ j \in Job /\ \A r \in Launchers : r # p => job'[r] = job[r]
  BY DEF Acts, Takes
<1>5. \A r \in Launchers : where[r] # Unborn => Homes(r)' = Homes(r)
  BY <1>1, <1>2, HomesStay
<1>6. where \in [Procs -> Made \cup {Unborn, Gone}] /\ box \in [Launchers -> Made \cup {Unborn, Gone}]
      /\ Launchers \subseteq Procs /\ Made \subseteq Path
  BY DEF CgTypes, Procs, TreeOK
<1>7. Alive(q) => \E V \in Homes(q) : Reach(Made', V, Stripped(where[q]))
  BY <1>1, <1>3, LeafyMore DEF HomeAs
<1>8. ASSUME Alive(q)' PROVE \E V \in Homes(q)' : Reach(Made', V, Stripped(where'[q]))
  <2>1. Alive(q) /\ Homes(q)' = Homes(q)
    BY <1>2, <1>5, <1>6, <1>8 DEF Alive
  <2>2. CASE where'[q] = where[q]
    BY <1>7, <2>1, <2>2
  <2>3. CASE q \in o.todo /\ o.step = "move" /\ where'[q] = LeafOf(o.cur)
    <3> DEFINE R == o.root
    <3>1. R \in Homes(q) /\ o.cur = R
      BY <1>1, <1>3, <2>3 DEF HomeAs, PlaceAs
    <3>2. where'[q] = LeafOf(R)
      BY <2>3, <3>1
    <3> HIDE DEF R
    <3>3. R \in Path /\ Stripped(LeafOf(R)) = R
      BY <3>1, HomeIsUnit, UnitType, StrippedLeaf
    <3>4. QED
      BY <2>1, <3>1, <3>2, <3>3 DEF Reach
  <2>4. CASE q = p /\ o.step = "enter" /\ where'[q] = LeafOf(o.cur)
    <3> DEFINE R == o.root
               c == o.cur
               s == Stripped(c)
    <3>1. Mask(p, 0) # {} /\ R \in Homes(q) /\ Leafy(Made, R, c) /\ c \in Path /\ where'[q] = LeafOf(c)
      BY <1>1, <2>4 DEF HuntAs, Job
    <3> HIDE DEF R, c
    <3>2. R \in Path /\ Stripped(R) = R /\ Under(c, R)
      BY <3>1, HomeIsUnit, UnitType DEF Leafy
    <3>3. s \in Path /\ Under(c, s) /\ Under(s, R) /\ Stripped(LeafOf(c)) = s
      BY <3>1, <3>2, StrippedFacts, StrippedUnder, StrippedLeaf
    <3> HIDE DEF s
    <3>4. Leafy(Made, R, s)
      BY <3>1, <3>2, <3>3, LeafyUp
    <3>5. Reach(Made', R, s)
      BY <1>1, <3>4, LeafyMore DEF Reach
    <3>6. QED
      BY <2>1, <3>1, <3>3, <3>5
  <2>5. QED
    <3>1. CASE UNCHANGED where
      BY <2>2, <3>1
    <3>2. CASE o.step = "move" /\ \E r \in o.todo : where[r] # Gone /\ where' = [where EXCEPT ![r] = LeafOf(o.cur)]
      BY <1>6, <2>2, <2>3, <3>2
    <3>3. CASE o.step = "enter" /\ where' = [where EXCEPT ![p] = LeafOf(o.cur)]
      BY <1>6, <2>2, <2>4, <3>3
    <3>4. QED
      BY <3>1, <3>2, <3>3 DEF Acts
<1>9. ASSUME job'[q].step = "done" PROVE \E V \in Homes(q)' : Reach(Made', V, Stripped(box'[q]))
  <2>1. CASE job[q].step = "done"
    <3>1. box'[q] = box[q] /\ where[q] # Unborn
      BY <1>1, <1>2, <2>1 DEF BoxesKept, BirthAs
    <3>2. \E V \in Homes(q) : Reach(Made', V, Stripped(box[q]))
      BY <1>1, <1>3, <2>1, LeafyMore DEF HomeAs
    <3>3. QED
      BY <1>5, <3>1, <3>2
  <2>2. CASE job[q].step # "done"
    <3>1. q = p /\ o.step = "clone" /\ box' = [box EXCEPT ![p] = where[p]]
      BY <1>4, <1>9, <2>2 DEF Acts
    <3>2. where[q] # Unborn /\ Alive(q)
      BY <1>1, <2>2, <3>1 DEF BirthAs, Alive
    <3>3. box'[q] = where[q]
      BY <1>6, <3>1
    <3>4. QED
      BY <1>5, <1>7, <3>2, <3>3
  <2>3. QED
    BY <2>1, <2>2
<1>10. ASSUME NEW r \in job'[q].todo \cap Launchers PROVE job'[q].root \in Homes(r)'
  <2>1. CASE q # p
    <3>1. job'[q] = job[q] /\ where[r] # Unborn
      BY <1>1, <1>4, <1>10, <2>1 DEF BirthAs
    <3>2. QED
      BY <1>1, <1>3, <1>5, <1>10, <3>1 DEF HomeAs
  <2>2. CASE q = p
    <3>1. r \in j.todo /\ job'[q].root = j.root
      BY <1>4, <1>10, <2>2
    <3>2. CASE r \in o.todo
      <4>1. o.step = "move" /\ where[r] # Unborn /\ o.root \in Homes(r)
        BY <1>1, <1>3, <1>10, <3>2 DEF BirthAs, HomeAs
      <4>2. j.step = "move"
        BY <3>1, <4>1 DEF Acts
      <4>3. j.root = o.root
        BY <4>2 DEF Acts, Rests
      <4>4. QED
        BY <1>5, <1>10, <3>1, <4>1, <4>3
    <3>3. CASE r \notin o.todo
      <4>1. o.step = "read" /\ j.step = "move" /\ r \in Members(o.cur)
        BY <3>1, <3>3 DEF Acts
      <4> DEFINE R == o.root
      <4>2. o.cur = R /\ R \in Homes(p) /\ where[r] = R /\ j.root = R
        BY <1>1, <4>1 DEF PlaceAs, HuntAs, Members, Acts, Rests
      <4> HIDE DEF R
      <4>3. R \in Path /\ R \in Units /\ Stripped(R) = R /\ R \notin {Unborn, Gone}
        BY <4>2, HomeIsUnit, UnitType, CgroupsAssumption
      <4>4. PICK V \in Homes(r) : Reach(Made, V, R)
        BY <1>3, <1>10, <4>2, <4>3 DEF HierInv, HomeAs, Alive
      <4>5. V = R
        <5>1. V \in Units
          BY <4>4, HomeIsUnit
        <5>2. R # V => Under(R, V)
          BY <4>4 DEF Reach, Leafy
        <5>3. QED
          BY <4>3, <5>1, <5>2 DEF UnitsApart
      <4>6. QED
        BY <1>5, <1>10, <3>1, <4>2, <4>3, <4>4, <4>5
    <3>4. QED
      BY <3>2, <3>3
  <2>3. QED
    BY <2>1, <2>2
<1>11. QED
  BY <1>8, <1>9, <1>10

\* Shelter of one launcher through an action of any.
LEMMA ActsShelter ==
    ASSUME CgTypes, CgTypes', LimitsAs, Steady, HierInv, UnitsApart, NEW p \in Launchers, NEW j, Acts(p, j),
           NEW q \in Launchers
    PROVE  ShelterAs(q)'
<1> DEFINE o == job[p]
<1>1. /\ HuntAs(Made, Homes(p), p, o) /\ BirthInv /\ BirthAs(p) /\ BirthAs(q) /\ ShelterAs(q)
      /\ o \in Job /\ PlaceAs(p, o) /\ Made \subseteq Made'
  BY JobFacts DEF HierInv, LimitsAs, Steady, BirthInv
<1>2. /\ \A r \in Procs : where'[r] = Unborn <=> where[r] = Unborn
      /\ BoxesKept
  BY <1>1, ActsBirth DEF BoxesKept
<1>3. job'[p] = j /\ j \in Job /\ \A r \in Launchers : r # p => job'[r] = job[r]
  BY DEF Acts, Takes
<1>4. where \in [Procs -> Made \cup {Unborn, Gone}] /\ box \in [Launchers -> Made \cup {Unborn, Gone}]
      /\ q \in Procs
  BY DEF CgTypes, Procs
<1>5. SUFFICES ASSUME where'[q] # Unborn, Began(q)' \notin Units
               PROVE  /\ where'[q] \notin Units
                      /\ \A r \in Launchers : q \notin job'[r].todo
                      /\ job'[q].step = "clone" /\ Confined(q)' =>
                             where'[q] = LeafOf(GroupAt(q, job'[q].root, Len(Chain[q])))
                      /\ job'[q].step = "done" /\ Confined(q)' =>
                             box'[q] = LeafOf(GroupAt(q, job'[q].root, Len(Chain[q])))
  BY DEF ShelterAs, InItsLeaf, GroupOf, GroupAt
<1>6. where[q] # Unborn /\ Began(q)' = Began(q)
  BY <1>1, <1>2, <1>4, <1>5, HomesStay
<1>7. /\ where[q] \notin Units
      /\ \A r \in Launchers : q \notin job[r].todo
      /\ job[q].step = "clone" /\ ConfinedAs(q, job[q]) => where[q] = LeafOf(GroupAt(q, job[q].root, Len(Chain[q])))
      /\ job[q].step = "done" /\ ConfinedAs(q, job[q]) => box[q] = LeafOf(GroupAt(q, job[q].root, Len(Chain[q])))
  BY <1>1, <1>5, <1>6 DEF ShelterAs, InItsLeaf, Confined, ConfinedAs, GroupOf, GroupAt
<1>8. Confined(q)' <=> ConfinedAs(q, job'[q])
  BY DEF Confined, ConfinedAs, Mask
<1>9. where'[q] = where[q] \/ (q = p /\ o.step = "enter" /\ where'[q] = LeafOf(o.cur))
  <2>1. CASE o.step = "move" /\ \E r \in o.todo : where[r] # Gone /\ where' = [where EXCEPT ![r] = LeafOf(o.cur)]
    BY <1>7, <2>1
  <2>2. QED
    BY <1>4, <2>1 DEF Acts
<1>10. where'[q] \notin Units
  <2>1. CASE q = p /\ o.step = "enter" /\ where'[q] = LeafOf(o.cur)
    <3> DEFINE R == o.root
               c == o.cur
    <3>1. R \in Units /\ Under(c, R) /\ c \in Path /\ where'[q] = LeafOf(c)
      BY <1>1, <2>1, HomeIsUnit DEF HuntAs, Leafy, Job
    <3> HIDE DEF R, c
    <3>2. QED
      BY <3>1, BelowUnit
  <2>2. QED
    BY <1>7, <1>9, <2>1
<1>11. ASSUME NEW r \in Launchers PROVE q \notin job'[r].todo
  <2>1. CASE r # p
    BY <1>3, <1>7, <2>1
  <2>2. CASE r = p
    <3>1. q \in j.todo => q \in o.todo \/ (o.step = "read" /\ q \in Members(o.cur))
      BY DEF Acts
    <3>2. o.step = "read" => o.cur \in Units
      BY <1>1, HomeIsUnit DEF PlaceAs, HuntAs
    <3>3. QED
      BY <1>3, <1>7, <2>2, <3>1, <3>2 DEF Members
  <2>3. QED
    BY <2>1, <2>2
<1>12. ASSUME job'[q].step = "clone", ConfinedAs(q, job'[q])
       PROVE  where'[q] = LeafOf(GroupAt(q, job'[q].root, Len(Chain[q])))
  <2>1. CASE q = p
    <3>1. o.step = "enter" /\ j.root = o.root
      BY <1>3, <1>12, <2>1 DEF Acts, ConfinedAs, Rests
    <3>2. o.cur = GroupAt(p, o.root, Len(Chain[p]))
      BY <1>1, <3>1 DEF PlaceAs
    <3>3. where'[q] = LeafOf(o.cur)
      <4>1. where' = [where EXCEPT ![p] = LeafOf(o.cur)]
        BY <1>3, <1>12, <2>1, <3>1 DEF Acts, ConfinedAs
      <4>2. QED
        BY <1>4, <2>1, <4>1
    <3>4. QED
      BY <1>3, <2>1, <3>1, <3>2, <3>3
  <2>2. CASE q # p
    BY <1>3, <1>7, <1>9, <1>12, <2>2
  <2>3. QED
    BY <2>1, <2>2
<1>13. ASSUME job'[q].step = "done", ConfinedAs(q, job'[q])
       PROVE  box'[q] = LeafOf(GroupAt(q, job'[q].root, Len(Chain[q])))
  <2>1. CASE q = p
    <3>1. o.step = "clone" /\ j.root = o.root /\ j.rc = o.rc /\ box' = [box EXCEPT ![p] = where[p]]
      BY <1>3, <1>13, <2>1 DEF Acts, Rests
    <3>2. ConfinedAs(q, o)
      BY <1>3, <1>13, <2>1, <3>1 DEF ConfinedAs
    <3>3. QED
      BY <1>3, <1>4, <1>7, <2>1, <3>1, <3>2
  <2>2. CASE q # p
    <3>1. job'[q] = job[q] /\ box'[q] = box[q]
      BY <1>2, <1>3, <1>13, <2>2 DEF BoxesKept
    <3>2. QED
      BY <1>7, <1>13, <3>1
  <2>3. QED
    BY <2>1, <2>2
<1>14. QED
  BY <1>8, <1>10, <1>11, <1>12, <1>13

\* HierInv through an action of a launcher.
LEMMA HierLaunch ==
    ASSUME CgTypes, CgTypes', LimitsAs, Steady, HierInv, UnitsApart, NEW p \in Launchers, Launch(p)
    PROVE  HierInv'
<1>1. PICK j : Acts(p, j)
  BY LaunchActs
<1>2. BirthInv /\ \A q \in Launchers : BirthAs(q) /\ HuntAs(Made, Homes(q), q, job[q])
  BY DEF HierInv, BirthInv
<1>3. /\ \A q \in Procs : where'[q] = Unborn <=> where[q] = Unborn
      /\ BoxesKept /\ BirthInv'
  BY <1>1, <1>2, ActsBirth DEF BoxesKept
<1>4. \A q \in Launchers : q # p => job'[q] = job[q]
  BY <1>1 DEF Acts, Takes
<1>5. ASSUME NEW q \in Launchers PROVE HuntAs(Made', Homes(q)', q, job'[q])
  <2>1. CASE where[q] = Unborn
    <3>1. job[q].step = "start" /\ q # p
      <4>1. job[q].step = "start"
        BY <1>2, <2>1 DEF BirthAs
      <4>2. QED
        BY <1>1, <2>1, <4>1 DEF Acts, Alive
    <3>2. job'[q].step = "start"
      BY <1>4, <3>1
    <3>3. QED
      BY <3>2 DEF HuntAs
  <2>2. CASE where[q] # Unborn
    <3>1. Homes(q)' = Homes(q)
      BY <1>2, <1>3, <2>2, HomesStay
    <3>2. HuntAs(Made', Homes(q), q, job'[q])
      <4>1. CASE q = p
        BY <4>1, HuntLaunch
      <4>2. CASE q # p
        BY <1>2, <1>4, <4>2, HuntMore DEF Steady
      <4>3. QED
        BY <4>1, <4>2
    <3>3. QED
      BY <3>1, <3>2
  <2>3. QED
    BY <2>1, <2>2
<1>6. \A q \in Launchers : HomeAs(q)' /\ ShelterAs(q)'
  BY <1>1, ActsHome, ActsShelter
<1>7. NoneBeside'
  BY MakesBelow
<1>8. \A q \in Launchers : HuntAs(Made, Homes(q), q, job[q])'
  BY <1>5 DEF HuntAs, Reach, Leafy, Mask, Homes, Began
<1>9. QED
  BY <1>3, <1>6, <1>7, <1>8 DEF HierInv

\* Births and ends of processes.
LEMMA HierRest ==
    ASSUME CgTypes, CgTypes', HierInv, UnitsApart,
           \/ \E p \in Launchers : Spawn(p)
           \/ \E q \in Procs : Fork(q) \/ End(q)
    PROVE  HierInv'
<1>1. BirthInv /\ NoneBeside
      /\ \A q \in Launchers : BirthAs(q) /\ HuntAs(Made, Homes(q), q, job[q]) /\ HomeAs(q) /\ ShelterAs(q)
  BY DEF HierInv, BirthInv
<1>2. UNCHANGED <<tree, job, box>> /\ BirthInv'
  BY <1>1, RestBirth
<1>3. Made' = Made /\ \A q \in Launchers : Began(q)' = Began(q) /\ Homes(q)' = Homes(q)
  BY <1>2 DEF Made, Began, Homes
<1>4. /\ where \in [Procs -> Made \cup {Unborn, Gone}] /\ Launchers \subseteq Procs /\ Made \subseteq Path
      /\ Unborn # Gone /\ Gone \notin Path /\ \A q \in Launchers : q \notin Others
  BY CgroupsAssumption DEF CgTypes, TreeOK, Procs
<1>5. ASSUME NEW q \in Launchers
      PROVE  \/ where'[q] = where[q]
             \/ /\ where[q] = Unborn /\ Start[q] \in Launchers /\ job[Start[q]].step = "done"
                /\ job[q].step = "start" /\ where'[q] = box[Start[q]]
             \/ job[q].step = "done" /\ Alive(q) /\ where'[q] = Gone
  <2>1. CASE \E p \in Launchers : /\ where[p] = Unborn /\ Start[p] \in Launchers
                                  /\ job[Start[p]].step = "done" /\ job[p].step = "start"
                                  /\ where' = [where EXCEPT ![p] = box[Start[p]]]
    BY <1>4, <2>1
  <2>2. CASE \E s \in Others, r \in Procs :
                                  /\ where[s] = Unborn /\ Alive(r)
                                  /\ where' = [where EXCEPT ![s] = where[r]]
    BY <1>4, <2>2
  <2>3. CASE \E s \in Procs : /\ s \in Launchers => job[s].step = "done"
                              /\ Alive(s) /\ where' = [where EXCEPT ![s] = Gone]
    BY <1>4, <2>3
  <2>4. QED
    BY <1>1, <2>1, <2>2, <2>3, RestBirth
<1>6. ASSUME NEW q \in Launchers PROVE HomeAs(q)'
  <2>1. SUFFICES ASSUME RootPath = NoPath
                 PROVE  /\ Alive(q)' => \E V \in Homes(q) : Reach(Made, V, Stripped(where'[q]))
                        /\ job[q].step = "done" => \E V \in Homes(q) : Reach(Made, V, Stripped(box[q]))
                        /\ \A r \in job[q].todo \cap Launchers : job[q].root \in Homes(r)
    <3>1. job' = job /\ box' = box
      BY <1>2
    <3>2. QED
      BY <1>3, <3>1 DEF HomeAs
  <2>2. /\ job[q].step = "done" => \E V \in Homes(q) : Reach(Made, V, Stripped(box[q]))
        /\ \A r \in job[q].todo \cap Launchers : job[q].root \in Homes(r)
    BY <1>1, <2>1 DEF HomeAs
  <2>3. ASSUME Alive(q)' PROVE \E V \in Homes(q) : Reach(Made, V, Stripped(where'[q]))
    <3>1. CASE where'[q] = where[q]
      BY <1>1, <2>1, <2>3, <3>1 DEF HomeAs, Alive
    <3>2. CASE where'[q] = Gone
      BY <2>3, <3>2 DEF Alive
    <3>3. CASE Start[q] \in Launchers /\ job[Start[q]].step = "done" /\ where'[q] = box[Start[q]]
      <4> DEFINE r == Start[q]
                 b == box[r]
      <4>1. r \in Launchers /\ b \in Path /\ Began(q) = b /\ where'[q] = b
        BY <1>1, <1>4, <3>3 DEF BirthAs, Began
      <4>2. PICK V \in Homes(r) : Reach(Made, V, Stripped(b))
        BY <1>1, <2>1, <3>3 DEF HomeAs
      <4> HIDE DEF r, b
      <4>3. V \in Path /\ V \in Units /\ Stripped(b) \in Path /\ Under(b, Stripped(b))
        BY <4>1, <4>2, HomeIsUnit, StrippedFacts
      <4>4. Under(b, V)
        BY <4>1, <4>2, <4>3, UnderTrans DEF Reach, Leafy
      <4>5. V \in Homes(q)
        BY <2>1, <4>1, <4>3, <4>4 DEF Homes
      <4>6. QED
        BY <4>1, <4>2, <4>5
    <3>4. QED
      BY <1>5, <3>1, <3>2, <3>3
  <2>4. QED
    BY <2>2, <2>3
<1>7. ASSUME NEW q \in Launchers PROVE ShelterAs(q)'
  <2>1. SUFFICES ASSUME where'[q] # Unborn, Began(q) \notin Units
                 PROVE  /\ where'[q] \notin Units
                        /\ \A r \in Launchers : q \notin job[r].todo
                        /\ job[q].step = "clone" /\ Confined(q) => where'[q] = LeafOf(GroupOf(q, Len(Chain[q])))
                        /\ job[q].step = "done" /\ Confined(q) => InItsLeaf(q)
    <3>1. job' = job /\ box' = box
      BY <1>2
    <3>2. Confined(q)' = Confined(q) /\ InItsLeaf(q)' = InItsLeaf(q) /\ GroupOf(q, Len(Chain[q]))' = GroupOf(q, Len(Chain[q]))
      BY <3>1 DEF Confined, InItsLeaf, GroupOf, Mask
    <3>3. QED
      BY <1>3, <3>1, <3>2 DEF ShelterAs
  <2>2. CASE where[q] # Unborn
    <3>1. /\ where[q] \notin Units
          /\ \A r \in Launchers : q \notin job[r].todo
          /\ job[q].step = "clone" /\ Confined(q) => where[q] = LeafOf(GroupOf(q, Len(Chain[q])))
          /\ job[q].step = "done" /\ Confined(q) => InItsLeaf(q)
      BY <1>1, <2>1, <2>2 DEF ShelterAs
    <3>2. Gone \notin Units
      BY <1>4, UnitType
    <3>3. QED
      BY <1>5, <2>2, <3>1, <3>2
  <2>3. CASE where[q] = Unborn
    <3>1. job[q].step = "start" /\ where'[q] = Began(q)
      BY <1>1, <1>5, <2>1, <2>3 DEF BirthAs, Began, Alive
    <3>2. \A r \in Launchers : q \notin job[r].todo
      BY <1>1, <2>3 DEF BirthAs
    <3>3. QED
      BY <2>1, <3>1, <3>2
  <2>4. QED
    BY <2>2, <2>3
<1>8. NoneBeside' /\ \A q \in Launchers : HuntAs(Made, Homes(q), q, job[q])'
  <2>1. NoneBeside'
    BY <1>1, <1>3 DEF NoneBeside
  <2>2. ASSUME NEW q \in Launchers PROVE HuntAs(Made, Homes(q), q, job[q])'
    <3>1. HuntAs(Made', Homes(q)', q, job'[q])
      BY <1>1, <1>2, <1>3
    <3>2. QED
      BY <3>1 DEF HuntAs, Reach, Leafy, Mask, Homes, Began
  <2>3. QED
    BY <2>1, <2>2
<1>9. QED
  BY <1>2, <1>6, <1>7, <1>8 DEF HierInv

\* HierInv at first.
LEMMA HierInit == Init /\ UnitsApart => HierInv
<1> SUFFICES ASSUME Init, UnitsApart PROVE HierInv
  OBVIOUS
<1>1. BirthInv
  BY BirthInit
<1>2. \A q \in Procs : Alive(q) => /\ where[q] = Start[q] /\ Start[q] \in Path
                                   /\ Placed(q) /\ Start[q] \notin Launchers
  BY CgroupsAssumption DEF Init, Alive, Placed
<1>3. NoneBeside
  <2> SUFFICES ASSUME NEW V \in Units, V # Top, LeafOf(Parent(V)) \in Made PROVE FALSE
    BY DEF NoneBeside
  <2>1. V \in Path /\ Parent(V) \in Path
    BY UnitType, ParentFacts
  <2>2. LeafOf(Parent(V)) # Top
    BY <2>1, LeafFacts
  <2> HIDE DEF LeafOf
  <2>3. PICK q \in Procs : /\ Alive(q)
                           /\ \E i \in 1 .. Len(where[q]) : LeafOf(Parent(V)) = SubSeq(where[q], 1, i)
    BY <2>2 DEF Init, Made
  <2>4. PICK i \in 1 .. Len(Start[q]) : LeafOf(Parent(V)) = SubSeq(Start[q], 1, i)
    BY <1>2, <2>3
  <2>5. i \in 0 .. Len(Start[q])
    BY <1>2, <2>3, <2>4, PathFacts
  <2>6. Under(Start[q], LeafOf(Parent(V)))
    BY <1>2, <2>3, <2>4, <2>5, Beginning
  <2>7. QED
    BY <1>2, <2>3, <2>6 DEF UnitsApart
<1>4. ASSUME NEW p \in Launchers
      PROVE  HuntAs(Made, Homes(p), p, job[p]) /\ HomeAs(p) /\ ShelterAs(p)
  <2>1. job[p].step = "start" /\ job[p].todo = {} /\ p \in Procs
    BY DEF Init, Procs
  <2>2. HuntAs(Made, Homes(p), p, job[p])
    BY <2>1 DEF HuntAs
  <2>3. HomeAs(p)
    <3> SUFFICES ASSUME RootPath = NoPath, Alive(p)
                 PROVE  \E V \in Homes(p) : Reach(Made, V, Stripped(where[p]))
      BY <2>1 DEF HomeAs
    <3>1. Stripped(Start[p]) \in Units /\ Under(Start[p], Stripped(Start[p])) /\ Began(p) = Start[p]
      BY <1>2, <2>1, StrippedFacts DEF Units, Began
    <3>2. Stripped(Start[p]) \in Homes(p)
      BY <3>1 DEF Homes
    <3>3. QED
      BY <1>2, <2>1, <3>2 DEF Reach
  <2>4. ShelterAs(p)
    <3>1. where[p] # Unborn => where[p] = Began(p)
      BY DEF Init, Began, Procs
    <3>2. \A q \in Launchers : job[q].todo = {}
      BY DEF Init
    <3>3. QED
      BY <2>1, <3>1, <3>2 DEF ShelterAs
  <2>5. QED
    BY <2>2, <2>3, <2>4
<1>5. QED
  BY <1>1, <1>3, <1>4 DEF HierInv

HierStill == CgTypes /\ LimitsAs /\ HierInv

\* HierStill is inductive.
LEMMA HierStep == UnitsApart /\ HierStill /\ [Next]_vars => HierStill'
<1> SUFFICES ASSUME UnitsApart, CgTypes, LimitsAs, HierInv, [Next]_vars PROVE HierInv'
  BY CgTypesStep, LimitsStep DEF HierStill
<1>1. CgTypes' /\ Steady
  BY CgTypesStep, SteadyStep
<1>2. CASE UNCHANGED vars
  <2>1. tree' = tree /\ where' = where /\ job' = job /\ box' = box
    BY <1>2 DEF vars
  <2>2. BirthInv' /\ NoneBeside'
    BY <1>1, <2>1, BirthStep DEF HierInv, NoneBeside, Made
  <2>3. Made' = Made /\ \A p : Homes(p)' = Homes(p) /\ Began(p)' = Began(p)
    BY <2>1 DEF Made, Homes, Began
  <2>4. ASSUME NEW p \in Launchers
        PROVE  (HuntAs(Made, Homes(p), p, job[p]) /\ HomeAs(p) /\ ShelterAs(p))'
    <3>1. HuntAs(Made, Homes(p), p, job[p])'
      BY <2>1, <2>3 DEF HierInv, HuntAs, Reach, Leafy, Mask
    <3>2. HomeAs(p)'
      BY <2>1, <2>3 DEF HierInv, HomeAs, Alive, Reach, Leafy
    <3>3. ShelterAs(p)'
      BY <2>1, <2>3 DEF HierInv, ShelterAs, Confined, InItsLeaf, GroupOf, Mask
    <3>4. QED
      BY <3>1, <3>2, <3>3
  <2>5. QED
    BY <2>2, <2>4 DEF HierInv
<1>3. CASE \E p \in Launchers : Launch(p)
  BY <1>1, <1>3, HierLaunch
<1>4. CASE (\E p \in Launchers : Spawn(p)) \/ (\E q \in Procs : Fork(q) \/ End(q))
  BY <1>1, <1>4, HierRest
<1>5. QED
  BY <1>2, <1>3, <1>4 DEF Next

\* Where launchers are in their unit is kept.
THEOREM HierInvCorrect ==
    ASSUME UnitsApart PROVE Spec => []HierInv
<1>1. Init => HierStill
  BY CgTypesInit, LimitsInit, HierInit DEF HierStill
<1>2. HierStill /\ [Next]_vars => HierStill'
  BY HierStep
<1>3. HierStill => HierInv
  BY DEF HierStill
<1>4. QED
  BY <1>1, <1>2, <1>3, PTL DEF Spec

\* Launchers of one unit find one root (find_rednode_root).
THEOREM OneHierarchyCorrect ==
    ASSUME UnitsApart PROVE Spec => []OneHierarchy
<1>1. ASSUME CgTypes, HierInv PROVE OneHierarchy
  <2> SUFFICES ASSUME NEW p \in Launchers, NEW q \in Launchers, Found(p), Found(q),
                      \/ Start[p] = q
                      \/ /\ {Start[p], Start[q]} \cap Launchers = {}
                         /\ Stripped(Start[p]) = Stripped(Start[q])
               PROVE  job[p].root = job[q].root
    BY DEF OneHierarchy
  <2>1. \A r \in {p, q} : job[r].step \notin {"start", "climb"} /\ job[r].root \in Homes(r) /\ BirthAs(r)
    BY <1>1 DEF Found, At, HierInv, HuntAs, BirthInv
  <2>2. CASE RootPath # NoPath
    BY <2>1, <2>2 DEF Homes, Units
  <2>3. CASE RootPath = NoPath /\ Start[p] = q
    <3> DEFINE b == box[q]
               R == job[q].root
    <3>1. /\ job[q].step = "done" /\ b \in Made /\ Made \subseteq Path /\ Began(p) = b
      BY <1>1, <2>1, <2>3 DEF BirthAs, Began, CgTypes, TreeOK
    <3>2. PICK V \in Homes(q) : Reach(Made, V, Stripped(b))
      BY <1>1, <2>3, <3>1 DEF HierInv, HomeAs
    <3>3. where[q] # Unborn /\ R \in Homes(q)
      BY <2>1 DEF BirthAs
    <3>4. Began(q) \in Path
      BY <1>1, <2>1, CgroupsAssumption DEF Began, BirthAs, CgTypes, TreeOK, Procs, HierInv, BirthInv
    <3> HIDE DEF b, R
    <3>5. /\ V \in Units /\ V \in Path /\ R \in Units /\ R \in Path
          /\ Under(Began(q), V) /\ Under(Began(q), R)
      BY <2>3, <3>2, <3>3, HomeIsUnit DEF Homes
    <3>6. V = R
      BY <3>4, <3>5, UnitAlone
    <3>7. b \in Path /\ Stripped(b) \in Path /\ Under(b, Stripped(b))
      BY <3>1, StrippedFacts
    <3>8. Under(b, R)
      BY <3>2, <3>5, <3>6, <3>7, UnderTrans DEF Reach, Leafy
    <3>9. job[p].root \in Units /\ Under(b, job[p].root)
      BY <2>1, <2>3, <3>1 DEF Homes
    <3>10. QED
      BY <3>5, <3>7, <3>8, <3>9, UnitAlone DEF R
  <2>4. CASE RootPath = NoPath /\ {Start[p], Start[q]} \cap Launchers = {}
                               /\ Stripped(Start[p]) = Stripped(Start[q])
    <3> DEFINE V == Stripped(Start[p])
    <3>1. ASSUME NEW r \in {p, q} PROVE job[r].root = V
      <4>1. /\ Start[r] \notin Launchers \cup {Unborn} /\ Start[r] \in Path /\ Began(r) = Start[r]
            /\ r \in Launchers
        BY <2>1, <2>4, CgroupsAssumption DEF BirthAs, Began, Procs
      <4>2. V = Stripped(Start[r]) /\ V \in Units /\ Under(Start[r], V)
        BY <2>4, <4>1, StrippedFacts DEF Units, Placed
      <4>3. job[r].root \in Units /\ Under(Start[r], job[r].root)
        BY <2>1, <2>4, <4>1 DEF Homes
      <4>4. QED
        BY <4>1, <4>2, <4>3, UnitAlone
    <3>2. QED
      BY <3>1
  <2>5. QED
    BY <2>2, <2>3, <2>4
<1>2. Init => HierStill
  BY CgTypesInit, LimitsInit, HierInit DEF HierStill
<1>3. HierStill /\ [Next]_vars => HierStill'
  BY HierStep
<1>4. HierStill => OneHierarchy
  BY <1>1 DEF HierStill
<1>5. QED
  BY <1>2, <1>3, <1>4, PTL DEF Spec

\* The container of a launcher that began elsewhere than in the root group is
\* born in the leaf of its node (enter_leaf_cgroup, moveProcs).
THEOREM ShelteredInLeafCorrect ==
    ASSUME UnitsApart PROVE Spec => []ShelteredInLeaf
<1>1. ASSUME CgTypes, HierInv PROVE ShelteredInLeaf
  <2> SUFFICES ASSUME NEW p \in Launchers, Confined(p), At(p, "done"), Began(p) # job[p].root
               PROVE  InItsLeaf(p)
    BY DEF ShelteredInLeaf
  <2>1. job[p].step = "done" /\ job[p].root \in Homes(p) /\ BirthAs(p) /\ where[p] # Unborn
    BY <1>1 DEF At, Confined, HierInv, HuntAs, BirthInv, BirthAs
  <2>2. Began(p) \in Path
    BY <1>1, <2>1, CgroupsAssumption DEF Began, BirthAs, CgTypes, TreeOK, Procs, HierInv, BirthInv
  <2>3. Began(p) \notin Units
    <3> SUFFICES ASSUME Began(p) \in Units PROVE FALSE
      OBVIOUS
    <3>1. CASE RootPath = NoPath
      <4>1. job[p].root \in Units /\ Under(Began(p), job[p].root) /\ Under(Began(p), Began(p))
        BY <2>1, <2>2, <3>1, UnderSelf DEF Homes
      <4>2. QED
        BY <2>2, <4>1, UnitAlone
    <3>2. CASE RootPath # NoPath
      BY <2>1, <3>2 DEF Homes, Units
    <3>3. QED
      BY <3>1, <3>2
  <2>4. QED
    BY <1>1, <2>1, <2>3 DEF HierInv, ShelterAs
<1>2. Init => HierStill
  BY CgTypesInit, LimitsInit, HierInit DEF HierStill
<1>3. HierStill /\ [Next]_vars => HierStill'
  BY HierStep
<1>4. HierStill => ShelteredInLeaf
  BY <1>1 DEF HierStill
<1>5. QED
  BY <1>2, <1>3, <1>4, PTL DEF Spec

-----------------------------------------------------------------------------
(***************************************************************************)
(* No failure without disturbance.  Processes sit where they are in no     *)
(* launcher's way: not above a unit, and below it only in leaves.          *)
(***************************************************************************)
Seat(g) == \A V \in Units : /\ Under(V, g) => g = V
                            /\ Under(g, V) => g = V \/ g[Len(g)] = PidsLeaf

\* What a machine gives a launcher that runs alone: units that exist, no process
\* in its way when it begins, and no node whose group would be taken for a leaf.
ClearWay ==
    /\ \A V \in Units : V = Top \/ \E q \in Procs : Placed(q) /\ Under(Start[q], V)
    /\ \A q \in Procs : Placed(q) => Seat(Start[q])
    /\ \A n \in Nodes : CgName[n] # PidsLeaf

SeatInv ==
    /\ Units \subseteq Made
    /\ \A q \in Procs : Alive(q) => Seat(where[q])
    /\ \A p \in Launchers : job[p].step = "done" => Seat(box[p])

\* A failure has a reason; the processes of the root while they are moved, and
\* when they have been.
CalmAs(p, j) ==
    /\ j.rc = "fail" => disturbed
    /\ j.step \in {"start", "climb", "rootleaf", "open"} => j.seen = {}
    /\ \A q \in j.todo : where[q] = Gone => disturbed
    /\ j.step \in {"read", "move"} =>
         \/ disturbed
         \/ Members(j.root) \subseteq j.due /\ Members(j.root) \cap j.seen \subseteq j.todo
    /\ j.step \in {"look", "grant"} /\ j.level = 0 => disturbed \/ Members(j.root) = {}

AvailIn(t, g) == IF g = Top THEN Controllers ELSE t[Parent(g)].sub

\* Each request asks, of the group above, for what the one before misses.
AskAs(t, p, j) ==
    /\ j.ask[1] = [at |-> j.cur, mask |-> Expected(p, j.level)]
    /\ \A i \in 1 .. Len(j.ask) : Under(j.cur, j.ask[i].at)
    /\ \A i \in 1 .. Len(j.ask) - 1 :
         /\ j.ask[i].at # Top /\ j.ask[i + 1].at = Parent(j.ask[i].at)
         /\ Len(j.ask[i + 1].at) < Len(j.cur)
         /\ j.ask[i].mask \subseteq j.ask[i + 1].mask \cup AvailIn(t, j.ask[i].at)
    /\ j.step = "grant" => j.ask[Len(j.ask)].mask \subseteq AvailIn(t, j.ask[Len(j.ask)].at)
    /\ j.level > 0 => Len(j.ask) = 1 /\ Expected(p, j.level) \subseteq AvailIn(t, j.cur)

WorkAs(t, p, j) ==
    /\ j.step \in {"look", "grant"} => AskAs(t, p, j)
    /\ j.step = "mknode" => Expected(p, j.level - 1) \subseteq t[j.cur].sub
    /\ j.step \in {"mkleaf", "conf"} => j.cur # Top /\ Expected(p, j.level - 1) \subseteq AvailIn(t, j.cur)

FairInv == SeatInv /\ \A p \in Launchers : CalmAs(p, job[p]) /\ WorkAs(tree, p, job[p])

\* Leaves below a unit are seats.
LEMMA LeafSeat ==
    ASSUME UnitsApart, NEW g \in Path, NEW R \in Units, Under(g, R)
    PROVE  Seat(LeafOf(g))
<1> DEFINE h == LeafOf(g)
<1>1. /\ h \in Path /\ Len(h) = Len(g) + 1 /\ h[Len(g) + 1] = PidsLeaf /\ Under(h, g)
      /\ Len(g) \in Nat /\ R \in Path /\ Len(R) \in Nat /\ Len(R) <= Len(g)
  BY LeafFacts, UnitType, PathFacts DEF Under
<1> HIDE DEF h
<1>2. Under(h, R)
  BY <1>1, UnderTrans
<1>3. h[Len(h)] = PidsLeaf
  BY <1>1
<1>4. ASSUME NEW V \in Units, Under(V, h) PROVE FALSE
  <2>1. V \in Path /\ Len(V) \in Nat
    BY UnitType, PathFacts
  <2>2. Under(V, R)
    BY <1>1, <1>2, <1>4, <2>1, UnderTrans
  <2>3. V = R
    BY <2>2 DEF UnitsApart
  <2>4. Len(h) <= Len(R)
    BY <1>4, <2>3 DEF Under
  <2>5. QED
    BY <1>1, <2>4
<1>5. QED
  BY <1>3, <1>4 DEF Seat, h

\* Where a launcher works.
Working == {"rootleaf", "open", "read", "move", "look", "grant", "mknode", "mkleaf", "conf", "enter"}

\* Where a launcher at work is.
LEMMA Works ==
    ASSUME CgTypes, LimitsAs, HierInv, NEW p \in Launchers, job[p].step \in Working
    PROVE  /\ job[p].root \in Units /\ job[p].root \in Path
           /\ job[p].cur \in Path /\ Under(job[p].cur, job[p].root)
           /\ job[p].step \in {"rootleaf", "open", "read", "move"} => job[p].cur = job[p].root /\ job[p].level = 0
           /\ job[p].step \in {"look", "grant"} /\ job[p].level = 0 => job[p].cur = job[p].root
           /\ job[p].step # "rootleaf" => job[p].cur \in Made
<1> DEFINE o == job[p]
           c == o.cur
           R == o.root
<1>1. /\ o \in Job /\ JobOK(o, p, Made) /\ PlaceAs(p, o) /\ HuntAs(Made, Homes(p), p, o)
      /\ c \in Path /\ R \in Path
  BY JobFacts DEF LimitsAs, HierInv, Job
<1>2. R \in Units
  BY <1>1, HomeIsUnit DEF HuntAs, Working
<1>3. o.step \in {"rootleaf", "open", "read", "move"} => c = R /\ o.level = 0
  BY <1>1 DEF PlaceAs
<1>4. o.step \in {"look", "grant"} /\ o.level = 0 => c = R
  <2> SUFFICES ASSUME o.step \in {"look", "grant"}, o.level = 0 PROVE c = R
    OBVIOUS
  <2>1. c = GroupAt(p, R, 0)
    BY <1>1 DEF PlaceAs
  <2>2. 0 \in 0 .. Len(Chain[p])
    BY JobFacts
  <2>3. /\ c \in Path /\ Len(c) = Len(R) + 0 /\ Len(R) \in Nat
        /\ \A k \in 1 .. Len(R) : c[k] = R[k]
    BY <1>1, <2>1, <2>2, GroupFacts, PathFacts
  <2> HIDE DEF c, R
  <2>4. Len(c) = Len(R)
    BY <2>3
  <2>5. QED
    BY <1>1, <2>3, <2>4, SamePath DEF Under
<1>5. Under(c, R)
  <2>1. CASE o.step \in {"rootleaf", "open", "read", "move"}
    BY <1>1, <1>3, <2>1, UnderSelf
  <2>2. CASE o.step \in {"look", "grant", "mknode", "conf", "enter"}
    BY <1>1, <2>2 DEF HuntAs, Leafy
  <2>3. CASE o.step = "mkleaf"
    <3>1. c # Top /\ Under(Parent(c), R)
      BY <1>1, <2>3 DEF HuntAs, Leafy
    <3>2. Parent(c) \in Path /\ Under(c, Parent(c))
      BY <1>1, <3>1, ParentFacts
    <3> HIDE DEF c, R
    <3>3. QED
      BY <1>1, <3>1, <3>2, UnderTrans
  <2>4. QED
    BY <2>1, <2>2, <2>3 DEF Working
<1>6. o.step # "rootleaf" => c \in Made
  BY <1>1 DEF JobOK, Working
<1>7. QED
  BY <1>1, <1>2, <1>3, <1>4, <1>5, <1>6

\* The groups of nodes are no seats.
LEMMA NodeNoSeat ==
    ASSUME CgTypes, LimitsAs, HierInv, ClearWay, NEW p \in Launchers,
           job[p].step \in {"look", "grant"}, job[p].level > 0
    PROVE  ~Seat(job[p].cur)
<1> DEFINE o == job[p]
           c == o.cur
           R == o.root
           i == o.level
<1>1. /\ R \in Units /\ R \in Path /\ c \in Path /\ Under(c, R)
      /\ o \in Job /\ JobOK(o, p, Made) /\ PlaceAs(p, o)
  BY Works, JobFacts DEF Working, LimitsAs
<1>2. /\ c = GroupAt(p, R, i) /\ i \in 0 .. Len(Chain[p]) /\ i > 0 /\ Len(Chain[p]) \in Nat
      /\ Len(R) \in Nat
  BY <1>1, JobFacts, PathFacts DEF PlaceAs, JobOK
<1> HIDE DEF o, c, R, i
<1>3. /\ Len(c) = Len(R) + i /\ i \in 1 .. Len(Chain[p]) /\ i \in Nat
      /\ c[Len(R) + i] = CgName[Chain[p][i]]
  <2>1. i \in 1 .. Len(Chain[p]) /\ i \in Nat /\ i \in 1 .. i
    BY <1>2
  <2>2. Len(c) = Len(R) + i /\ \A k \in 1 .. i : c[Len(R) + k] = CgName[Chain[p][k]]
    BY <1>1, <1>2, GroupFacts
  <2>3. QED
    BY <2>1, <2>2
<1>4. c # R /\ c[Len(c)] = CgName[Chain[p][i]]
  BY <1>2, <1>3
<1>5. c[Len(c)] # PidsLeaf
  BY <1>3, <1>4, NodeTypes DEF ClearWay
<1>6. QED
  BY <1>1, <1>4, <1>5 DEF Seat, c, o

\* No step of a launcher takes a process into anyone's way.
LEMMA ActsSeat ==
    ASSUME CgTypes, CgTypes', LimitsAs, HierInv, UnitsApart, SeatInv, Made \subseteq Made',
           NEW p \in Launchers, NEW j, Acts(p, j)
    PROVE  /\ SeatInv'
           /\ \A g \in Units : Members(g)' \subseteq Members(g)
<1> DEFINE leaf == LeafOf(job[p].cur)
<1>1. /\ where \in [Procs -> Made \cup {Unborn, Gone}] /\ where' \in [Procs -> Made' \cup {Unborn, Gone}]
      /\ box \in [Launchers -> Made \cup {Unborn, Gone}]
      /\ Launchers \subseteq Procs /\ BirthAs(p)
  BY DEF CgTypes, Procs, HierInv, BirthInv
<1>2. job[p].step \in {"move", "enter"} => Seat(leaf) /\ leaf \notin Units
  <2> SUFFICES ASSUME job[p].step \in {"move", "enter"} PROVE Seat(leaf) /\ leaf \notin Units
    OBVIOUS
  <2>1. job[p].root \in Units /\ job[p].cur \in Path /\ Under(job[p].cur, job[p].root)
    BY Works DEF Working
  <2>2. QED
    BY <2>1, LeafSeat, BelowUnit
<1> HIDE DEF leaf
<1>3. \A q \in Procs : where'[q] = where[q] \/ (where'[q] = leaf /\ job[p].step \in {"move", "enter"})
  BY <1>1 DEF Acts, leaf
<1>4. \A q \in Procs : Alive(q)' => Seat(where'[q])
  <2> SUFFICES ASSUME NEW q \in Procs, Alive(q)' PROVE Seat(where'[q])
    OBVIOUS
  <2>1. CASE where'[q] = where[q]
    BY <2>1 DEF SeatInv, Alive
  <2>2. CASE where'[q] # where[q]
    BY <1>2, <1>3, <2>2
  <2>3. QED
    BY <2>1, <2>2
<1>5. \A q \in Launchers : job'[q].step = "done" => Seat(box'[q])
  <2> SUFFICES ASSUME NEW q \in Launchers, job'[q].step = "done" PROVE Seat(box'[q])
    OBVIOUS
  <2>1. CASE job[q].step = "done" /\ box'[q] = box[q]
    BY <2>1 DEF SeatInv
  <2>2. CASE q = p /\ job[p].step = "clone" /\ box'[q] = where[p]
    <3>1. Alive(p)
      BY <1>1, <2>2 DEF BirthAs, Alive
    <3>2. QED
      BY <1>1, <2>2, <3>1 DEF SeatInv
  <2>3. QED
    BY <1>1, <2>1, <2>2 DEF Acts, Takes
<1>6. SeatInv'
  <2>1. Units \subseteq Made'
    BY DEF SeatInv
  <2>2. QED
    BY <1>4, <1>5, <2>1 DEF SeatInv, Seat
<1>7. \A g \in Units : Members(g)' \subseteq Members(g)
  BY <1>2, <1>3 DEF Members
<1>8. QED
  BY <1>6, <1>7

\* How to show CalmAs of the launcher that acts.
LEMMA CalmHolds ==
    ASSUME NEW p \in Launchers, NEW j, Takes(p, j), UNCHANGED disturbed,
           j.rc = "fail" => disturbed,
           j.step \in {"start", "climb", "rootleaf", "open"} => j.seen = {},
           \A q \in j.todo : where'[q] = Gone => disturbed,
           j.step \in {"read", "move"} =>
             \/ disturbed
             \/ Members(j.root)' \subseteq j.due /\ Members(j.root)' \cap j.seen \subseteq j.todo,
           j.step \in {"look", "grant"} /\ j.level = 0 => disturbed \/ Members(j.root)' = {}
    PROVE  CalmAs(p, job[p])'
<1>1. job'[p] = j /\ disturbed' = disturbed
  BY DEF Takes
<1>2. QED
  BY <1>1 DEF CalmAs, Members

\* The launchers that take no step.
LEMMA CalmStays ==
    ASSUME CgTypes, LimitsAs, HierInv, NEW p \in Launchers, CalmAs(p, job[p]), job'[p] = job[p],
           disturbed => disturbed',
           \A q \in job[p].todo : where'[q] = Gone => where[q] = Gone \/ disturbed',
           job[p].step \in {"read", "move", "look", "grant"} /\ job[p].level = 0 =>
              disturbed' \/ Members(job[p].root)' \subseteq Members(job[p].root)
    PROVE  CalmAs(p, job[p])'
<1> DEFINE o == job[p]
           M == Members(o.root)
           N == Members(o.root)'
<1>1. o.step \in {"read", "move"} => o.level = 0
  BY Works DEF Working
<1>2. /\ o.rc = "fail" => disturbed'
      /\ o.step \in {"start", "climb", "rootleaf", "open"} => o.seen = {}
      /\ \A q \in o.todo : where'[q] = Gone => disturbed'
  BY DEF CalmAs
<1>3. ASSUME o.step \in {"read", "move"}
      PROVE  disturbed' \/ (N \subseteq o.due /\ N \cap o.seen \subseteq o.todo)
  <2>1. disturbed' \/ N \subseteq M
    BY <1>1, <1>3
  <2>2. disturbed \/ (M \subseteq o.due /\ M \cap o.seen \subseteq o.todo)
    BY <1>3 DEF CalmAs
  <2> HIDE DEF M, N, o
  <2>3. QED
    BY <2>1, <2>2
<1>4. ASSUME o.step \in {"look", "grant"}, o.level = 0 PROVE disturbed' \/ N = {}
  <2>1. disturbed' \/ N \subseteq M
    BY <1>4
  <2>2. disturbed \/ M = {}
    BY <1>4 DEF CalmAs
  <2> HIDE DEF M, N, o
  <2>3. QED
    BY <2>1, <2>2
<1>5. N = {q \in Procs : where'[q] = o.root}
  BY DEF Members
<1> HIDE DEF N, M
<1>6. QED
  BY <1>2, <1>3, <1>4, <1>5 DEF CalmAs, Members

FairHyp == CgTypes /\ LimitsAs /\ HierInv /\ FairInv /\ UnitsApart /\ ClearWay

\* What a launcher's own step does to what it relies on: the search for the
\* root and the emptying of it, ...
LEMMA CalmMoves ==
    ASSUME FairHyp, CgTypes', Steady, NEW p \in Launchers,
           \A g \in Units : Members(g)' \subseteq Members(g),
           \/ NothingToSet(p) \/ Begin(p) \/ Climb(p) \/ RootLeaf(p)
           \/ OpenProcs(p) \/ ReadProcs(p) \/ MoveProc(p) \/ AllMoved(p)
    PROVE  CalmAs(p, job[p])'
<1> DEFINE o == job[p]
<1> USE DEF FairHyp
<1>1. BirthAs(p) /\ CalmAs(p, o) /\ SeatInv /\ PlaceAs(p, o) /\ o \in Job
  BY JobFacts DEF HierInv, BirthInv, FairInv, LimitsAs
<1>2. where \in [Procs -> Made \cup {Unborn, Gone}] /\ Made \subseteq Path /\ Gone \notin Path /\ o.todo \subseteq Procs
  BY <1>1, CgroupsAssumption DEF CgTypes, TreeOK, Job
<1>3. o.step \in Working => o.root \in Units /\ o.cur \in Path
                            /\ (o.step \in {"rootleaf", "open", "read", "move"} => o.cur = o.root /\ o.level = 0)
  BY Works
<1>4. CASE NothingToSet(p) \/ Begin(p)
  <2>1. /\ o.step = "start" /\ Still
        /\ \E j : /\ Takes(p, j)
                  /\ j.todo = o.todo \/ j.todo = {}
                  /\ \/ j.step = "clone" /\ j.rc = "ok"
                     \/ j.step = "climb" /\ Goes(o, j)
    BY <1>4, StartDoes
  <2>2. PICK j : /\ Takes(p, j)
                 /\ j.todo = o.todo \/ j.todo = {}
                 /\ \/ j.step = "clone" /\ j.rc = "ok"
                    \/ j.step = "climb" /\ Goes(o, j)
    BY <2>1
  <2>3. o.todo = {} /\ o.seen = {} /\ (o.rc = "fail" => disturbed)
    BY <1>1, <2>1 DEF BirthAs, CalmAs
  <2>4. QED
    BY <2>1, <2>2, <2>3, CalmHolds DEF Still, Goes, Lists
<1>5. CASE Climb(p)
  <2>1. o.step = "climb" /\ Still
    BY <1>5, ClimbDoes
  <2>2. PICK j : Takes(p, j) /\ Goes(o, j) /\ j.step \in {"climb", "rootleaf"}
    BY <1>5, ClimbDoes
  <2>3. o.todo = {} /\ o.seen = {} /\ (o.rc = "fail" => disturbed)
    BY <1>1, <2>1 DEF BirthAs, CalmAs
  <2>4. QED
    BY <2>1, <2>2, <2>3, CalmHolds DEF Still, Goes, Lists
<1>6. CASE RootLeaf(p)
  <2>1. o.step = "rootleaf" /\ Grows
    BY <1>6, RootLeafDoes
  <2>2. o.cur \in Made
    BY <1>1, <1>3, <2>1 DEF Working, SeatInv
  <2>3. PICK j : Takes(p, j) /\ Goes(o, j) /\ j.step = "open"
    BY <1>6, <2>2, RootLeafDoes
  <2>4. o.todo = {} /\ o.seen = {} /\ (o.rc = "fail" => disturbed)
    BY <1>1, <2>1 DEF BirthAs, CalmAs
  <2>5. QED
    BY <2>1, <2>3, <2>4, CalmHolds DEF Grows, Goes, Lists
<1>7. CASE OpenProcs(p)
  <2>1. o.step = "open" /\ Still
    BY <1>7, OpenDoes
  <2>2. PICK j : /\ Takes(p, j) /\ j.step = "read" /\ j.rc = o.rc /\ Rests(o, j)
                 /\ j.due = Members(o.cur) /\ j.seen = o.seen /\ j.todo = o.todo
    BY <1>7, OpenDoes
  <2>3. o.todo = {} /\ o.seen = {} /\ (o.rc = "fail" => disturbed) /\ o.cur = o.root /\ o.root \in Units
    BY <1>1, <1>3, <2>1 DEF BirthAs, CalmAs, Working
  <2>4. j.root = o.root /\ Members(j.root)' \subseteq j.due
    BY <2>2, <2>3 DEF Rests
  <2>5. QED
    BY <2>1, <2>2, <2>3, <2>4, CalmHolds DEF Still
<1>8. CASE ReadProcs(p)
  <2>1. o.step = "read" /\ Still
    BY <1>8, ReadDoes
  <2>2. PICK j : /\ Takes(p, j) /\ j.step = "move" /\ j.rc = o.rc /\ Rests(o, j)
                 /\ j.due = o.due /\ j.todo = Members(o.cur) \ o.seen
                 /\ j.seen = o.seen \cup (Members(o.cur) \ o.seen)
    BY <1>8, ReadDoes
  <2>3. /\ o.todo = {} /\ (o.rc = "fail" => disturbed) /\ o.cur = o.root /\ o.root \in Units
        /\ \/ disturbed
           \/ Members(o.root) \subseteq o.due /\ Members(o.root) \cap o.seen \subseteq o.todo
    BY <1>1, <1>3, <2>1 DEF BirthAs, CalmAs, Working
  <2>4. j.root = o.root /\ Members(j.root)' \subseteq Members(o.cur)
    BY <2>2, <2>3 DEF Rests
  <2>5. \A q \in j.todo : where'[q] # Gone
    BY <1>2, <1>3, <2>1, <2>2 DEF Members, Still, Working
  <2>6. \/ disturbed
        \/ Members(j.root)' \subseteq j.due /\ Members(j.root)' \cap j.seen \subseteq j.todo
    BY <2>2, <2>3, <2>4
  <2>7. QED
    BY <2>1, <2>2, <2>3, <2>5, <2>6, CalmHolds DEF Still
<1>9. CASE MoveProc(p)
  <2>1. o.step = "move" /\ UNCHANGED <<tree, box, disturbed>>
    BY <1>9, MoveDoes
  <2>2. PICK j, q : /\ Takes(p, j) /\ q \in o.todo
                    /\ \/ where[q] = Gone /\ UNCHANGED where /\ Fails(o, j)
                       \/ /\ where[q] # Gone
                          /\ where' = [where EXCEPT ![q] = LeafOf(o.cur)]
                          /\ j.rc = o.rc /\ Rests(o, j)
                          /\ j.due = o.due /\ j.seen = o.seen /\ j.todo = o.todo \ {q}
                          /\ j.step = IF o.todo = {q} THEN "read" ELSE "move"
    BY <1>9, MoveDoes, Zenon
  <2>3. /\ (o.rc = "fail" => disturbed) /\ o.cur = o.root /\ o.root \in Units /\ o.root \in Path
        /\ \A r \in o.todo : where[r] = Gone => disturbed
        /\ \/ disturbed
           \/ Members(o.root) \subseteq o.due /\ Members(o.root) \cap o.seen \subseteq o.todo
    BY <1>1, <1>3, <2>1 DEF CalmAs, Working
  <2>4. CASE where[q] = Gone /\ UNCHANGED where /\ Fails(o, j)
    BY <2>1, <2>2, <2>3, <2>4, CalmHolds DEF Fails
  <2>5. CASE /\ where[q] # Gone
             /\ where' = [where EXCEPT ![q] = LeafOf(o.cur)]
             /\ j.rc = o.rc /\ Rests(o, j)
             /\ j.due = o.due /\ j.seen = o.seen /\ j.todo = o.todo \ {q}
             /\ j.step = IF o.todo = {q} THEN "read" ELSE "move"
    <3>1. LeafOf(o.cur) \notin {Unborn, Gone} /\ LeafOf(o.cur) # o.root
      <4>1. Len(LeafOf(o.root)) = Len(o.root) + 1 /\ Len(o.root) \in Nat
        BY <2>3, LeafFacts, PathFacts
      <4>2. QED
        BY <2>3, <4>1, LeafLives
    <3>2. j.root = o.root /\ Members(j.root)' \subseteq Members(o.root) /\ q \notin Members(j.root)'
      BY <1>2, <2>2, <2>3, <2>5, <3>1 DEF Rests, Members
    <3>3. \A r \in j.todo : where'[r] = Gone => disturbed
      BY <1>2, <2>3, <2>5
    <3>4. \/ disturbed
          \/ Members(j.root)' \subseteq j.due /\ Members(j.root)' \cap j.seen \subseteq j.todo
      BY <2>3, <2>5, <3>2
    <3>5. j.step \in {"read", "move"}
      BY <2>5
    <3>6. QED
      BY <2>1, <2>2, <2>3, <2>5, <3>3, <3>4, <3>5, CalmHolds
  <2>6. QED
    BY <2>2, <2>4, <2>5
<1>10. CASE AllMoved(p)
  <2>1. o.step = "read" /\ Still /\ Members(o.cur) \cap o.due \subseteq o.seen
    BY <1>10, AllMovedDoes
  <2>2. PICK j : Takes(p, j) /\ Looks(p, o, j)
    BY <1>10, AllMovedDoes
  <2>3. /\ o.todo = {} /\ (o.rc = "fail" => disturbed) /\ o.cur = o.root /\ o.root \in Units
        /\ \/ disturbed
           \/ Members(o.root) \subseteq o.due /\ Members(o.root) \cap o.seen \subseteq o.todo
    BY <1>1, <1>3, <2>1 DEF BirthAs, CalmAs, Working
  <2>4. disturbed \/ Members(o.root) = {}
    BY <2>1, <2>3
  <2>5. disturbed \/ Members(j.root)' = {}
    BY <2>2, <2>3, <2>4 DEF Looks, Rests
  <2>6. QED
    BY <2>1, <2>2, <2>3, <2>5, CalmHolds DEF Still, Looks
<1>11. QED
  BY <1>4, <1>5, <1>6, <1>7, <1>8, <1>9, <1>10

\* Why what a launcher asks for is there: its last request is for controllers
\* of the kernel, and nothing is in the group that it asks.
LEMMA AskedClear ==
    ASSUME FairHyp, NEW p \in Launchers, job[p].step \in {"look", "grant"}
    PROVE  /\ Asked(p).at \in Made /\ Asked(p).at \in Path
           /\ Asked(p).mask \subseteq Controllers
           /\ disturbed \/ Members(Asked(p).at) = {}
<1> DEFINE o == job[p]
           n == Len(o.ask)
           g == Asked(p).at
           c == o.cur
<1> USE DEF FairHyp
<1>1. /\ Asked(p) \in [at : Path, mask : SUBSET Controllers]
      /\ g \in Made /\ n \in Nat \ {0}
  BY AskedFacts
<1>2. /\ AskAs(tree, p, o) /\ CalmAs(p, o) /\ SeatInv /\ Asked(p) = o.ask[n]
  BY DEF FairInv, WorkAs, Asked
<1>3. /\ o.root \in Units /\ o.root \in Path /\ c \in Path /\ (o.level = 0 => c = o.root)
      /\ o.level \in Nat
  BY Works, JobFacts DEF Working, Job
<1>4. \A q \in Members(g) : Seat(g)
  <2>1. g \in Path /\ Unborn \notin Path /\ Gone \notin Path
    BY <1>1, CgroupsAssumption
  <2>2. QED
    BY <1>2, <2>1 DEF Members, SeatInv, Alive
<1>5. o.ask[1].at = c /\ Under(c, g)
  BY <1>1, <1>2 DEF AskAs
<1>6. CASE n = 1 /\ o.level = 0
  <2>1. g = o.root
    BY <1>2, <1>3, <1>5, <1>6
  <2>2. disturbed \/ Members(o.root) = {}
    BY <1>2, <1>6 DEF CalmAs
  <2>3. QED
    BY <1>1, <2>1, <2>2
<1>7. CASE o.level > 0
  <2>1. n = 1
    BY <1>2, <1>7 DEF AskAs
  <2>2. g = c /\ ~Seat(c)
    BY <1>2, <1>5, <1>7, <2>1, NodeNoSeat
  <2>3. QED
    BY <1>1, <1>4, <2>2
<1>8. CASE n # 1 /\ o.level = 0
  <2>1. n - 1 \in 1 .. n - 1 /\ (n - 1) + 1 = n
    <3> HIDE DEF n
    <3>1. QED
      BY <1>1, <1>8
  <2>2. Len(g) < Len(c)
    BY <1>2, <2>1 DEF AskAs
  <2>3. Len(g) \in Nat /\ Len(c) \in Nat /\ c \in Units /\ Under(c, g)
    BY <1>1, <1>3, <1>5, <1>8, PathFacts
  <2>4. g # c
    BY <2>2, <2>3
  <2>5. ~Seat(g)
    BY <2>3, <2>4 DEF Seat
  <2>6. QED
    BY <1>1, <1>4, <2>5
<1>9. QED
  BY <1>3, <1>6, <1>7, <1>8

\* What it sets is there.
LEMMA OwnGiven ==
    ASSUME FairHyp, NEW p \in Launchers, job[p].step \in {"mkleaf", "conf"}
    PROVE  Need[Own(p)] \subseteq Avail(job[p].cur)
<1> DEFINE o == job[p]
<1> USE DEF FairHyp
<1>1. WorkAs(tree, p, o) /\ JobOK(o, p, Made) /\ Len(Chain[p]) \in Nat
  BY JobFacts DEF FairInv
<1>2. o.level \in 1 .. Len(Chain[p]) /\ o.level \in (o.level - 1) + 1 .. Len(Chain[p])
  BY <1>1 DEF JobOK
<1>3. Need[Chain[p][o.level]] \subseteq Mask(p, o.level - 1)
  BY <1>2 DEF Mask
<1>4. QED
  BY <1>1, <1>3 DEF WorkAs, Own, Expected, AvailIn, Avail

\* ... and the descent.
LEMMA CalmGoesDown ==
    ASSUME FairHyp, CgTypes', Steady, NEW p \in Launchers,
           \A g \in Units : Members(g)' \subseteq Members(g),
           \/ Look(p) \/ Grant(p) \/ MakeNode(p) \/ MakeLeaf(p) \/ Configure(p)
           \/ EnterLeaf(p) \/ Clone(p)
    PROVE  CalmAs(p, job[p])'
<1> DEFINE o == job[p]
<1> USE DEF FairHyp
<1>0. PICK R : R = o.root
  OBVIOUS
<1>1. BirthAs(p) /\ CalmAs(p, o) /\ PlaceAs(p, o) /\ WorkAs(tree, p, o) /\ o \in Job
  BY JobFacts DEF HierInv, BirthInv, FairInv, LimitsAs
<1>2. o.step # "move" => o.todo = {} /\ (o.rc = "fail" => disturbed)
  BY <1>1 DEF BirthAs, CalmAs
<1>3. o.step \in {"look", "grant"} =>
         /\ o.root \in Units
         /\ o.level = 0 => disturbed \/ Members(R)' = {}
  <2> SUFFICES ASSUME o.step \in {"look", "grant"}
               PROVE  /\ o.root \in Units
                      /\ o.level = 0 => disturbed \/ Members(R)' = {}
    OBVIOUS
  <2>1. o.root \in Units
    BY Works DEF Working
  <2>2. o.level = 0 => disturbed \/ Members(R) = {}
    BY <1>0, <1>1 DEF CalmAs
  <2>3. Members(R)' \subseteq Members(R)
    BY <1>0, <2>1
  <2>4. QED
    BY <2>1, <2>2, <2>3
<1>4. CASE Look(p)
  <2>1. o.step = "look" /\ Still
    BY <1>4, LookDoes
  <2>2. PICK j : /\ Takes(p, j)
                 /\ \/ j.step \in {"look", "grant"} /\ Goes(o, j) /\ Rests(o, j)
                    \/ /\ Asked(p).mask \ Avail(Asked(p).at) # {} /\ Asked(p).at = Top
                       /\ Fails(o, j)
    BY <1>4, LookDoes
  <2>3. Asked(p).mask \subseteq Controllers
    BY <2>1, AskedClear
  <2>4. j.step \in {"look", "grant"} /\ Goes(o, j) /\ Rests(o, j)
    BY <2>2, <2>3 DEF Avail
  <2>5. j.root = o.root /\ j.level = o.level /\ j.todo = {} /\ (j.rc = "fail" => disturbed)
    BY <1>2, <2>1, <2>4 DEF Goes, Lists, Rests
  <2>6. j.level = 0 => disturbed \/ Members(j.root)' = {}
    BY <1>0, <1>3, <2>1, <2>5
  <2>7. QED
    BY <2>1, <2>2, <2>4, <2>5, <2>6, CalmHolds DEF Still
<1>5. CASE Grant(p)
  <2>1. o.step = "grant" /\ Grows
    BY <1>5, GrantDoes
  <2>2. PICK j : /\ Takes(p, j)
                 /\ \/ /\ Goes(o, j) /\ j.root = o.root
                       /\ (j.step = "grant" /\ j.level = o.level) \/ j.step \in {"enter", "mknode"}
                    \/ ~MayEnable(Asked(p).at, Asked(p).mask) /\ Fails(o, j)
    <3>1. PICK j : /\ Takes(p, j)
                   /\ \/ /\ MayEnable(Asked(p).at, Asked(p).mask)
                         /\ tree' = [tree EXCEPT ![Asked(p).at].sub = @ \cup Asked(p).mask]
                         /\ j.ask = Front(p) /\ Goes(job[p], j) /\ j.root = job[p].root /\ j.cur = job[p].cur
                         /\ \/ Front(p) # << >> /\ j.step = "grant" /\ j.level = job[p].level
                            \/ /\ Front(p) = << >> /\ job[p].level = Len(Chain[p])
                               /\ j.step = "enter" /\ j.level = job[p].level
                            \/ /\ Front(p) = << >> /\ job[p].level # Len(Chain[p])
                               /\ j.step = "mknode" /\ j.level = job[p].level + 1
                      \/ /\ ~MayEnable(Asked(p).at, Asked(p).mask)
                         /\ UNCHANGED tree /\ Fails(job[p], j)
      BY <1>5, GrantDoes, Zenon
    <3>2. QED
      BY <3>1
  <2>3. ~MayEnable(Asked(p).at, Asked(p).mask) => disturbed
    <3>1. Asked(p).mask \subseteq Avail(Asked(p).at)
      BY <1>1, <2>1 DEF WorkAs, AskAs, Asked, AvailIn, Avail
    <3>2. QED
      BY <2>1, <3>1, AskedClear DEF MayEnable
  <2>4. CASE Fails(o, j) /\ disturbed
    BY <2>1, <2>2, <2>4, CalmHolds DEF Grows, Fails
  <2>5. CASE Goes(o, j) /\ j.root = o.root /\ ((j.step = "grant" /\ j.level = o.level) \/ j.step \in {"enter", "mknode"})
    <3>1. j.todo = {} /\ (j.rc = "fail" => disturbed)
      BY <1>2, <2>1, <2>5 DEF Goes, Lists
    <3>2. j.step = "grant" /\ j.level = 0 => disturbed \/ Members(j.root)' = {}
      BY <1>0, <1>3, <2>1, <2>5
    <3>3. QED
      BY <2>1, <2>2, <2>5, <3>1, <3>2, CalmHolds DEF Grows
  <2>6. QED
    BY <2>2, <2>3, <2>4, <2>5
<1>6. CASE MakeNode(p) \/ MakeLeaf(p)
  <2>1. Grows /\ o.step \in {"mknode", "mkleaf"}
    BY <1>6, MakeDoes
  <2>2. PICK j : Takes(p, j) /\ Goes(o, j) /\ j.step \in {"mkleaf", "conf"}
    BY <1>6, MakeDoes
  <2>3. QED
    BY <1>2, <2>1, <2>2, CalmHolds DEF Grows, Goes, Lists
<1>7. CASE Configure(p)
  <2>1. o.step = "conf" /\ Grows
    BY <1>7, ConfigureDoes
  <2>2. Need[Own(p)] \subseteq Avail(o.cur)
    BY <2>1, OwnGiven
  <2>3. PICK j : Takes(p, j) /\ Looks(p, o, j)
    BY <1>7, <2>2, ConfigureDoes
  <2>4. j.level > 0 /\ j.level \in Nat
    BY <1>1, <2>1, <2>3 DEF PlaceAs, Looks, Rests, Job
  <2>5. j.level # 0
    BY <2>4
  <2>6. QED
    BY <1>2, <2>1, <2>3, <2>5, CalmHolds DEF Grows, Looks
<1>8. CASE EnterLeaf(p) \/ Clone(p)
  <2>1. UNCHANGED disturbed /\ o.step \in {"enter", "clone"}
    BY <1>8, EndDoes
  <2>2. PICK j : /\ Takes(p, j)
                 /\ \/ j.step = "clone" /\ j.rc = "ok" /\ j.todo = {}
                    \/ j.step = "done" /\ Goes(o, j)
    BY <1>8, EndDoes
  <2>3. QED
    BY <1>2, <2>1, <2>2, CalmHolds DEF Goes, Lists
<1>9. QED
  BY <1>4, <1>5, <1>6, <1>7, <1>8

-----------------------------------------------------------------------------
\* Controllers that a group has are not taken away.
LEMMA AvailMore ==
    ASSUME CgTypes, Steady, NEW g \in Made
    PROVE  AvailIn(tree, g) \subseteq AvailIn(tree', g)
<1>1. g # Top => Parent(g) \in Made
  BY DEF CgTypes, TreeOK
<1>2. QED
  BY <1>1 DEF AvailIn, Steady

\* Requests of others are not disturbed,
LEMMA AskStays ==
    ASSUME CgTypes, Steady, NEW p \in Launchers, job[p].step \in {"look", "grant"}, AskAs(tree, p, job[p])
    PROVE  AskAs(tree', p, job[p])
<1> DEFINE o == job[p]
           n == Len(o.ask)
<1>1. o \in Job /\ JobOK(o, p, Made)
  BY JobFacts
<1>2. o.cur \in Made /\ n \in Nat \ {0} /\ \A i \in 1 .. n : o.ask[i].at \in Made
  BY <1>1, AskedFacts DEF JobOK
<1>3. \A i \in 1 .. n : AvailIn(tree, o.ask[i].at) \subseteq AvailIn(tree', o.ask[i].at)
  BY <1>2, AvailMore
<1>4. AvailIn(tree, o.cur) \subseteq AvailIn(tree', o.cur)
  BY <1>2, AvailMore
<1>5. /\ o.ask[1] = [at |-> o.cur, mask |-> Expected(p, o.level)]
      /\ \A i \in 1 .. n : Under(o.cur, o.ask[i].at)
      /\ \A i \in 1 .. n - 1 : /\ o.ask[i].at # Top /\ o.ask[i + 1].at = Parent(o.ask[i].at)
                               /\ Len(o.ask[i + 1].at) < Len(o.cur)
                               /\ o.ask[i].mask \subseteq o.ask[i + 1].mask \cup AvailIn(tree, o.ask[i].at)
      /\ o.step = "grant" => o.ask[n].mask \subseteq AvailIn(tree, o.ask[n].at)
      /\ o.level > 0 => n = 1 /\ Expected(p, o.level) \subseteq AvailIn(tree, o.cur)
  BY DEF AskAs
<1>6. \A i \in 1 .. n - 1 : i \in 1 .. n
  <2> HIDE DEF n
  <2>1. QED
    BY <1>2
<1>7. n \in 1 .. n
  <2> HIDE DEF n
  <2>1. QED
    BY <1>2
<1>8. /\ \A i \in 1 .. n - 1 : /\ o.ask[i].at # Top /\ o.ask[i + 1].at = Parent(o.ask[i].at)
                               /\ Len(o.ask[i + 1].at) < Len(o.cur)
                               /\ o.ask[i].mask \subseteq o.ask[i + 1].mask \cup AvailIn(tree', o.ask[i].at)
      /\ o.step = "grant" => o.ask[n].mask \subseteq AvailIn(tree', o.ask[n].at)
      /\ o.level > 0 => n = 1 /\ Expected(p, o.level) \subseteq AvailIn(tree', o.cur)
  <2> HIDE DEF n, o
  <2>1. QED
    BY <1>3, <1>4, <1>5, <1>6, <1>7
<1>9. QED
  BY <1>5, <1>8 DEF AskAs

\* The first request.
LEMMA LooksAsk ==
    ASSUME CgTypes, NEW t, NEW p \in Launchers, NEW j, Looks(p, job[p], j),
           job[p].level > 0 => Expected(p, job[p].level) \subseteq AvailIn(t, job[p].cur)
    PROVE  AskAs(t, p, j) /\ j.step = "look"
<1> DEFINE o == job[p]
           r == [at |-> o.cur, mask |-> Expected(p, o.level)]
<1>1. j.step = "look" /\ j.cur = o.cur /\ j.level = o.level /\ j.ask = <<r>>
  BY DEF Looks, Rests
<1>2. o.cur \in Path
  BY JobFacts DEF Job
<1> HIDE DEF r
<1>3. Len(j.ask) = 1 /\ j.ask[1] = r /\ 1 .. Len(j.ask) - 1 = {} /\ 1 .. Len(j.ask) = {1}
  BY <1>1
<1>4. r.at = o.cur /\ r = [at |-> j.cur, mask |-> Expected(p, j.level)]
  BY <1>1 DEF r
<1>5. Under(j.cur, r.at)
  BY <1>1, <1>2, <1>4, UnderSelf
<1>6. QED
  BY <1>1, <1>3, <1>4, <1>5 DEF AskAs

\* nor is what they rest on.
LEMMA WorkStays ==
    ASSUME CgTypes, Steady, NEW p \in Launchers, WorkAs(tree, p, job[p]), job'[p] = job[p]
    PROVE  WorkAs(tree', p, job'[p])
<1> DEFINE o == job[p]
<1>1. JobOK(o, p, Made)
  BY JobFacts
<1>2. o.step \in {"look", "grant"} => AskAs(tree', p, o)
  BY AskStays DEF WorkAs
<1>3. o.step = "mknode" => Expected(p, o.level - 1) \subseteq tree'[o.cur].sub
  BY <1>1 DEF WorkAs, JobOK, Steady
<1>4. o.step \in {"mkleaf", "conf"} => o.cur # Top /\ Expected(p, o.level - 1) \subseteq AvailIn(tree', o.cur)
  BY <1>1, AvailMore DEF WorkAs, JobOK
<1>5. QED
  BY <1>2, <1>3, <1>4 DEF WorkAs

\* A request to the group above.
LEMMA AskDeeper ==
    ASSUME FairHyp, NEW p \in Launchers, job[p].step = "look", Asked(p).at # Top,
           Asked(p).mask \ Avail(Asked(p).at) # {},
           NEW j, j.step = "look", j.ask = Deeper(p), j.cur = job[p].cur, j.level = job[p].level
    PROVE  AskAs(tree, p, j)
<1> DEFINE o == job[p]
           ask == o.ask
           n == Len(ask)
           g == ask[n].at
           mask == ask[n].mask
           new == [at |-> Parent(g), mask |-> mask \ Avail(g)]
           deep == Append(ask, new)
           c == o.cur
           S == [at : Path, mask : SUBSET Controllers]
<1> USE DEF FairHyp
<1>1. /\ ask \in Seq(S) /\ n \in Nat \ {0} /\ g \in Path /\ c \in Path /\ o.level \in Nat
      /\ ask[n] \in S
  BY AskedFacts, JobFacts DEF Job, Asked
<1>2. /\ ask[1] = [at |-> c, mask |-> Expected(p, o.level)]
      /\ \A i \in 1 .. n : Under(c, ask[i].at)
      /\ \A i \in 1 .. n - 1 : /\ ask[i].at # Top /\ ask[i + 1].at = Parent(ask[i].at)
                               /\ Len(ask[i + 1].at) < Len(c)
                               /\ ask[i].mask \subseteq ask[i + 1].mask \cup AvailIn(tree, ask[i].at)
      /\ o.level > 0 => n = 1 /\ Expected(p, o.level) \subseteq AvailIn(tree, c)
  BY DEF FairInv, WorkAs, AskAs
<1>3. j.ask = deep /\ g # Top /\ mask \ AvailIn(tree, g) # {}
  BY DEF Deeper, Asked, AvailIn, Avail
<1>4. o.level = 0
  <2> SUFFICES ASSUME o.level # 0 PROVE FALSE
    OBVIOUS
  <2>1. o.level > 0
    BY <1>1
  <2>2. n = 1 /\ g = c /\ mask = Expected(p, o.level)
    BY <1>2, <2>1
  <2>3. QED
    BY <1>2, <1>3, <2>1, <2>2
<1>5. /\ Parent(g) \in Path /\ Under(g, Parent(g)) /\ Len(Parent(g)) = Len(g) - 1 /\ Len(g) \in Nat /\ Len(c) \in Nat
  BY <1>1, <1>3, ParentFacts, PathFacts
<1>6. n \in 1 .. n
  <2> HIDE DEF n
  <2>1. QED
    BY <1>1
<1>7. Under(c, g) /\ Under(c, Parent(g)) /\ Len(Parent(g)) < Len(c)
  <2>1. Under(c, g)
    BY <1>2, <1>6
  <2> HIDE DEF c, g
  <2>2. Under(c, Parent(g))
    BY <1>1, <1>5, <2>1, UnderTrans
  <2>3. Len(g) <= Len(c)
    BY <2>1 DEF Under
  <2>4. QED
    BY <1>5, <2>1, <2>2, <2>3
<1>8. new \in S
  BY <1>1, <1>5
<1> HIDE DEF new, S
<1>9. /\ Len(deep) = n + 1 /\ deep[n + 1] = new /\ \A i \in 1 .. n : deep[i] = ask[i]
  <2> HIDE DEF ask
  <2>1. QED
    BY <1>1, <1>8
<1>10. new.at = Parent(g) /\ new.mask = mask \ AvailIn(tree, g)
  BY DEF new, AvailIn, Avail
<1> HIDE DEF deep, g, mask
<1>11. deep[1] = [at |-> c, mask |-> Expected(p, o.level)]
  <2>1. 1 \in 1 .. n
    <3> HIDE DEF n
    <3>1. QED
      BY <1>1
  <2>2. QED
    BY <1>2, <1>9, <2>1
<1>12. \A i \in 1 .. Len(deep) : Under(c, deep[i].at)
  <2> SUFFICES ASSUME NEW i \in 1 .. Len(deep) PROVE Under(c, deep[i].at)
    OBVIOUS
  <2>1. i \in 1 .. n \/ i = n + 1
    <3> HIDE DEF n
    <3>1. QED
      BY <1>1, <1>9
  <2>2. QED
    BY <1>2, <1>7, <1>9, <1>10, <2>1
<1>13. ASSUME NEW i \in 1 .. Len(deep) - 1
       PROVE  /\ deep[i].at # Top /\ deep[i + 1].at = Parent(deep[i].at)
              /\ Len(deep[i + 1].at) < Len(c)
              /\ deep[i].mask \subseteq deep[i + 1].mask \cup AvailIn(tree, deep[i].at)
  <2>1. i \in 1 .. n /\ (i = n \/ (i \in 1 .. n - 1 /\ i + 1 \in 1 .. n))
    <3> HIDE DEF n
    <3>1. QED
      BY <1>1, <1>9
  <2>2. CASE i = n
    <3>1. deep[i] = ask[n] /\ deep[i + 1] = new
      BY <1>9, <2>1, <2>2
    <3>2. deep[i].at = g /\ deep[i].mask = mask
      BY <3>1 DEF g, mask
    <3>3. mask \subseteq (mask \ AvailIn(tree, g)) \cup AvailIn(tree, g)
      OBVIOUS
    <3>4. QED
      BY <1>3, <1>7, <1>10, <3>1, <3>2, <3>3
  <2>3. CASE i \in 1 .. n - 1 /\ i + 1 \in 1 .. n
    <3>1. deep[i] = ask[i] /\ deep[i + 1] = ask[i + 1]
      BY <1>9, <2>1, <2>3
    <3>2. QED
      BY <1>2, <2>3, <3>1
  <2>4. QED
    BY <2>1, <2>2, <2>3
<1>14. ~(j.level > 0) /\ j.step # "grant"
  BY <1>4
<1>15. j.cur = c /\ j.level = o.level
  OBVIOUS
<1> HIDE DEF c, o
<1>16. QED
  BY <1>3, <1>11, <1>12, <1>13, <1>14, <1>15 DEF AskAs

\* The return to who asked.
LEMMA AskFront ==
    ASSUME FairHyp, NEW p \in Launchers, job[p].step = "grant", AskAs(tree', p, job[p]), Front(p) # << >>,
           tree' = [tree EXCEPT ![Asked(p).at].sub = @ \cup Asked(p).mask],
           NEW j, j.step = "grant", j.ask = Front(p), j.cur = job[p].cur, j.level = job[p].level
    PROVE  AskAs(tree', p, j)
<1> DEFINE o == job[p]
           ask == o.ask
           n == Len(ask)
           m == n - 1
           front == Front(p)
           c == o.cur
           S == [at : Path, mask : SUBSET Controllers]
<1> USE DEF FairHyp
<1>1. /\ ask \in Seq(S) /\ n \in Nat \ {0} /\ ask[n].at \in Made
      /\ tree \in [Made -> Group] /\ Made = DOMAIN tree
  BY AskedFacts DEF Asked, CgTypes, TreeOK, Made
<1>2. /\ ask[1] = [at |-> c, mask |-> Expected(p, o.level)]
      /\ \A i \in 1 .. n : Under(c, ask[i].at)
      /\ \A i \in 1 .. n - 1 : /\ ask[i].at # Top /\ ask[i + 1].at = Parent(ask[i].at)
                               /\ Len(ask[i + 1].at) < Len(c)
                               /\ ask[i].mask \subseteq ask[i + 1].mask \cup AvailIn(tree', ask[i].at)
      /\ o.level > 0 => n = 1 /\ Expected(p, o.level) \subseteq AvailIn(tree', c)
  BY DEF AskAs
<1>3. tree'[ask[n].at].sub = tree[ask[n].at].sub \cup ask[n].mask
  BY <1>1 DEF Asked, Group
<1>4. /\ m \in Nat /\ n = m + 1
  <2> HIDE DEF n
  <2>1. QED
    BY <1>1
<1>5. /\ front \in Seq(S) /\ Len(front) = m /\ \A i \in 1 .. m : front[i] = ask[i]
  <2>1. Len(ask) = m + 1
    BY <1>4
  <2> HIDE DEF m, ask, S, n
  <2>2. /\ SubSeq(ask, 1, Len(ask) - 1) \in Seq(S)
        /\ Len(SubSeq(ask, 1, Len(ask) - 1)) = m
        /\ \A i \in 1 .. m : SubSeq(ask, 1, Len(ask) - 1)[i] = ask[i]
    BY <1>1, <1>4, <2>1, FrontAsked
  <2>3. QED
    BY <2>2 DEF Front, ask
<1> HIDE DEF front, n, m, S
<1>6. m \in Nat \ {0}
  <2>1. Len(front) \in Nat \ {0}
    BY <1>5, EmptySeq DEF front
  <2>2. QED
    BY <1>5, <2>1
<1>7. /\ 1 \in 1 .. m /\ m \in 1 .. m /\ m \in 1 .. n - 1 /\ m + 1 = n
      /\ \A i \in 1 .. m : i \in 1 .. n /\ i \in 1 .. n - 1
      /\ \A i \in 1 .. m - 1 : i \in 1 .. m /\ i + 1 \in 1 .. m
  BY <1>4, <1>6
<1>8. front[m].mask \subseteq AvailIn(tree', front[m].at)
  <2>1. front[m] = ask[m] /\ ask[m].at # Top /\ ask[n].at = Parent(ask[m].at)
        /\ ask[m].mask \subseteq ask[n].mask \cup AvailIn(tree', ask[m].at)
    BY <1>2, <1>5, <1>7
  <2>2. AvailIn(tree', ask[m].at) = tree[ask[n].at].sub \cup ask[n].mask
    BY <1>3, <2>1 DEF AvailIn
  <2>3. QED
    BY <2>1, <2>2
<1>9. ~(o.level > 0)
  <2>1. n # 1
    BY <1>4, <1>6
  <2>2. QED
    BY <1>2, <2>1
<1>10. front[1] = [at |-> c, mask |-> Expected(p, o.level)]
  BY <1>2, <1>5, <1>7
<1>11. \A i \in 1 .. m : Under(c, front[i].at)
  BY <1>2, <1>5, <1>7
<1>12. \A i \in 1 .. m - 1 :
         /\ front[i].at # Top /\ front[i + 1].at = Parent(front[i].at)
         /\ Len(front[i + 1].at) < Len(c)
         /\ front[i].mask \subseteq front[i + 1].mask \cup AvailIn(tree', front[i].at)
  BY <1>2, <1>5, <1>7
<1>13. j.ask = front /\ j.cur = c /\ j.level = o.level
  BY DEF front
<1> HIDE DEF c, o, ask
<1>14. QED
  BY <1>5, <1>8, <1>9, <1>10, <1>11, <1>12, <1>13 DEF AskAs

\* WorkAs of the launcher that acts.
LEMMA WorkOwn ==
    ASSUME FairHyp, CgTypes', Steady, NEW p \in Launchers, Launch(p)
    PROVE  WorkAs(tree', p, job'[p])
<1> DEFINE o == job[p]
           c == o.cur
<1> USE DEF FairHyp
<1>1. /\ WorkAs(tree, p, o) /\ PlaceAs(p, o) /\ o \in Job /\ JobOK(o, p, Made) /\ c \in Path /\ o.level \in Nat
      /\ Len(Chain[p]) \in Nat
  BY JobFacts DEF FairInv, LimitsAs, Job
<1>2. o.step \in {"look", "grant"} => AskAs(tree', p, o)
  BY <1>1, AskStays DEF WorkAs
<1>3. ASSUME NEW j, Takes(p, j), j.step \notin {"look", "grant", "mknode", "mkleaf", "conf"}
      PROVE  WorkAs(tree', p, job'[p])
  BY <1>3 DEF Takes, WorkAs
<1>4. CASE NothingToSet(p) \/ Begin(p)
  <2>1. PICK j : Takes(p, j) /\ j.step \in {"clone", "climb"}
    BY <1>4, StartDoes
  <2>2. QED
    BY <1>3, <2>1
<1>5. CASE Climb(p)
  <2>1. PICK j : Takes(p, j) /\ j.step \in {"climb", "rootleaf"}
    BY <1>5, ClimbDoes
  <2>2. QED
    BY <1>3, <2>1
<1>6. CASE RootLeaf(p)
  <2>1. PICK j : Takes(p, j) /\ j.step \in {"open", "clone"}
    BY <1>6, RootLeafDoes DEF Fails
  <2>2. QED
    BY <1>3, <2>1
<1>7. CASE OpenProcs(p)
  <2>1. PICK j : Takes(p, j) /\ j.step = "read"
    BY <1>7, OpenDoes
  <2>2. QED
    BY <1>3, <2>1
<1>8. CASE ReadProcs(p)
  <2>1. PICK j : Takes(p, j) /\ j.step = "move"
    BY <1>8, ReadDoes
  <2>2. QED
    BY <1>3, <2>1
<1>9. CASE MoveProc(p)
  <2>1. PICK j : Takes(p, j) /\ j.step \in {"clone", "read", "move"}
    BY <1>9, MoveDoes DEF Fails
  <2>2. QED
    BY <1>3, <2>1
<1>10. CASE AllMoved(p)
  <2>1. o.step = "read"
    BY <1>10, AllMovedDoes
  <2>2. PICK j : Takes(p, j) /\ Looks(p, o, j)
    BY <1>10, AllMovedDoes
  <2>3. ~(o.level > 0)
    BY <1>1, <2>1 DEF PlaceAs
  <2>4. AskAs(tree', p, j) /\ j.step = "look"
    BY <2>2, <2>3, LooksAsk
  <2>5. QED
    BY <2>2, <2>4 DEF Takes, WorkAs
<1>11. CASE Look(p)
  <2>1. o.step = "look" /\ Still /\ AskAs(tree, p, o) /\ AskAs(tree', p, o)
    BY <1>1, <1>2, <1>11, LookDoes DEF WorkAs
  <2>2. PICK j : /\ Takes(p, j)
                 /\ \/ /\ Asked(p).mask \ Avail(Asked(p).at) = {}
                       /\ j.step = "grant" /\ j.ask = o.ask /\ Rests(o, j)
                    \/ /\ Asked(p).mask \ Avail(Asked(p).at) # {} /\ Asked(p).at # Top
                       /\ j.step = "look" /\ j.ask = Deeper(p) /\ Rests(o, j)
                    \/ j.step = "clone"
    BY <1>11, LookDoes DEF Fails
  <2>3. CASE /\ Asked(p).mask \ Avail(Asked(p).at) = {}
             /\ j.step = "grant" /\ j.ask = o.ask /\ Rests(o, j)
    <3>1. j.ask[Len(j.ask)].mask \subseteq AvailIn(tree', j.ask[Len(j.ask)].at)
      BY <2>1, <2>3 DEF Asked, Avail, AvailIn, Still
    <3>2. AskAs(tree', p, j)
      BY <2>1, <2>3, <3>1 DEF AskAs, Rests
    <3>3. QED
      BY <2>2, <2>3, <3>2 DEF Takes, WorkAs
  <2>4. CASE /\ Asked(p).mask \ Avail(Asked(p).at) # {} /\ Asked(p).at # Top
             /\ j.step = "look" /\ j.ask = Deeper(p) /\ Rests(o, j)
    <3>1. AskAs(tree, p, j)
      BY <2>1, <2>4, AskDeeper DEF Rests
    <3>2. AskAs(tree', p, j)
      BY <2>1, <3>1 DEF Still
    <3>3. QED
      BY <2>2, <2>4, <3>2 DEF Takes, WorkAs
  <2>5. QED
    BY <1>3, <2>2, <2>3, <2>4
<1>12. CASE Grant(p)
  <2>1. o.step = "grant" /\ AskAs(tree', p, o)
    BY <1>2, <1>12, GrantDoes
  <2>2. PICK j : /\ Takes(p, j)
                 /\ \/ /\ MayEnable(Asked(p).at, Asked(p).mask)
                       /\ tree' = [tree EXCEPT ![Asked(p).at].sub = @ \cup Asked(p).mask]
                       /\ j.ask = Front(p) /\ Goes(job[p], j) /\ j.root = job[p].root /\ j.cur = job[p].cur
                       /\ \/ Front(p) # << >> /\ j.step = "grant" /\ j.level = job[p].level
                          \/ /\ Front(p) = << >> /\ job[p].level = Len(Chain[p])
                             /\ j.step = "enter" /\ j.level = job[p].level
                          \/ /\ Front(p) = << >> /\ job[p].level # Len(Chain[p])
                             /\ j.step = "mknode" /\ j.level = job[p].level + 1
                    \/ /\ ~MayEnable(Asked(p).at, Asked(p).mask)
                       /\ UNCHANGED tree /\ Fails(job[p], j)
    BY <1>12, GrantDoes, Zenon
  <2>3. CASE /\ tree' = [tree EXCEPT ![Asked(p).at].sub = @ \cup Asked(p).mask]
             /\ j.ask = Front(p) /\ j.cur = c
             /\ Front(p) # << >> /\ j.step = "grant" /\ j.level = o.level
    <3>1. AskAs(tree', p, j)
      BY <2>1, <2>3, AskFront
    <3>2. QED
      BY <2>2, <2>3, <3>1 DEF Takes, WorkAs
  <2>4. CASE /\ tree' = [tree EXCEPT ![Asked(p).at].sub = @ \cup Asked(p).mask]
             /\ j.cur = c /\ Front(p) = << >> /\ j.step = "mknode" /\ j.level = o.level + 1
    <3> DEFINE S == [at : Path, mask : SUBSET Controllers]
               ask == o.ask
               n == Len(ask)
    <3>1. ask \in Seq(S) /\ n \in Nat \ {0}
      BY <2>1, AskedFacts
    <3>2. n = 1
      <4> SUFFICES ASSUME n # 1 PROVE FALSE
        OBVIOUS
      <4>1. PICK m \in Nat : m = n - 1
        <5> HIDE DEF n
        <5>1. QED
          BY <3>1
      <4>2. m # 0 /\ Len(ask) = m + 1
        <5> HIDE DEF ask
        <5>1. QED
          BY <3>1, <4>1
      <4> HIDE DEF ask, S
      <4>3. Len(SubSeq(ask, 1, Len(ask) - 1)) = m
        BY <3>1, <4>2, FrontAsked
      <4>4. Len(<< >>) = m
        BY <2>4, <4>3 DEF Front, ask
      <4>5. QED
        BY <4>2, <4>4
    <3>3. Asked(p).at = c /\ Asked(p).mask = Expected(p, o.level)
      BY <2>1, <3>2 DEF AskAs, Asked
    <3>4. c \in Made /\ tree \in [Made -> Group]
      BY <2>1, AskedFacts DEF CgTypes, TreeOK
    <3>5. Expected(p, o.level) \subseteq tree'[c].sub
      BY <2>4, <3>3, <3>4 DEF Group
    <3>6. j.level - 1 = o.level
      BY <1>1, <2>4
    <3>7. Expected(p, j.level - 1) \subseteq tree'[j.cur].sub
      BY <2>4, <3>5, <3>6
    <3>8. QED
      BY <2>2, <2>4, <3>7 DEF Takes, WorkAs
  <2>5. CASE j.step \in {"enter", "clone"}
    BY <1>3, <2>2, <2>5
  <2>6. QED
    BY <2>2, <2>3, <2>4, <2>5 DEF Fails
<1>13. CASE MakeNode(p) \/ MakeLeaf(p)
  <2>1. PICK j : /\ Takes(p, j) /\ j.level = o.level
                 /\ \/ /\ o.step = "mknode" /\ j.step = "mkleaf"
                       /\ j.cur = Append(c, CgName[Own(p)])
                    \/ o.step = "mkleaf" /\ j.step = "conf" /\ j.cur = c
    BY <1>13, MakeDoes
  <2>2. c \in Made \/ o.step \notin {"mknode", "mkleaf"}
    BY <1>1 DEF JobOK
  <2>3. CASE o.step = "mknode" /\ j.step = "mkleaf" /\ j.cur = Append(c, CgName[Own(p)])
    <3>1. o.level \in 1 .. Len(Chain[p])
      BY <1>1, <2>3 DEF JobOK
    <3>2. CgName[Own(p)] \in STRING
      BY <3>1, NodeTypes DEF Own
    <3>3. j.cur # Top /\ Parent(j.cur) = c
      <4> HIDE DEF c, o
      <4>1. QED
        BY <1>1, <2>3, <3>2, AppendPath
    <3>4. Expected(p, o.level - 1) \subseteq tree[c].sub
      BY <1>1, <2>3 DEF WorkAs
    <3>5. Expected(p, j.level - 1) \subseteq AvailIn(tree', j.cur)
      BY <2>1, <2>2, <2>3, <3>3, <3>4 DEF AvailIn, Steady
    <3>6. QED
      BY <2>1, <2>3, <3>3, <3>5 DEF Takes, WorkAs
  <2>4. CASE o.step = "mkleaf" /\ j.step = "conf" /\ j.cur = c
    <3>1. c # Top /\ Expected(p, o.level - 1) \subseteq AvailIn(tree, c)
      BY <1>1, <2>4 DEF WorkAs
    <3>2. AvailIn(tree, c) \subseteq AvailIn(tree', c)
      BY <2>2, <2>4, AvailMore
    <3>3. j.cur # Top /\ Expected(p, j.level - 1) \subseteq AvailIn(tree', j.cur)
      BY <2>1, <2>4, <3>1, <3>2
    <3>4. QED
      BY <2>1, <2>4, <3>3 DEF Takes, WorkAs
  <2>5. QED
    BY <2>1, <2>3, <2>4
<1>14. CASE Configure(p)
  <2>1. o.step = "conf"
    BY <1>14, ConfigureDoes
  <2>2. PICK j : Takes(p, j) /\ Looks(p, o, j)
    BY <1>14, <2>1, OwnGiven, ConfigureDoes
  <2>3. c # Top /\ Expected(p, o.level - 1) \subseteq AvailIn(tree, c) /\ c \in Made
    BY <1>1, <2>1 DEF WorkAs, JobOK
  <2>4. AvailIn(tree, c) \subseteq AvailIn(tree', c)
    BY <2>3, AvailMore
  <2>5. Expected(p, o.level) \subseteq Expected(p, o.level - 1)
    <3>1. \A i \in o.level + 1 .. Len(Chain[p]) : i \in (o.level - 1) + 1 .. Len(Chain[p])
      <4> HIDE DEF o
      <4>1. QED
        BY <1>1
    <3>2. Mask(p, o.level) \subseteq Mask(p, o.level - 1)
      BY <3>1 DEF Mask
    <3>3. QED
      BY <3>2 DEF Expected
  <2>6. AskAs(tree', p, j) /\ j.step = "look"
    BY <2>2, <2>3, <2>4, <2>5, LooksAsk
  <2>7. QED
    BY <2>2, <2>6 DEF Takes, WorkAs
<1>15. CASE EnterLeaf(p) \/ Clone(p)
  <2>1. PICK j : Takes(p, j) /\ j.step \in {"clone", "done"}
    BY <1>15, EndDoes
  <2>2. QED
    BY <1>3, <2>1
<1>16. QED
  BY <1>4, <1>5, <1>6, <1>7, <1>8, <1>9, <1>10, <1>11, <1>12, <1>13, <1>14, <1>15 DEF Launch

-----------------------------------------------------------------------------
\* FairInv through an action of a launcher,
LEMMA FairLaunch ==
    ASSUME FairHyp, CgTypes', Steady, NEW p \in Launchers, Launch(p)
    PROVE  FairInv'
<1> USE DEF FairHyp
<1>1. PICK j : Acts(p, j)
  BY LaunchActs
<1>2. SeatInv' /\ \A g \in Units : Members(g)' \subseteq Members(g)
  BY <1>1, ActsSeat DEF FairInv, Steady
<1>3. /\ \A q \in Procs : where'[q] = Gone <=> where[q] = Gone
      /\ UNCHANGED disturbed
  BY <1>1, ActsBirth DEF HierInv, Acts
<1>4. ASSUME NEW q \in Launchers PROVE CalmAs(q, job[q])'
  <2>1. CASE q = p
    BY <1>2, <2>1, CalmMoves, CalmGoesDown DEF Launch
  <2>2. CASE q # p
    <3>1. job'[q] = job[q] /\ CalmAs(q, job[q]) /\ job[q].todo \subseteq Procs
      BY <1>1, <2>2, JobFacts DEF Acts, Takes, FairInv, Job
    <3>2. \A r \in job[q].todo : where'[r] = Gone => where[r] = Gone
      BY <1>3, <3>1
    <3>3. job[q].step \in {"read", "move", "look", "grant"} => Members(job[q].root)' \subseteq Members(job[q].root)
      <4> SUFFICES ASSUME job[q].step \in {"read", "move", "look", "grant"}
                   PROVE  Members(job[q].root)' \subseteq Members(job[q].root)
        OBVIOUS
      <4>1. job[q].root \in Units
        BY Works DEF Working
      <4>2. PICK R : R = job[q].root
        OBVIOUS
      <4>3. Members(R)' \subseteq Members(R)
        BY <1>2, <4>1, <4>2
      <4>4. Members(job[q].root)' = Members(R)'
        BY <3>1, <4>2 DEF Members
      <4>5. QED
        BY <4>2, <4>3, <4>4
    <3>4. QED
      BY <1>3, <3>1, <3>2, <3>3, CalmStays
  <2>3. QED
    BY <2>1, <2>2
<1>5. ASSUME NEW q \in Launchers PROVE WorkAs(tree, q, job[q])'
  <2>1. WorkAs(tree', q, job'[q])
    <3>1. CASE q = p
      BY <3>1, WorkOwn
    <3>2. CASE q # p
      BY <1>1, <3>2, WorkStays DEF Acts, Takes, FairInv
    <3>3. QED
      BY <3>1, <3>2
  <2>2. QED
    BY <2>1 DEF WorkAs, AskAs, AvailIn, Expected, Mask
<1>6. QED
  BY <1>2, <1>4, <1>5 DEF FairInv

\* through births and ends of processes,
LEMMA FairRest ==
    ASSUME FairHyp, CgTypes', \/ \E p \in Launchers : Spawn(p)
                              \/ \E q \in Procs : Fork(q) \/ End(q)
    PROVE  FairInv'
<1> USE DEF FairHyp
<1>1. /\ where \in [Procs -> Made \cup {Unborn, Gone}] /\ Made \subseteq Path /\ Launchers \subseteq Procs
      /\ Unborn # Gone /\ Gone \notin Path /\ Unborn \notin Path
      /\ SeatInv /\ BirthInv
  BY CgroupsAssumption DEF CgTypes, TreeOK, Procs, FairInv, HierInv
<1>2. \/ \E q \in Procs, g \in Made : Born(q, g) /\ Seat(g)
      \/ \E q \in Procs : End(q)
  <2>1. CASE \E p \in Launchers : Spawn(p)
    <3>1. PICK p \in Launchers : Spawn(p)
      BY <2>1
    <3>2. Start[p] \in Launchers /\ job[Start[p]].step = "done" /\ Born(p, box[Start[p]])
      BY <3>1 DEF Spawn, At
    <3>3. box[Start[p]] \in Made /\ Seat(box[Start[p]])
      BY <1>1, <3>2 DEF BirthInv, BirthAs, SeatInv
    <3>4. QED
      BY <1>1, <3>2, <3>3
  <2>2. CASE \E q \in Procs : Fork(q)
    <3>1. PICK q \in Procs, r \in Procs : Alive(r) /\ Born(q, where[r])
      BY <2>2 DEF Fork
    <3>2. where[r] \in Made /\ Seat(where[r])
      BY <1>1, <3>1 DEF SeatInv, Alive
    <3>3. QED
      BY <3>1, <3>2
  <2>3. QED
    BY <2>1, <2>2
<1>3. UNCHANGED <<tree, job, box>> /\ (disturbed => disturbed')
  BY <1>2 DEF Born, End
<1>4. /\ \A q \in Procs : where'[q] = where[q] \/ where'[q] = Gone \/ (where'[q] \in Made /\ Seat(where'[q]))
      /\ \A p \in Launchers : \A q \in job[p].todo : where'[q] = Gone => where[q] = Gone \/ disturbed'
      /\ \A p \in Launchers : /\ job[p].step \in {"read", "move", "look", "grant"}
                              /\ job[p].level = 0
                              => disturbed' \/ \A q \in Procs : where'[q] = job[p].root => where[q] = job[p].root
  <2>1. CASE \E q \in Procs, g \in Made : Born(q, g) /\ Seat(g)
    <3>1. PICK q \in Procs, g \in Made : Born(q, g) /\ Seat(g)
      BY <2>1
    <3>2. /\ where' = [where EXCEPT ![q] = g] /\ g \in Path /\ g # Gone
          /\ disturbed' = (disturbed \/ \E p \in Launchers :
                             /\ job[p].step \in {"read", "move", "look", "grant"}
                             /\ job[p].level = 0 /\ job[p].root = g)
      BY <1>1, <3>1 DEF Born
    <3>3. \A r \in Procs : where'[r] = IF r = q THEN g ELSE where[r]
      BY <1>1, <3>2
    <3>4. \A p \in Launchers : job[p].todo \subseteq Procs
      BY JobFacts DEF Job
    <3>5. \A p \in Launchers : /\ job[p].step \in {"read", "move", "look", "grant"}
                               /\ job[p].level = 0 /\ job[p].root = g
                               => disturbed'
      BY <3>2, Zenon
    <3>6. QED
      BY <3>1, <3>2, <3>3, <3>4, <3>5
  <2>2. CASE \E q \in Procs : End(q)
    <3>1. PICK q \in Procs : End(q)
      BY <2>2
    <3>2. /\ where' = [where EXCEPT ![q] = Gone]
          /\ disturbed' = (disturbed \/ \E p \in Launchers : q \in job[p].todo)
      BY <3>1 DEF End
    <3>3. \A r \in Procs : where'[r] = IF r = q THEN Gone ELSE where[r]
      BY <1>1, <3>2
    <3>4. \A p \in Launchers : job[p].todo \subseteq Procs /\ job[p].root \in Path
      BY JobFacts DEF Job
    <3>5. \A p \in Launchers : q \in job[p].todo => disturbed'
      BY <3>2, Zenon
    <3>6. QED
      BY <1>1, <3>3, <3>4, <3>5
  <2>3. QED
    BY <1>2, <2>1, <2>2
<1>5. SeatInv'
  <2>1. \A q \in Procs : Alive(q)' => Seat(where'[q])
    BY <1>1, <1>4 DEF SeatInv, Alive
  <2>2. Units \subseteq Made' /\ \A p \in Launchers : job'[p].step = "done" => Seat(box'[p])
    BY <1>1, <1>3 DEF SeatInv, Made
  <2>3. QED
    BY <2>1, <2>2 DEF SeatInv, Seat
<1>6. ASSUME NEW p \in Launchers PROVE CalmAs(p, job[p])'
  <2>1. job'[p] = job[p] /\ CalmAs(p, job[p])
    BY <1>3 DEF FairInv
  <2>2. job[p].step \in {"read", "move", "look", "grant"} /\ job[p].level = 0 =>
          disturbed' \/ Members(job[p].root)' \subseteq Members(job[p].root)
    BY <1>4, <2>1 DEF Members
  <2>3. QED
    BY <1>3, <1>4, <2>1, <2>2, CalmStays
<1>7. ASSUME NEW p \in Launchers PROVE WorkAs(tree, p, job[p])'
  <2>1. WorkAs(tree', p, job'[p])
    BY <1>3 DEF FairInv
  <2>2. QED
    BY <2>1 DEF WorkAs, AskAs, AvailIn, Expected, Mask
<1>8. QED
  BY <1>5, <1>6, <1>7 DEF FairInv

\* and at first.
LEMMA FairInit == Init /\ ClearWay => FairInv
<1> SUFFICES ASSUME Init, ClearWay PROVE FairInv
  OBVIOUS
<1>1. \A q \in Procs : Alive(q) => where[q] = Start[q] /\ Placed(q)
  BY DEF Init, Alive, Placed
<1>2. \A q \in Procs : Placed(q) => where[q] = Start[q] /\ Start[q] \in Path /\ Alive(q)
  BY CgroupsAssumption DEF Init, Alive, Placed
<1>3. ASSUME NEW V \in Units PROVE V \in Made
  <2>1. CASE V = Top
    BY <2>1 DEF Init, Made
  <2>2. CASE V # Top
    <3>1. PICK q \in Procs : Placed(q) /\ Under(Start[q], V)
      BY <2>2 DEF ClearWay
    <3>2. V \in Path /\ Len(V) \in Nat /\ Len(V) # 0
      BY <2>2, UnitType, PathFacts
    <3>3. V = SubSeq(where[q], 1, Len(V)) /\ Len(V) \in 0 .. Len(where[q])
      BY <1>2, <3>1, <3>2, UnderBegins
    <3>4. Len(V) \in 1 .. Len(where[q])
      BY <3>2, <3>3
    <3>5. Alive(q)
      BY <1>2, <3>1
    <3>6. V \in {SubSeq(where[q], 1, i) : i \in 1 .. Len(where[q])}
      BY <3>3, <3>4
    <3>7. QED
      BY <3>5, <3>6 DEF Init, Made
  <2>3. QED
    BY <2>1, <2>2
<1>4. SeatInv
  <2>1. \A p \in Launchers : job[p].step = "start"
    BY DEF Init
  <2>2. QED
    BY <1>1, <1>3, <2>1 DEF SeatInv, ClearWay
<1>5. ASSUME NEW p \in Launchers PROVE CalmAs(p, job[p]) /\ WorkAs(tree, p, job[p])
  <2>1. job[p].step = "start" /\ job[p].rc = "none" /\ job[p].seen = {} /\ job[p].todo = {}
    BY DEF Init
  <2>2. QED
    BY <2>1 DEF CalmAs, WorkAs
<1>6. QED
  BY <1>4, <1>5 DEF FairInv

\* Launchers do not make each other fail (set_cgroups).
THEOREM FailsOnlyIfDisturbedCorrect ==
    ASSUME UnitsApart, ClearWay PROVE Spec => []FailsOnlyIfDisturbed
<1> DEFINE All == HierStill /\ FairInv
<1>1. Init => All
  BY CgTypesInit, LimitsInit, HierInit, FairInit DEF HierStill
<1>2. All /\ [Next]_vars => All'
  <2> SUFFICES ASSUME HierStill, FairInv, [Next]_vars PROVE FairInv'
    BY HierStep
  <2>1. FairHyp /\ CgTypes' /\ Steady
    BY CgTypesStep, SteadyStep DEF FairHyp, HierStill
  <2>2. CASE UNCHANGED vars
    <3>1. tree' = tree /\ where' = where /\ job' = job /\ box' = box /\ disturbed' = disturbed
      BY <2>2 DEF vars
    <3>2. SeatInv'
      BY <3>1 DEF FairInv, SeatInv, Alive, Made, Seat
    <3>3. ASSUME NEW p \in Launchers PROVE (CalmAs(p, job[p]) /\ WorkAs(tree, p, job[p]))'
      <4>1. CalmAs(p, job[p])'
        BY <3>1 DEF FairInv, CalmAs, Members
      <4>2. WorkAs(tree', p, job'[p])
        BY <3>1 DEF FairInv
      <4>3. WorkAs(tree, p, job[p])'
        BY <4>2 DEF WorkAs, AskAs, AvailIn, Expected, Mask
      <4>4. QED
        BY <4>1, <4>3
    <3>4. QED
      BY <3>2, <3>3 DEF FairInv
  <2>3. CASE \E p \in Launchers : Launch(p)
    BY <2>1, <2>3, FairLaunch
  <2>4. CASE (\E p \in Launchers : Spawn(p)) \/ (\E q \in Procs : Fork(q) \/ End(q))
    BY <2>1, <2>4, FairRest
  <2>5. QED
    BY <2>2, <2>3, <2>4 DEF Next
<1>3. All => FailsOnlyIfDisturbed
  BY DEF FairInv, CalmAs, FailsOnlyIfDisturbed
<1>4. QED
  BY <1>1, <1>2, <1>3, PTL DEF Spec
=============================================================================
