----------------------------- MODULE Exports_proofs -----------------------------
(***************************************************************************)
(* Proofs about the exports: whatever the family and the tree of the host, *)
(* redwrap merges them as MixWalk does, mounts only directories that       *)
(* exist, and gives away those that it has made and no other.              *)
(***************************************************************************)
EXTENDS Exports, MixWalk_proofs, FiniteSetTheorems

(* What the exports do to the merge is a step of the merge.                *)
LEMMA MergeStep == [ExportsNext]_<<vars, exportVars>> => [Next]_vars
BY DEF ExportsNext, Walk, HandExport, LookDir, LookFile, LookNot, LosePath, Climb, Make, SetUp,
   AddMount, OthersMake, Next, vars

(* redwrap merges the exports as MixWalk does, so that the merge keeps its *)
(* promise whatever is made of what it hands over.                         *)
THEOREM ExportsMerge == ExportsSpec => Spec
<1>1. ExportsInit => Init
  BY DEF ExportsInit
<1>2. QED
  BY <1>1, MergeStep, PTL DEF ExportsSpec, Spec

(* What the merge promises holds beside the making of mounts               *)
(* (set_exports_and_vars).                                                 *)
THEOREM ExportsKeepPromise == ExportsSpec => KeepsPromise
BY ExportsMerge, Refinement

(* The export being looked at stays the same until the next is handed over. *)
LEMMA SameExport ==
  ASSUME UNCHANGED vars
  PROVE  /\ sent' = sent /\ rc' = rc /\ conf' = conf
         /\ Export' = Export /\ Path' = Path
BY DEF vars, Export, Path, PathOf

(* It is a definition, and has a path on the host.                         *)
LEMMA ExportType ==
  ASSUME TypeOK, sent # <<>>
  PROVE  Export \in Def /\ Path \in Hosts
<1>1. Export \in Def
  BY DEF TypeOK, Export
<1>2. QED
  BY <1>1, ExportsAssumption DEF Def, Path, PathOf

(* A directory is put before those below it.                               *)
LEMMA Prepend ==
  ASSUME NEW S, NEW s \in Seq(S), NEW e \in S
  PROVE  /\ <<e>> \o s \in Seq(S)
         /\ Len(<<e>> \o s) = Len(s) + 1
         /\ (<<e>> \o s)[1] = e
         /\ \A i \in 2..(Len(s) + 1) : (<<e>> \o s)[i] = s[i - 1]
OBVIOUS

(* Each action is begun and ended at stages of its own.                    *)
LEMMA StageSteps ==
  /\ LookDir => /\ stage = "look" /\ stage' \in {"add", "idle", "climb"}
                /\ UNCHANGED <<vars, option, there, root, made, owned, disturbed, argVars>>
  /\ LookFile \/ LookNot => /\ stage = "look" /\ stage' \in {"add", "idle"} /\ Export.mode \notin Dirs
                            /\ UNCHANGED <<vars, option, hostVars, argVars>>
  /\ LosePath => /\ stage = "look" /\ stage' \in {"idle", "killed"} /\ disturbed'
                 /\ UNCHANGED <<vars, option, there, chain, count, root, made, owned, mounts, args>>
  /\ Climb => /\ stage = "climb" /\ stage' \in {"climb", "make", "idle"}
              /\ UNCHANGED <<vars, option, there, made, owned, argVars>>
  /\ Make => /\ stage = "make" /\ stage' \in {"make", "setup", "idle"}
             /\ UNCHANGED <<vars, option, chain, root, owned, argVars>>
  /\ SetUp => /\ stage = "setup" /\ stage' \in {"setup", "add"}
              /\ UNCHANGED <<vars, option, there, chain, root, made, disturbed, argVars>>
  /\ AddMount => /\ stage = "add" /\ stage' \in {"idle", "exited"}
                 /\ UNCHANGED <<vars, option, hostVars>>
  /\ Walk => /\ stage = "idle" /\ UNCHANGED exportVars
  /\ HandExport => /\ stage = "idle" /\ stage' = "look" /\ rc' = "send"
                   /\ UNCHANGED <<option, hostVars, argVars>>
<1> USE DEF Goto, LeaveOut, FailOutside
<1>1. LookDir => /\ stage = "look" /\ stage' \in {"add", "idle", "climb"}
                 /\ UNCHANGED <<vars, option, there, root, made, owned, disturbed, argVars>>
  BY DEF LookDir
<1>2. LookFile \/ LookNot =>
        /\ stage = "look" /\ stage' \in {"add", "idle"} /\ Export.mode \notin Dirs
        /\ UNCHANGED <<vars, option, hostVars, argVars>>
  BY ExportsAssumption DEF LookFile, LookNot
<1>3. LosePath =>
        /\ stage = "look" /\ stage' \in {"idle", "killed"} /\ disturbed'
        /\ UNCHANGED <<vars, option, there, chain, count, root, made, owned, mounts, args>>
  BY DEF LosePath
<1>4. Climb => /\ stage = "climb" /\ stage' \in {"climb", "make", "idle"}
               /\ UNCHANGED <<vars, option, there, made, owned, argVars>>
  BY DEF Climb
<1>5. Make => /\ stage = "make" /\ stage' \in {"make", "setup", "idle"}
              /\ UNCHANGED <<vars, option, chain, root, owned, argVars>>
  BY DEF Make
<1>6. SetUp => /\ stage = "setup" /\ stage' \in {"setup", "add"}
               /\ UNCHANGED <<vars, option, there, chain, root, made, disturbed, argVars>>
  BY DEF SetUp
<1>7. AddMount => /\ stage = "add" /\ stage' \in {"idle", "exited"}
                  /\ UNCHANGED <<vars, option, hostVars>>
  BY DEF AddMount
<1>8. Walk => /\ stage = "idle" /\ UNCHANGED exportVars
  BY DEF Walk
<1>9. HandExport => /\ stage = "idle" /\ stage' = "look" /\ rc' = "send"
                    /\ UNCHANGED <<option, hostVars, argVars>>
  BY DEF HandExport
<1>10. QED
  BY <1>1, <1>2, <1>3, <1>4, <1>5, <1>6, <1>7, <1>8, <1>9


(* The variables keep their types, the count of arguments included.        *)
LEMMA ExportsTypeStep ==
  ASSUME TypeOK, ExportsTypeOK, ExportInv, ChainInv, MadeInv, ExportsNext
  PROVE  ExportsTypeOK'
<1> USE StageSteps DEF ExportsTypeOK, hostVars, argVars
<1>1. CASE Walk
  BY <1>1 DEF exportVars
<1>2. CASE HandExport \/ LookFile \/ LookNot \/ LosePath
  <2>1. cut' \in BOOLEAN /\ disturbed' \in BOOLEAN
    BY <1>2 DEF LosePath
  <2>2. QED
    BY <1>2, <2>1
<1>3. CASE LookDir
  <2>1. Path \in Hosts
    BY <1>3, ExportType DEF ExportInv
  <2>2. chain' \in Seq(Hosts) /\ count' \in 0..Len(chain')
    <3>1. CASE chain' = chain /\ count' = count
      BY <3>1
    <3>2. CASE chain' = <<Path>> /\ count' = 0
      BY <1>3, <2>1, <3>2
    <3>3. QED
      BY <1>3, <3>1, <3>2 DEF LookDir
  <2>3. QED
    BY <1>3, <2>2
<1>4. CASE Climb
  <2>1. chain # <<>> /\ Len(chain) > 0 /\ chain[1] \in Hosts /\ Above[chain[1]] \in Hosts \cup {Slash}
    BY <1>4, ExportsAssumption DEF ChainInv, Makes
  <2>2. chain' \in Seq(Hosts) /\ count' \in 0..Len(chain') /\ root' \in Hosts \cup {Slash}
    <3>1. CASE chain' = chain
      BY <1>4, <2>1, <3>1 DEF Climb
    <3>2. CASE /\ chain' = <<Above[chain[1]]>> \o chain /\ Above[chain[1]] # Slash
               /\ count' = count /\ root' = root
      BY <2>1, <3>2, Prepend
    <3>3. QED
      BY <1>4, <3>1, <3>2, Zenon DEF Climb
  <2>3. disturbed' \in BOOLEAN
    BY <1>4 DEF Climb, FailOutside
  <2>4. QED
    BY <1>4, <2>2, <2>3
<1>5. CASE Make
  <2>1. count < Len(chain) /\ chain[count + 1] \in Hosts
    BY <1>5 DEF MadeInv
  <2>2. there' \subseteq Hosts /\ made' \subseteq Hosts
    BY <1>5, <2>1 DEF Make
  <2>3. count' = count \/ count' = count + 1
    BY <1>5 DEF Make
  <2>4. disturbed' \in BOOLEAN
    BY <1>5 DEF Make, FailOutside
  <2>5. QED
    BY <1>5, <2>1, <2>2, <2>3, <2>4
<1>6. CASE SetUp
  <2>1. count \in 1..Len(chain) /\ chain[count] \in Hosts
    BY <1>6 DEF MadeInv
  <2>2. owned' \subseteq Hosts /\ count' \in 0..Len(chain)
    BY <1>6, <2>1 DEF SetUp
  <2>3. QED
    BY <1>6, <2>2
<1>7. CASE AddMount
  <2>1. Export \in Def
    BY <1>7, ExportType DEF ExportInv
  <2>2. args' \in 1..MaxArgs
    BY <1>7, ExportsAssumption DEF AddMount, TooMany
  <2>3. mounts' = mounts \/ mounts' = Append(mounts, Export)
    BY <1>7 DEF AddMount
  <2>4. cut' = cut
    BY <1>7 DEF AddMount
  <2>5. QED
    BY <1>7, <2>1, <2>2, <2>3, <2>4
<1>8. CASE OthersMake
  BY <1>8 DEF OthersMake
<1>9. QED
  BY <1>1, <1>2, <1>3, <1>4, <1>5, <1>6, <1>7, <1>8 DEF ExportsNext

(* ExportInv and the first part of ChainInv and MadeInv, where no chain is *)
(* changed: what others make, or the merge does, takes nothing away.       *)
LEMMA NoChainStep ==
  ASSUME TypeOK, ExportsTypeOK, ExportInv, ChainInv, MadeInv,
         Walk \/ HandExport \/ LookFile \/ LookNot \/ LosePath \/ AddMount
  PROVE  ExportInv' /\ ChainInv' /\ MadeInv'
<1> USE StageSteps DEF hostVars, argVars
<1>1. /\ there' = there /\ made' = made /\ owned' = owned /\ chain' = chain
      /\ count' = count /\ root' = root /\ option' = option
      /\ disturbed => disturbed'
      /\ stage' \notin {"climb", "make", "setup"} /\ stage \notin {"climb", "make", "setup"}
  BY DEF exportVars, LosePath
<1>2. ChainInv' /\ MadeInv'
  BY <1>1 DEF ChainInv, MadeInv, Makes
<1>3. ExportInv'
  <2>1. CASE Walk
    BY <2>1 DEF exportVars, ExportInv
  <2>2. CASE HandExport
    <3>1. sent' # <<>>
      BY <2>2 DEF HandExport, Send, TypeOK
    <3>2. QED
      BY <2>2, <3>1 DEF ExportInv
  <2>3. CASE LookFile \/ LookNot \/ LosePath \/ AddMount
    BY <2>3, SameExport DEF ExportInv, LosePath
  <2>4. QED
    BY <2>1, <2>2, <2>3
<1>4. QED
  BY <1>2, <1>3

(* The same through the look at a directory, where a chain may begin.      *)
LEMMA LookDirStep ==
  ASSUME TypeOK, ExportsTypeOK, ExportInv, ChainInv, MadeInv, LookDir
  PROVE  ExportInv' /\ ChainInv' /\ MadeInv'
<1> USE StageSteps, SameExport DEF argVars
<1>1. stage = "look" /\ Export.mode \in Dirs
  BY DEF LookDir
<1>2. \/ stage' = "add" /\ chain' = chain /\ (Path \in there \/ option = "dump")
      \/ stage' = "idle" /\ chain' = chain
      \/ stage' = "climb" /\ chain' = <<Path>> /\ Path \notin there /\ option = "lenient"
  BY DEF LookDir, Goto, LeaveOut
<1>3. ExportInv'
  BY <1>2 DEF ExportInv
<1>4. ChainInv'
  BY <1>1, <1>2 DEF ChainInv, Makes
<1>5. MadeInv'
  BY <1>1, <1>2 DEF MadeInv
<1>6. QED
  BY <1>3, <1>4, <1>5

(* The same through what others make.                                      *)
LEMMA OthersStep ==
  ASSUME TypeOK, ExportsTypeOK, ExportInv, ChainInv, MadeInv, OthersMake
  PROVE  ExportInv' /\ ChainInv' /\ MadeInv'
<1>1. /\ UNCHANGED <<vars, option, stage, chain, count, root, made, owned>>
      /\ there \subseteq there' /\ disturbed'
  BY DEF OthersMake
<1>2. Export' = Export /\ Path' = Path /\ sent' = sent /\ rc' = rc
  BY <1>1, SameExport
<1>3. QED
  BY <1>1, <1>2 DEF ExportInv, ChainInv, MadeInv, Makes

(* The same on the way up: the chain grows at its upper end.               *)
LEMMA ClimbStep ==
  ASSUME TypeOK, ExportsTypeOK, ExportInv, ChainInv, MadeInv, Climb
  PROVE  ExportInv' /\ ChainInv' /\ MadeInv'
<1> USE StageSteps, SameExport DEF argVars
<1> DEFINE up == Above[chain[1]]
<1>1. /\ stage = "climb" /\ sent # <<>> /\ option = "lenient" /\ Export.mode \in Dirs
      /\ chain # <<>> /\ chain[Len(chain)] = Path
      /\ \A i \in 2..Len(chain) : Above[chain[i]] = chain[i - 1]
      /\ made \ owned = {}  \/ disturbed
  BY DEF ChainInv, Makes, ExportInv, MadeInv
<1>2. chain \in Seq(Hosts) /\ Len(chain) \in Nat \ {0} /\ up \in Hosts \cup {Slash}
  BY <1>1, ExportsAssumption DEF ExportsTypeOK
<1>3. CASE /\ up = Slash \/ up \in there
           /\ root' = up /\ count' = 0 /\ stage' = "make"
           /\ UNCHANGED <<chain, disturbed>>
  BY <1>1, <1>2, <1>3 DEF ExportInv, ChainInv, MadeInv, Makes
<1>4. CASE /\ up # Slash /\ up \notin there
           /\ chain' = <<up>> \o chain
           /\ UNCHANGED <<stage, root, count, disturbed>>
  <2>1. /\ Len(chain') = Len(chain) + 1 /\ chain'[1] = up
        /\ \A i \in 2..(Len(chain) + 1) : chain'[i] = chain[i - 1]
    BY <1>2, <1>4, Prepend
  <2>2. \A i \in 2..Len(chain') : Above[chain'[i]] = chain'[i - 1]
    <3>1. TAKE i \in 2..Len(chain')
    <3>2. CASE i = 2
      BY <1>2, <2>1, <3>2
    <3>3. CASE i # 2
      <4>1. i - 1 \in 2..Len(chain) /\ chain'[i] = chain[i - 1] /\ chain'[i - 1] = chain[i - 2]
        BY <1>2, <2>1, <3>3
      <4>2. QED
        BY <1>1, <1>2, <4>1
    <3>4. QED
      BY <3>2, <3>3
  <2>3. chain' # <<>> /\ chain'[Len(chain')] = Path
    BY <1>1, <1>2, <2>1
  <2>4. ~ disturbed => \A i \in 1..Len(chain') : chain'[i] \notin there
    BY <1>1, <1>2, <1>4, <2>1 DEF MadeInv
  <2>5. QED
    BY <1>1, <1>4, <2>2, <2>3, <2>4 DEF ExportInv, ChainInv, MadeInv, Makes
<1>5. CASE stage' = "idle" /\ disturbed' /\ UNCHANGED <<chain, root, count>>
  BY <1>1, <1>5 DEF ExportInv, ChainInv, MadeInv, Makes
<1>6. QED
  BY <1>3, <1>4, <1>5 DEF Climb, Goto, LeaveOut, FailOutside

(* The length of each path of the host, which grows along a chain.         *)
Length ==
  CHOOSE length \in [Hosts -> 1..Cardinality(Hosts)] :
    \A p \in Hosts : Above[p] # Slash => length[Above[p]] < length[p]

(* Directories are longer than the one above.                              *)
LEMMA LengthGrows ==
  /\ \A p \in Hosts : Length[p] \in Nat
  /\ \A p \in Hosts : Above[p] # Slash => Length[Above[p]] < Length[p]
<1>1. /\ Length \in [Hosts -> 1..Cardinality(Hosts)]
      /\ \A p \in Hosts : Above[p] # Slash => Length[Above[p]] < Length[p]
  BY ExportsAssumption DEF Length
<1>2. Cardinality(Hosts) \in Nat
  BY ExportsAssumption, FS_CardinalityType
<1>3. QED
  BY <1>1, <1>2

LengthInv ==
  Makes => \A i, j \in 1..Len(chain) : i < j => Length[chain[i]] < Length[chain[j]]

(* LengthInv through any step.                                             *)
LEMMA LengthStep ==
  ASSUME TypeOK, ExportsTypeOK, ExportInv, ChainInv, LengthInv, ExportsNext
  PROVE  LengthInv'
<1> USE StageSteps DEF hostVars, argVars
<1>1. CASE Makes /\ Makes' /\ chain' = chain
  BY <1>1 DEF LengthInv
<1>2. CASE LookDir
  <2>1. Makes' => chain' = <<Path>>
    BY <1>2 DEF Makes, LookDir, Goto, LeaveOut
  <2>2. Makes' => \A i, j \in 1..Len(chain') : ~ (i < j)
    BY <2>1
  <2>3. QED
    BY <2>2 DEF LengthInv
<1>3. CASE Climb /\ chain' # chain
  <2> DEFINE up == Above[chain[1]]
  <2>1. chain # <<>> /\ chain \in Seq(Hosts) /\ Makes
    BY <1>3 DEF ChainInv, Makes, ExportsTypeOK
  <2>2. chain' = <<up>> \o chain /\ up # Slash
    BY <1>3 DEF Climb
  <2>3. up \in Hosts /\ chain[1] \in Hosts
    BY <2>1, <2>2, ExportsAssumption
  <2>4. /\ Len(chain') = Len(chain) + 1 /\ chain'[1] = up
        /\ \A i \in 2..(Len(chain) + 1) : chain'[i] = chain[i - 1]
    BY <2>1, <2>2, <2>3, Prepend
  <2>5. ASSUME NEW i \in 1..Len(chain'), NEW j \in 1..Len(chain'), i < j
        PROVE  Length[chain'[i]] < Length[chain'[j]]
    <3>1. chain'[j] = chain[j - 1] /\ j - 1 \in 1..Len(chain)
      BY <2>1, <2>4, <2>5
    <3>2. CASE i = 1
      <4>1. Length[up] < Length[chain[1]]
        BY <2>2, <2>3, LengthGrows
      <4>2. j - 1 = 1 \/ Length[chain[1]] < Length[chain[j - 1]]
        BY <2>1, <3>1 DEF LengthInv
      <4>3. Length[up] \in Nat /\ Length[chain[1]] \in Nat /\ Length[chain[j - 1]] \in Nat
        BY <2>1, <2>3, <3>1, LengthGrows
      <4>4. QED
        BY <2>4, <3>1, <3>2, <4>1, <4>2, <4>3
    <3>3. CASE i # 1
      <4>1. chain'[i] = chain[i - 1] /\ i - 1 \in 1..Len(chain) /\ i - 1 < j - 1
        BY <2>1, <2>4, <2>5, <3>3
      <4>2. QED
        BY <2>1, <3>1, <4>1 DEF LengthInv
    <3>4. QED
      BY <3>2, <3>3
  <2>6. QED
    BY <2>5 DEF LengthInv
<1>4. CASE ~ Makes'
  BY <1>4 DEF LengthInv
<1>5. Makes' => \/ LookDir \/ Climb \/ Make \/ SetUp \/ OthersMake
  BY DEF ExportsNext, Makes, exportVars
<1>6. Makes' /\ (Make \/ SetUp \/ OthersMake) => Makes /\ chain' = chain
  BY DEF Makes, OthersMake
<1>7. Makes' /\ Climb => Makes
  BY DEF Makes
<1>8. QED
  BY <1>1, <1>2, <1>3, <1>4, <1>5, <1>6, <1>7

(* ExportInv, ChainInv and MadeInv on the way down: a directory is made    *)
(* only where nothing is, so that it is none of those met before.          *)
LEMMA MakeStep ==
  ASSUME TypeOK, ExportsTypeOK, ExportInv, ChainInv, MadeInv, LengthInv, Make
  PROVE  ExportInv' /\ ChainInv' /\ MadeInv'
<1> USE StageSteps, SameExport DEF argVars
<1> DEFINE new == chain[count + 1]
<1>1. /\ stage = "make" /\ sent # <<>> /\ option = "lenient" /\ Export.mode \in Dirs
      /\ chain # <<>> /\ chain[Len(chain)] = Path
      /\ \A i \in 2..Len(chain) : Above[chain[i]] = chain[i - 1]
      /\ root = Above[chain[1]] /\ (root = Slash \/ root \in there)
      /\ \A i \in 1..count : chain[i] \in made /\ chain[i] # root
      /\ count < Len(chain) /\ owned \subseteq made /\ made \subseteq there
  BY DEF ChainInv, Makes, ExportInv, MadeInv
<1>2. count \in Nat /\ Len(chain) \in Nat /\ new \in Hosts /\ count + 1 \in 1..Len(chain)
  BY <1>1 DEF ExportsTypeOK
<1>3. CASE /\ new \notin there /\ there' = there \cup {new} /\ made' = made \cup {new}
           /\ count' = count + 1
           /\ stage' = (IF count' = Len(chain) THEN "setup" ELSE "make")
           /\ UNCHANGED disturbed
  <2>1. new # root
    BY <1>1, <1>2, <1>3, ExportsAssumption
  <2>2. \A i \in 1..count' : chain[i] \in made' /\ chain[i] # root
    BY <1>1, <1>2, <1>3, <2>1
  <2>3. \A i \in (count' + 1)..Len(chain) : chain[i] # new
    <3>1. TAKE i \in (count' + 1)..Len(chain)
    <3>2. Length[new] < Length[chain[i]] /\ Length[new] \in Nat
      BY <1>1, <1>2, <1>3, LengthGrows DEF LengthInv, Makes
    <3>3. QED
      BY <3>2
  <2>4. ~ disturbed => \A i \in (count' + 1)..Len(chain) : chain[i] \notin there'
    <3>1. \A i \in (count' + 1)..Len(chain) : i \in (count + 1)..Len(chain)
      BY <1>2, <1>3
    <3>2. QED
      BY <1>1, <1>3, <2>3, <3>1 DEF MadeInv
  <2>5. ~ disturbed => \A p \in made' \ owned : \E i \in 1..count' : p = chain[i]
    BY <1>1, <1>2, <1>3 DEF MadeInv
  <2>6. stage' = "setup" => count' > 0 /\ Path \in made'
    BY <1>1, <1>2, <1>3
  <2>7. ExportInv'
    BY <1>1, <1>3 DEF ExportInv
  <2>8. ChainInv'
    BY <1>1, <1>3, <2>2 DEF ChainInv, Makes
  <2>9. MadeInv'
    BY <1>1, <1>2, <1>3, <2>4, <2>5, <2>6 DEF MadeInv
  <2>10. QED
    BY <2>7, <2>8, <2>9
<1>4. CASE new \in there /\ stage' = "idle" /\ UNCHANGED <<there, made, count, disturbed>>
  <2>1. disturbed
    BY <1>1, <1>2, <1>4 DEF MadeInv
  <2>2. QED
    BY <1>1, <1>4, <2>1 DEF ExportInv, ChainInv, MadeInv, Makes
<1>5. CASE stage' = "idle" /\ disturbed' /\ UNCHANGED <<there, made, count>>
  BY <1>1, <1>5 DEF ExportInv, ChainInv, MadeInv, Makes
<1>6. QED
  BY <1>3, <1>4, <1>5 DEF Make, Goto, LeaveOut, FailOutside

(* The same while what is made is given away: all of it, and only it.      *)
LEMMA SetUpStep ==
  ASSUME TypeOK, ExportsTypeOK, ExportInv, ChainInv, MadeInv, SetUp
  PROVE  ExportInv' /\ ChainInv' /\ MadeInv'
<1> USE StageSteps, SameExport DEF argVars
<1>1. /\ stage = "setup" /\ sent # <<>> /\ rc = "send"
      /\ option = "lenient" /\ Export.mode \in Dirs
      /\ chain # <<>> /\ chain[Len(chain)] = Path
      /\ \A i \in 2..Len(chain) : Above[chain[i]] = chain[i - 1]
      /\ root = Above[chain[1]] /\ (root = Slash \/ root \in there)
      /\ \A i \in 1..count : chain[i] \in made /\ chain[i] # root
      /\ count > 0 /\ Path \in made /\ owned \subseteq made /\ made \subseteq there
  BY DEF ChainInv, Makes, ExportInv, MadeInv
<1>2. count \in 1..Len(chain) /\ Len(chain) \in Nat
  BY <1>1 DEF ExportsTypeOK
<1>3. owned' = owned \cup {chain[count]} /\ owned' \subseteq made
  BY <1>1, <1>2 DEF SetUp
<1>4. CASE Above[chain[count]] = root /\ stage' = "add" /\ UNCHANGED count
  <2>1. count = 1
    <3>1. SUFFICES ASSUME count # 1 PROVE FALSE
      OBVIOUS
    <3>2. count \in 2..Len(chain) /\ count - 1 \in 1..count
      BY <1>2, <3>1
    <3>3. QED
      BY <1>1, <1>4, <3>2
  <2>2. ~ disturbed => made \subseteq owned'
    BY <1>1, <1>3, <2>1 DEF MadeInv
  <2>3. QED
    BY <1>1, <1>3, <1>4, <2>2 DEF ExportInv, ChainInv, MadeInv, Makes
<1>5. CASE Above[chain[count]] # root /\ count' = count - 1 /\ UNCHANGED stage
  <2>1. count # 1
    BY <1>1, <1>5
  <2>2. count' > 0 /\ \A i \in 1..count' : i \in 1..count
    BY <1>2, <1>5, <2>1
  <2>3. ~ disturbed => \A p \in made \ owned' : \E i \in 1..count' : p = chain[i]
    <3>1. SUFFICES ASSUME ~ disturbed, NEW p \in made \ owned'
                   PROVE  \E i \in 1..count' : p = chain[i]
      OBVIOUS
    <3>2. PICK i \in 1..count : p = chain[i]
      BY <1>3, <3>1 DEF MadeInv
    <3>3. i # count
      BY <1>3, <3>1, <3>2
    <3>4. QED
      BY <1>2, <1>5, <3>2, <3>3
  <2>4. QED
    BY <1>1, <1>3, <1>5, <2>2, <2>3 DEF ExportInv, ChainInv, MadeInv, Makes
<1>6. QED
  BY <1>4, <1>5 DEF SetUp, Goto

ExportsInv == ExportsTypeOK /\ ExportInv /\ ChainInv /\ MadeInv /\ LengthInv

(* The invariant of the exports, beside that of the merge.                 *)
THEOREM ExportsInvCorrect == ExportsSpec => [](TypeOK /\ ExportsInv)
<1>1. ExportsInit => ExportsInv
  <2>1. ExportsInit => ExportsTypeOK
    <3>1. MaxArgs \in Nat \ {0} /\ \A f \in Found : f \subseteq Hosts
      BY ExportsAssumption
    <3>2. SUFFICES ASSUME ExportsInit PROVE ExportsTypeOK
      OBVIOUS
    <3>3. /\ option \in Options /\ there \subseteq Hosts /\ stage = "idle" /\ root = Slash
          /\ made = {} /\ owned = {} /\ cut = FALSE /\ disturbed = FALSE
      BY <3>1, <3>2 DEF ExportsInit
    <3>4. chain \in Seq(Hosts) /\ count \in 0..Len(chain) /\ mounts \in Seq(Def)
      BY <3>2 DEF ExportsInit
    <3>5. args \in 1..MaxArgs
      BY <3>1, <3>2 DEF ExportsInit
    <3>6. QED
      BY <3>3, <3>4, <3>5 DEF ExportsTypeOK
  <2>2. ExportsInit => ExportInv /\ ChainInv /\ LengthInv
    BY DEF ExportsInit, ExportInv, ChainInv, LengthInv, Makes
  <2>3. ExportsInit => MadeInv
    BY DEF ExportsInit, MadeInv
  <2>4. QED
    BY <2>1, <2>2, <2>3 DEF ExportsInv
<1>2. TypeOK /\ ExportsInv /\ [ExportsNext]_<<vars, exportVars>> => ExportsInv'
  <2>1. TypeOK /\ ExportsInv /\ ExportsNext => ExportsInv'
    <3>1. SUFFICES ASSUME TypeOK, ExportsInv, ExportsNext
                   PROVE  ExportInv' /\ ChainInv' /\ MadeInv'
      BY ExportsTypeStep, LengthStep DEF ExportsInv
    <3>2. QED
      BY <3>1, NoChainStep, LookDirStep, OthersStep, ClimbStep, MakeStep, SetUpStep
         DEF ExportsInv, ExportsNext
  <2>2. ExportsInv /\ UNCHANGED <<vars, exportVars>> => ExportsInv'
    <3>1. UNCHANGED <<vars, exportVars>> =>
            /\ sent' = sent /\ rc' = rc /\ Export' = Export /\ Path' = Path
            /\ option' = option /\ there' = there /\ stage' = stage /\ chain' = chain
            /\ count' = count /\ root' = root /\ made' = made /\ owned' = owned
            /\ mounts' = mounts /\ args' = args /\ cut' = cut /\ disturbed' = disturbed
      BY SameExport DEF exportVars, hostVars, argVars
    <3>2. QED
      BY <3>1 DEF ExportsInv, ExportsTypeOK, ExportInv, ChainInv, MadeInv, LengthInv, Makes
  <2>3. QED
    BY <2>1, <2>2
<1>3. QED
  BY <1>1, <1>2, ExportsMerge, TypeCorrect, PTL DEF ExportsSpec

(* The variables keep their types: the arguments of bwrap are never more   *)
(* than there is place for.                                                *)
THEOREM ExportsTypeCorrect == ExportsSpec => []ExportsTypeOK
BY ExportsInvCorrect, PTL DEF ExportsInv

(* redwrap gives away only what it has made, and all of it if nothing has  *)
(* come in between, however deep the tree and whoever makes directories.   *)
THEOREM GivesWhatItMadeCorrect == ExportsSpec => []GivesWhatItMade
<1>1. ExportsInv => GivesWhatItMade
  BY DEF ExportsInv, MadeInv, GivesWhatItMade
<1>2. QED
  BY <1>1, ExportsInvCorrect, PTL

-----------------------------------------------------------------------------
(* What is mounted.                                                        *)

(* Nothing on the host is removed, and what is asked of bwrap is only      *)
(* added to, an export that has been handed over and looked at.            *)
LEMMA Grows ==
  ASSUME TypeOK, ExportsTypeOK, ExportInv, [ExportsNext]_<<vars, exportVars>>
  PROVE  /\ there \subseteq there' /\ option' = option
         /\ disturbed => disturbed'
         /\ \/ mounts' = mounts
            \/ /\ mounts' = Append(mounts, Export) /\ stage = "add" /\ stage' = "idle"
               /\ UNCHANGED <<vars, there, disturbed>>
<1> USE StageSteps DEF hostVars, argVars
<1>1. CASE Make
  BY <1>1 DEF Make, FailOutside
<1>2. CASE AddMount
  BY <1>2 DEF AddMount, Goto
<1>3. CASE OthersMake
  BY <1>3 DEF OthersMake
<1>4. CASE Climb
  BY <1>4 DEF Climb, FailOutside
<1>5. CASE Walk \/ HandExport \/ LookDir \/ LookFile \/ LookNot \/ LosePath \/ SetUp
  BY <1>5 DEF exportVars
<1>6. CASE UNCHANGED <<vars, exportVars>>
  BY <1>6 DEF exportVars
<1>7. QED
  BY <1>1, <1>2, <1>3, <1>4, <1>5, <1>6 DEF ExportsNext

(* A directory is mounted only if it exists: the launcher has found it or  *)
(* made it before, and nobody removes it.                                  *)
LEMMA MountedExistsStep ==
  ASSUME TypeOK, ExportsInv, MountedExists, [ExportsNext]_<<vars, exportVars>>
  PROVE  MountedExists'
<1>1. /\ there \subseteq there' /\ option' = option
      /\ \/ mounts' = mounts
         \/ mounts' = Append(mounts, Export) /\ stage = "add" /\ there' = there
  BY Grows DEF ExportsInv
<1>2. CASE mounts' = mounts
  BY <1>1, <1>2 DEF MountedExists
<1>3. CASE mounts' = Append(mounts, Export) /\ stage = "add" /\ there' = there
  <2>1. mounts \in Seq(Def) /\ Export \in Def
    BY <1>3, ExportType DEF ExportsInv, ExportsTypeOK, ExportInv
  <2>2. option # "dump" /\ Export.mode \in Dirs => PathOf(Export) \in there
    BY <1>3 DEF ExportsInv, ExportInv, Path
  <2>3. QED
    BY <1>1, <1>3, <2>1, <2>2 DEF MountedExists
<1>4. QED
  BY <1>1, <1>2, <1>3

(* bwrap is asked to mount a directory only if it exists (set_one_export). *)
THEOREM MountedExistsCorrect == ExportsSpec => []MountedExists
<1>1. ExportsInit => MountedExists
  BY DEF ExportsInit, MountedExists
<1>2. QED
  BY <1>1, MountedExistsStep, ExportsInvCorrect, PTL DEF ExportsSpec

(* What leaves an export out, if the launcher is lenient, is a failure or  *)
(* a directory that others have made in its place.                         *)
LEMMA AllMountedStep ==
  ASSUME TypeOK, ExportsInv, AllMounted, [ExportsNext]_<<vars, exportVars>>
  PROVE  AllMounted'
<1> USE DEF ExportsInv
<1>1. SUFFICES ASSUME option = "lenient", ~ disturbed, ~ disturbed',
                      NEW n \in 1..Len(sent'), sent'[n].mode \in Dirs,
                      ~ (n = Len(sent') /\ stage' # "idle")
               PROVE  \E m \in 1..Len(mounts') : mounts'[m] = sent'[n]
  BY Grows DEF AllMounted, IsMounted
<1>2. sent \in Seq(Def) /\ mounts \in Seq(Def) /\ (stage # "idle" => sent # <<>>)
  BY DEF TypeOK, ExportsTypeOK, ExportInv
<1>3. ASSUME n \in 1..Len(sent), sent'[n] = sent[n], IsMounted(sent[n])
      PROVE  \E m \in 1..Len(mounts') : mounts'[m] = sent'[n]
  <2>1. CASE mounts' = mounts
    BY <1>3, <2>1 DEF IsMounted
  <2>2. CASE mounts' = Append(mounts, Export)
    <3>1. PICK m \in 1..Len(mounts) : mounts[m] = sent[n]
      BY <1>3 DEF IsMounted
    <3>2. m \in 1..Len(mounts') /\ mounts'[m] = sent'[n]
      BY <1>2, <1>3, <2>2, <3>1, ExportType DEF ExportInv
    <3>3. QED
      BY <3>2 DEF IsMounted
  <2>3. QED
    BY <2>1, <2>2, Grows
<1>4. CASE HandExport
  <2>1. stage = "idle" /\ stage' = "look" /\ \E d : sent' = Append(sent, d)
    BY <1>4, StageSteps DEF HandExport, Send
  <2>2. n \in 1..Len(sent) /\ sent'[n] = sent[n]
    BY <1>1, <1>2, <2>1
  <2>3. IsMounted(sent[n])
    BY <1>1, <2>1, <2>2 DEF AllMounted
  <2>4. QED
    BY <1>3, <2>2, <2>3
<1>5. CASE ~ HandExport
  <2>1. sent' = sent
    BY <1>5, StageSteps DEF ExportsNext, Walk, NextConfig, SkipPrivate, NewKey, SeenKey, Return,
         SameNode, FromAncestor, Keep, Fail, vars, OthersMake
  <2>2. CASE n # Len(sent) \/ stage = "idle"
    BY <1>1, <1>3, <2>1, <2>2 DEF AllMounted
  <2>3. CASE n = Len(sent) /\ stage # "idle"
    <3>1. stage' = "idle" /\ sent[n] = Export /\ Export.mode \in Dirs
      BY <1>1, <2>1, <2>3 DEF Export
    <3>2. ~ LookDir /\ ~ LookFile /\ ~ LookNot /\ ~ LosePath
      BY <1>1, <3>1, StageSteps DEF LookDir, Goto, LeaveOut
    <3>3. ~ Climb
      BY <1>1, <3>1 DEF Climb, Goto, FailOutside
    <3>4. ~ Make
      <4>1. SUFFICES ASSUME Make PROVE FALSE
        OBVIOUS
      <4>2. stage = "make" /\ count + 1 \in (count + 1)..Len(chain)
        BY <4>1, StageSteps DEF MadeInv, ExportsTypeOK
      <4>3. chain[count + 1] \notin there
        BY <1>1, <4>2 DEF MadeInv
      <4>4. QED
        BY <1>1, <3>1, <4>1, <4>3 DEF Make, Goto, FailOutside
    <3>5. ~ SetUp /\ ~ Walk /\ ~ OthersMake /\ ~ UNCHANGED <<vars, exportVars>>
      BY <2>3, <3>1, StageSteps DEF OthersMake, exportVars
    <3>6. AddMount
      BY <1>5, <3>2, <3>3, <3>4, <3>5 DEF ExportsNext
    <3>7. mounts' = Append(mounts, Export)
      BY <3>1, <3>6 DEF AddMount, Goto
    <3>8. Len(mounts') \in 1..Len(mounts') /\ mounts'[Len(mounts')] = Export
      BY <1>2, <2>3, <3>7, ExportType
    <3>9. QED
      BY <2>1, <2>3, <3>1, <3>8 DEF IsMounted
  <2>4. QED
    BY <2>2, <2>3
<1>6. QED
  BY <1>4, <1>5

(* Whatever the tree: all directories are mounted, unless something has    *)
(* come in between.                                                        *)
THEOREM AllDirsMountedCorrect == ExportsSpec => []AllDirsMounted
<1>1. ExportsInit => AllMounted
  BY DEF ExportsInit, Init, AllMounted
<1>2. TypeOK /\ ExportsInv /\ AllMounted => AllDirsMounted
  BY DEF ExportsInv, ExportInv, AllMounted, AllDirsMounted
<1>3. QED
  BY <1>1, <1>2, AllMountedStep, ExportsInvCorrect, PTL DEF ExportsSpec

-----------------------------------------------------------------------------
(* The order of the mounts.                                                *)

(* Exports are handed over by mount point, and those still to come are     *)
(* after all that have been.                                               *)
SentInOrder ==
  /\ \A m, n \in 1..Len(sent) : m < n => sent[m].key < sent[n].key
  /\ \A n \in 1..Len(sent), i \in Unsent : sent[n].key < links[i].def.key

(* A mount has been handed over before the one now looked at.              *)
MountsSent ==
  \A m \in 1..Len(mounts) : \E n \in 1..Len(sent) :
    mounts[m] = sent[n] /\ (stage # "idle" => n < Len(sent))

(* SentInOrder through any step.                                           *)
LEMMA SentInOrderStep ==
  ASSUME TypeOK, IInv, SentInOrder, [Next]_vars
  PROVE  SentInOrder'
<1>1. CASE sent' = sent /\ (sent = <<>> \/ links' = links)
  BY <1>1 DEF SentInOrder, Unsent
<1>2. CASE Send /\ sent' # sent
  <2>1. PICK i \in Unsent : /\ \A j \in Unsent : links[i].def.key <= links[j].def.key
                            /\ sent' = Append(sent, links[i].def)
    BY <1>2, ExportsAssumption DEF Send
  <2>2. links' = links /\ sent \in Seq(Def) /\ i \in 1..Len(links) /\ links[i].def \in Def
    BY <1>2, <2>1, LinkTypes DEF Send, TypeOK, Unsent
  <2>3. /\ Len(sent') = Len(sent) + 1 /\ Len(sent) \in Nat
        /\ sent'[Len(sent) + 1] = links[i].def
        /\ \A n \in 1..Len(sent) : sent'[n] = sent[n]
    BY <2>1, <2>2
  <2>4. \A n \in 1..Len(sent) : sent[n].key < links[i].def.key
    BY <2>1 DEF SentInOrder
  <2>5. \A m, n \in 1..Len(sent') : m < n => sent'[m].key < sent'[n].key
    BY <2>3, <2>4 DEF SentInOrder
  <2>6. ASSUME NEW j \in Unsent'
        PROVE  j \in Unsent /\ links[i].def.key < links[j].def.key
    <3>1. j \in 1..Len(links) /\ \A n \in 1..Len(sent') : sent'[n] # links[j].def
      BY <2>2, <2>6 DEF Unsent
    <3>2. j \in Unsent /\ links[j].def # links[i].def
      BY <2>3, <3>1 DEF Unsent
    <3>3. links[j].def.key # links[i].def.key
      BY <2>2, <3>1, <3>2 DEF IInv, OneLinkEach
    <3>4. links[i].def.key \in Int /\ links[j].def.key \in Int
      BY <2>2, <3>1, LinkTypes, FamilyAssumption DEF Def
    <3>5. QED
      BY <2>1, <3>2, <3>3, <3>4
  <2>7. \A n \in 1..Len(sent'), j \in Unsent' : sent'[n].key < links'[j].def.key
    BY <2>2, <2>3, <2>6 DEF SentInOrder
  <2>8. QED
    BY <2>5, <2>7 DEF SentInOrder
<1>3. Send => links' = links
  BY DEF Send
<1>4. ~ Send => sent' = sent /\ (rc # "walk" => links' = links)
  BY DEF Next, NextConfig, SkipPrivate, NewKey, SeenKey, SameNode, FromAncestor, Keep, Fail,
     Return, vars
<1>5. sent = <<>> \/ rc # "walk"
  BY DEF IInv, SentFromLinks
<1>6. QED
  BY <1>1, <1>2, <1>3, <1>4, <1>5

(* MountsSent through any step.                                            *)
LEMMA MountsSentStep ==
  ASSUME TypeOK, ExportsInv, MountsSent, [ExportsNext]_<<vars, exportVars>>
  PROVE  MountsSent'
<1> USE DEF ExportsInv
<1>1. sent \in Seq(Def) /\ mounts \in Seq(Def) /\ (stage # "idle" => sent # <<>>)
  BY DEF TypeOK, ExportsTypeOK, ExportInv
<1>2. CASE HandExport
  <2>1. stage' = "look" /\ mounts' = mounts /\ \E d : sent' = Append(sent, d)
    BY <1>2, StageSteps DEF HandExport, Send, argVars
  <2>2. PICK d : sent' = Append(sent, d)
    BY <2>1
  <2>3. Len(sent') = Len(sent) + 1 /\ \A n \in 1..Len(sent) : sent'[n] = sent[n]
    BY <1>1, <2>2
  <2>4. ASSUME NEW m \in 1..Len(mounts)
        PROVE  \E n \in 1..Len(sent') : mounts[m] = sent'[n] /\ n < Len(sent')
    <3>1. PICK n \in 1..Len(sent) : mounts[m] = sent[n]
      BY DEF MountsSent
    <3>2. n \in 1..Len(sent') /\ n < Len(sent')
      BY <1>1, <2>3
    <3>3. QED
      BY <2>3, <3>1, <3>2
  <2>5. QED
    BY <2>1, <2>4 DEF MountsSent
<1>3. CASE AddMount
  <2>1. stage = "add" /\ sent' = sent /\ Export = sent[Len(sent)] /\ Export \in Def
    BY <1>1, <1>3, StageSteps, SameExport, ExportType DEF Export, ExportInv
  <2>2. CASE mounts' = mounts
    BY <2>1, <2>2 DEF MountsSent
  <2>3. CASE mounts' = Append(mounts, Export) /\ stage' = "idle"
    <3>1. ASSUME NEW m \in 1..Len(mounts')
          PROVE  \E n \in 1..Len(sent) : mounts'[m] = sent[n]
      <4>1. CASE m \in 1..Len(mounts)
        BY <1>1, <2>1, <2>3, <4>1 DEF MountsSent
      <4>2. CASE m = Len(mounts) + 1
        BY <1>1, <2>1, <2>3, <4>2
      <4>3. QED
        BY <1>1, <2>1, <2>3, <4>1, <4>2
    <3>2. QED
      BY <2>1, <2>3, <3>1 DEF MountsSent
  <2>4. QED
    BY <1>3, <2>2, <2>3, Grows
<1>4. CASE ~ HandExport /\ ~ AddMount
  <2>1. sent' = sent /\ mounts' = mounts
    BY <1>4, StageSteps DEF ExportsNext, Walk, NextConfig, SkipPrivate, NewKey, SeenKey, Return,
       SameNode, FromAncestor, Keep, Fail, vars, OthersMake, exportVars, argVars
  <2>2. stage' # "idle" => stage # "idle"
    BY <1>4, StageSteps DEF ExportsNext, exportVars, OthersMake
  <2>3. QED
    BY <2>1, <2>2 DEF MountsSent
<1>5. QED
  BY <1>2, <1>3, <1>4

(* No mount hides one that comes before it, however long the list.         *)
LEMMA MountsInOrderStep ==
  ASSUME TypeOK, ExportsInv, SentInOrder, MountsSent, MountsInOrder,
         [ExportsNext]_<<vars, exportVars>>
  PROVE  MountsInOrder'
<1> USE DEF ExportsInv
<1>1. CASE mounts' = mounts
  BY <1>1 DEF MountsInOrder
<1>2. CASE mounts' = Append(mounts, Export) /\ stage = "add"
  <2>1. mounts \in Seq(Def) /\ Export \in Def /\ sent \in Seq(Def) /\ sent # <<>>
    BY <1>2, ExportType DEF TypeOK, ExportsTypeOK, ExportInv
  <2>2. \A m \in 1..Len(mounts) : mounts[m].key < Export.key
    <3>1. TAKE m \in 1..Len(mounts)
    <3>2. PICK n \in 1..Len(sent) : mounts[m] = sent[n] /\ n < Len(sent)
      BY <1>2 DEF MountsSent
    <3>3. QED
      BY <2>1, <3>2 DEF SentInOrder, Export
  <2>3. /\ Len(mounts') = Len(mounts) + 1 /\ Len(mounts) \in Nat
        /\ mounts'[Len(mounts) + 1] = Export
        /\ \A m \in 1..Len(mounts) : mounts'[m] = mounts[m]
    BY <1>2, <2>1
  <2>4. ASSUME NEW m \in 1..Len(mounts'), NEW n \in 1..Len(mounts'), m < n
        PROVE  mounts'[m].key < mounts'[n].key
    <3>1. m \in 1..Len(mounts) /\ mounts'[m] = mounts[m]
      BY <2>3, <2>4
    <3>2. CASE n \in 1..Len(mounts)
      BY <2>3, <2>4, <3>1, <3>2 DEF MountsInOrder
    <3>3. CASE n = Len(mounts) + 1
      BY <2>2, <2>3, <3>1, <3>3
    <3>4. QED
      BY <2>3, <3>2, <3>3
  <2>5. QED
    BY <2>4 DEF MountsInOrder
<1>3. QED
  BY <1>1, <1>2, Grows

(* Mounts reach bwrap in the order of their mount points (mixExports sorts *)
(* them).                                                                  *)
THEOREM MountsInOrderCorrect == ExportsSpec => []MountsInOrder
<1>1. ExportsInit => SentInOrder /\ MountsSent /\ MountsInOrder
  BY DEF ExportsInit, Init, SentInOrder, MountsSent, MountsInOrder
<1>2. ExportsSpec => []SentInOrder
  <2>1. Init => SentInOrder
    BY DEF Init, SentInOrder
  <2>2. QED
    BY <2>1, SentInOrderStep, TypeCorrect, InvariantCorrect, ExportsMerge, PTL DEF Spec
<1>3. QED
  BY <1>1, <1>2, MountsSentStep, MountsInOrderStep, ExportsInvCorrect, PTL DEF ExportsSpec
=============================================================================
