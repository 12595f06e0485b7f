-------------------------------- MODULE Exports --------------------------------
(***************************************************************************)
(* mixExports with the callback of redwrap: what the walk hands over, in   *)
(* the order of mount points, becomes arguments of bwrap, one after the    *)
(* other.  A directory that is missing on the host is made first, with     *)
(* those above it, unless redwrap is strict; one that cannot be made is    *)
(* left out.  Others may make directories of the host at any time.         *)
(***************************************************************************)
EXTENDS MixWalk, FiniteSets

CONSTANTS
  Dirs,       \* the modes of RED_EXPORT_DIRS
  Files,      \* the modes of RED_EXPORT_FILES
  Hosts,      \* directories and files of the host
  Above,      \* Above[p]: the directory that holds p
  Slash,      \* the root of the host, which always exists
  HostOf,     \* the path of an export that gives none: its mount point
  Found,      \* what may exist on the host when redwrap starts
  Options,    \* "lenient", "strict" or "dump" (--dump twice, nothing is made)
  MaxArgs     \* MAX_BWRAP_ARGS

ASSUME ExportsAssumption ==
  /\ Kind = "export"
  /\ Dirs \cap Files = {}
  /\ Slash \notin Hosts
  /\ Above \in [Hosts -> Hosts \cup {Slash}]
  /\ IsFiniteSet(Hosts)
  /\ \E length \in [Hosts -> 1..Cardinality(Hosts)] :    \* a path is cut to go up
       \A p \in Hosts : Above[p] # Slash => length[Above[p]] < length[p]
  /\ HostOf \in [Keys -> Hosts]
  /\ Vals \subseteq Hosts \cup {Null}
  /\ Found \subseteq SUBSET Hosts
  /\ MaxArgs \in Nat \ {0}

VARIABLES
  option,
  there,      \* what exists on the host
  stage,      \* where set_one_export is with the export last handed over
  chain,      \* directories to be made for it, from the top
  count,      \* how many of them are made, then: are left to be set up
  root,       \* what holds the first of them
  made,       \* directories made by this launcher
  owned,      \* directories given to the user, the group and the label
  mounts,     \* exports that bwrap is asked for
  args,       \* the number of its arguments
  cut,        \* one of them is NULL: bwrap sees none of the following
  disturbed   \* others have made a directory, or a call has failed

hostVars == <<there, chain, count, root, made, owned, disturbed>>

argVars == <<mounts, args, cut>>

exportVars == <<option, stage, hostVars, argVars>>

Export == sent[Len(sent)]

PathOf(def) == IF def.val = Null THEN HostOf[def.key] ELSE def.val

Path == PathOf(Export)

-----------------------------------------------------------------------------
ExportsInit ==
  /\ Init
  /\ option \in Options
  /\ there \in Found
  /\ stage = "idle"
  /\ chain = <<>> /\ count = 0 /\ root = Slash
  /\ made = {} /\ owned = {}
  /\ mounts = <<>> /\ args = 1 /\ cut = FALSE
  /\ disturbed = FALSE

Goto(label) == stage' = label

Walk ==
  /\ stage = "idle"
  /\ NextConfig \/ SkipPrivate \/ NewKey \/ SeenKey \/ Return
  /\ UNCHANGED exportVars

(* mixexp_cb returns 0 whatever becomes of the export.                     *)
HandExport ==
  /\ stage = "idle"
  /\ Send
  /\ rc' = "send"
  /\ Goto("look")
  /\ UNCHANGED <<option, hostVars, argVars>>

(* Warned of, and not mounted.                                             *)
LeaveOut == Goto("idle")

LookDir ==
  /\ stage = "look" /\ Export.mode \in Dirs
  /\ \/ /\ Path \in there \/ option = "dump"
        /\ Goto("add")
        /\ UNCHANGED <<chain, count>>
     \/ /\ Path \notin there /\ option = "strict"
        /\ LeaveOut
        /\ UNCHANGED <<chain, count>>
     \/ /\ Path \notin there /\ option = "lenient"
        /\ chain' = <<Path>> /\ count' = 0
        /\ Goto("climb")
  /\ UNCHANGED <<vars, option, there, root, made, owned, disturbed, argVars>>

(* A file that stat finds is left out as missing.                          *)
LookFile ==
  /\ stage = "look" /\ Export.mode \in Files
  /\ IF Path \in there THEN LeaveOut ELSE Goto("add")
  /\ UNCHANGED <<vars, option, hostVars, argVars>>

LookNot ==
  /\ stage = "look" /\ Export.mode \notin Dirs \cup Files
  /\ Goto("add")
  /\ UNCHANGED <<vars, option, hostVars, argVars>>

(* The path cannot be expanded, it is NULL.  stat fails, and then what     *)
(* measures the length of the path kills the launcher, or NULL is added.   *)
LosePath ==
  /\ stage = "look"
  /\ \/ Export.mode \in Dirs /\ option = "strict" /\ LeaveOut /\ UNCHANGED cut
     \/ Export.mode \in Dirs /\ option = "lenient" /\ Goto("killed") /\ UNCHANGED cut
     \/ Export.mode \in Dirs /\ option = "dump" /\ Goto("idle") /\ cut' = TRUE
     \/ Export.mode \notin Dirs /\ Goto("idle") /\ cut' = TRUE
  /\ disturbed' = TRUE
  /\ UNCHANGED <<vars, option, there, chain, count, root, made, owned, mounts, args>>

(* The export is left out for a call that has failed for reasons outside.  *)
FailOutside ==
  /\ LeaveOut
  /\ disturbed' = TRUE

(* create_directory, on its way up: is there what holds the directory?     *)
Climb ==
  /\ stage = "climb"
  /\ LET up == Above[chain[1]] IN
       \/ /\ up = Slash \/ up \in there
          /\ root' = up /\ count' = 0
          /\ Goto("make")
          /\ UNCHANGED <<chain, disturbed>>
       \/ /\ up # Slash /\ up \notin there
          /\ chain' = <<up>> \o chain
          /\ UNCHANGED <<stage, root, count, disturbed>>
       \/ up # Slash /\ FailOutside /\ UNCHANGED <<chain, root, count>>
  /\ UNCHANGED <<vars, option, there, made, owned, argVars>>

(* Mutant: the directory is taken for made although it is not.             *)
Make_Trusting ==
  /\ stage = "make"
  /\ \/ there' = there \cup {chain[count + 1]} /\ made' = made \cup {chain[count + 1]}
     \/ UNCHANGED <<there, made>>
  /\ count' = count + 1
  /\ Goto(IF count' = Len(chain) THEN "setup" ELSE "make")
  /\ UNCHANGED <<vars, option, chain, root, owned, disturbed, argVars>>

(* create_directory, on its way down: mkdir.  It refuses what exists.      *)
Make ==
  /\ stage = "make"
  /\ \/ /\ chain[count + 1] \notin there
        /\ there' = there \cup {chain[count + 1]}
        /\ made' = made \cup {chain[count + 1]}
        /\ count' = count + 1
        /\ Goto(IF count' = Len(chain) THEN "setup" ELSE "make")
        /\ UNCHANGED disturbed
     \/ chain[count + 1] \in there /\ LeaveOut /\ UNCHANGED <<there, made, count, disturbed>>
     \/ FailOutside /\ UNCHANGED <<there, made, count>>
  /\ UNCHANGED <<vars, option, chain, root, owned, argVars>>

(* Mutant: only the directory itself is set up.                            *)
SetUp_One ==
  /\ stage = "setup"
  /\ owned' = owned \cup {chain[count]}
  /\ Goto("add")
  /\ UNCHANGED <<vars, option, there, chain, count, root, made, disturbed, argVars>>

(* Mutant: ensure_directory returns the length of what existed, not 0.     *)
SetUp_Result ==
  /\ stage = "setup"
  /\ owned' = owned \cup {chain[count]}
  /\ \/ /\ Above[chain[count]] = root
        /\ IF root = Slash THEN Goto("add") ELSE LeaveOut
        /\ UNCHANGED count
     \/ Above[chain[count]] # root /\ count' = count - 1 /\ UNCHANGED stage
  /\ UNCHANGED <<vars, option, there, chain, root, made, disturbed, argVars>>

(* setup_directory, from the directory itself up to what existed.  That    *)
(* chown or setxattr has failed is warned of only.                         *)
SetUp ==
  /\ stage = "setup"
  /\ owned' = owned \cup {chain[count]}
  /\ \/ Above[chain[count]] = root /\ Goto("add") /\ UNCHANGED count
     \/ Above[chain[count]] # root /\ count' = count - 1 /\ UNCHANGED stage
  /\ UNCHANGED <<vars, option, there, chain, root, made, disturbed, argVars>>

(* Mutant: there is always a place for one more mount.                     *)
AddMount_Unchecked ==
  /\ stage = "add"
  /\ mounts' = Append(mounts, Export)
  /\ args' = args + 3
  /\ Goto("idle")
  /\ UNCHANGED <<vars, option, hostVars, cut>>

(* ADD: is there no place for the arguments of one more mount?             *)
TooMany == args + 3 > MaxArgs

(* The arguments of a mount, which are two if it has no path, but three    *)
(* here; too many of them end redwrap.                                     *)
AddMount ==
  /\ stage = "add"
  /\ \/ /\ ~ TooMany
        /\ mounts' = Append(mounts, Export)
        /\ args' = args + 3
        /\ Goto("idle")
     \/ /\ TooMany
        /\ args' = MaxArgs
        /\ Goto("exited")
        /\ UNCHANGED mounts
  /\ UNCHANGED <<vars, option, hostVars, cut>>

(* Another program, such as another redwrap.                               *)
OthersMake ==
  /\ \E p \in Hosts \ there :
       /\ Above[p] \in there \cup {Slash}
       /\ there' = there \cup {p}
  /\ disturbed' = TRUE
  /\ UNCHANGED <<vars, option, stage, chain, count, root, made, owned, argVars>>

ExportsNext ==
  \/ Walk \/ HandExport \/ LookDir \/ LookFile \/ LookNot \/ LosePath
  \/ Climb \/ Make \/ SetUp \/ AddMount \/ OthersMake

ExportsSpec == ExportsInit /\ [][ExportsNext]_<<vars, exportVars>>

-----------------------------------------------------------------------------
(* Properties.                                                             *)

(* The variables keep their types.                                         *)
ExportsTypeOK ==
  /\ option \in Options
  /\ there \subseteq Hosts
  /\ stage \in {"idle", "look", "climb", "make", "setup", "add", "exited", "killed"}
  /\ chain \in Seq(Hosts)
  /\ count \in 0..Len(chain)
  /\ root \in Hosts \cup {Slash}
  /\ made \subseteq Hosts /\ owned \subseteq Hosts
  /\ mounts \in Seq(Def)
  /\ args \in 1..MaxArgs
  /\ cut \in BOOLEAN /\ disturbed \in BOOLEAN

IsMounted(def) == \E n \in 1..Len(mounts) : mounts[n] = def

(* The invariant that carries MountedExists, GivesWhatItMade and           *)
(* AllDirsMounted: an export is being looked at while the merge waits; a    *)
(* chain leads from what existed to its directory; what is made and not    *)
(* yet given away lies on it.                                              *)
Makes == stage \in {"climb", "make", "setup"}

ExportInv ==
  /\ stage # "idle" => sent # <<>> /\ rc = "send"
  /\ stage = "add" /\ Export.mode \in Dirs /\ option # "dump" => Path \in there

ChainInv ==
  /\ Makes =>
       /\ option = "lenient" /\ Export.mode \in Dirs
       /\ chain # <<>> /\ chain[Len(chain)] = Path
       /\ \A i \in 2..Len(chain) : Above[chain[i]] = chain[i - 1]
  /\ stage \in {"make", "setup"} =>
       /\ root = Above[chain[1]]
       /\ root = Slash \/ root \in there
       /\ \A i \in 1..count : chain[i] \in made /\ chain[i] # root

MadeInv ==
  /\ owned \subseteq made /\ made \subseteq there
  /\ stage = "make" => count < Len(chain)
  /\ stage = "setup" => count > 0 /\ Path \in made
  /\ ~ disturbed =>
       /\ stage = "climb" => \A i \in 1..Len(chain) : chain[i] \notin there
       /\ stage = "make" => \A i \in (count + 1)..Len(chain) : chain[i] \notin there
       /\ \A p \in made \ owned :
            stage \in {"make", "setup"} /\ \E i \in 1..count : p = chain[i]

AllMounted ==
  option = "lenient" /\ ~ disturbed =>
    \A n \in 1..Len(sent) : sent[n].mode \in Dirs =>
      IsMounted(sent[n]) \/ (n = Len(sent) /\ stage # "idle")

(* A directory is mounted only if it exists, whoever has made it, and      *)
(* whatever has failed while it was made.  (In a dump nothing is made.)    *)
MountedExists ==
  option # "dump" =>
    \A n \in 1..Len(mounts) : mounts[n].mode \in Dirs => PathOf(mounts[n]) \in there

(* redwrap gives nobody a directory that it has not made itself, even when *)
(* others make directories on its way; and if neither others nor a failure *)
(* have come in between it gives away all it has made.                     *)
GivesWhatItMade ==
  /\ owned \subseteq made
  /\ stage = "idle" /\ ~ disturbed => made \subseteq owned

(* Unless something disturbs it, a lenient redwrap mounts all directories, *)
(* those that share parents to be made included.                           *)
AllDirsMounted ==
  option = "lenient" /\ ~ disturbed /\ rc = "ok" =>
    \A n \in 1..Len(sent) : sent[n].mode \in Dirs => IsMounted(sent[n])

(* bwrap mounts in the order of its arguments: no mount comes after one    *)
(* that it would hide, a mount point after those below it.                 *)
MountsInOrder ==
  \A m, n \in 1..Len(mounts) : m < n => mounts[m].key < mounts[n].key

(* "When a file is exported, check that it exists": those that do are      *)
(* mounted.                                                                *)
FilesMounted ==
  rc = "ok" /\ ~ disturbed =>
    \A n \in 1..Len(sent) :
      sent[n].mode \in Files /\ PathOf(sent[n]) \in there => IsMounted(sent[n])
=============================================================================
