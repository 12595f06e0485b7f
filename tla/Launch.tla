-------------------------------- MODULE Launch --------------------------------
(***************************************************************************)
(* redwrapExecBwrap: from the scan of the family to the program that runs  *)
(* in its namespaces, and what the caller is told of it.  The launcher     *)
(* clones itself, perhaps into a new user namespace; the child leaves or   *)
(* joins namespaces, takes its identity and becomes bwrap, which makes the *)
(* other namespaces that its arguments ask for.                            *)
(***************************************************************************)
EXTENDS ConfTags, Environment

CONSTANTS
  Joins,      \* the order in which the child joins namespaces, that of time aside
  Launched    \* sharings, tags and environments of the families launched, and
              \* the tags of the identity that the command line gives

ASSUME LaunchAssumption ==
  /\ Launched \subseteq Families \X TagFamilies \X Wish \X SUBSET EarlyTags
  /\ Nodes = Height
  /\ Joins \in Seq(Items)
  /\ {Joins[n] : n \in 1..Len(Joins)} = Items \ {"all", "time"}
  /\ \A n \in 1..Len(Joins) : Joins[n] = "user" => n = Len(Joins)
  /\ "user" \in Items
  /\ EarlyTags \subseteq TagNames
  /\ None # <<"given">>

(* Identities of users and groups: that of root, that of a caller who is   *)
(* not root, that of the command line; others are what a configuration     *)
(* writes.                                                                 *)
Root == <<"root">>
Caller == <<"caller">>
Given == <<"given">>

Ids == {Root, Caller, Given} \cup Raw

VARIABLES
  caller,     \* who calls redwrap: Root or Caller
  forced,     \* the tags of the identity that the command line gives
  pc,         \* what the launcher, then its child, does next
  joining,    \* how many of Joins are behind
  argv,       \* the namespaces that bwrap is asked to unshare
  cred,       \* user, group, label of the process; has it its capabilities?
  ns,         \* each namespace of the process: "host", "own" or "joined"
  unshares,   \* how often the user namespace was unshared
  outside,    \* something outside the program has failed or refused
  result      \* what redwrapExecBwrap returns to main, or None

launchVars == <<caller, forced, pc, joining, argv, cred, ns, unshares, outside, result>>

vars == <<sharingVars, tagVars, launchVars, envVars>>

Spaces == Items \ {"all"}

(* Mutant: the command line comes after the configurations.                *)
Early_Late(t) ==
  IF EarlyText(t) # None THEN EarlyText(t) ELSE IF t \in forced THEN Given ELSE None

(* earlymix                                                                *)
Early(t) == IF t \in forced THEN Given ELSE EarlyText(t)

Uid == IF Early("set-user") = None THEN caller ELSE Early("set-user")

Gid == IF Early("set-group") = None THEN caller ELSE Early("set-group")

(* get_final_uid and get_final_gid: no user and no group has a name that   *)
(* holds something to expand, and nothing expands it.                      *)
Nobody(id) == id \in Raw /\ id[3] = "dollar"

MapsRoot == tag["map-root-user"] # None

(* What set_shares and should_unshare make of a merged setting.  A setting *)
(* that is still unset counts as disabled.                                 *)
Isolates(value) == Type(value) \in {"unset", "disabled"}

(* should_unshare_time                                                     *)
UnsharesTime == Type(Merged("time")) \in {"disabled", "join"}

(* Mutant: only a namespace of time of its own needs the clone to have one *)
(* of users.                                                               *)
ClonesUser_NotJoin == Type(Merged("time")) = "disabled" /\ Isolates(Merged("user"))

(* Is the child cloned into a new user namespace?  Then bwrap must not     *)
(* make another.                                                           *)
ClonesUser == UnsharesTime /\ Isolates(Merged("user"))

-----------------------------------------------------------------------------
Init ==
  /\ \E f \in Launched : conf = f[1] /\ strs = f[2] /\ wish = f[3] /\ forced = f[4]
  /\ SharingStart
  /\ TagsStart
  /\ EnvironmentStart
  /\ caller \in {Root, Caller}
  /\ pc = "scan"
  /\ joining = 0
  /\ argv = {}
  /\ cred = [uid |-> caller, gid |-> caller, smack |-> None, able |-> caller = Root]
  /\ ns = [i \in Spaces |-> "host"]
  /\ unshares = 0
  /\ outside = FALSE
  /\ result = None

Goto(label) == pc' = label

(* OnErrorExit: the launcher returns 1, no child was made.                 *)
Abort ==
  /\ Goto("over")
  /\ result' = 1

(* A step of the launcher that fails for reasons outside.                  *)
AbortOutside ==
  /\ Abort
  /\ outside' = TRUE

(* RedNodesScan, validateNode, set_early_conf, whose users and groups may  *)
(* not exist, and the exports, in this order: each is gone through or ends *)
(* the launch.                                                             *)
Prepare ==
  /\ pc = "scan"
  /\ \/ ~ Nobody(Uid) /\ ~ Nobody(Gid) /\ Goto("vars") /\ UNCHANGED <<outside, result>>
     \/ (Nobody(Uid) \/ Nobody(Gid)) /\ Abort /\ UNCHANGED outside
     \/ AbortOutside
  /\ UNCHANGED <<sharingVars, tagVars, caller, forced, joining, argv, cred, ns, unshares>>

(* The variables.  A launcher that has written behind a buffer may not     *)
(* survive it.                                                             *)
SetVariables ==
  /\ pc = "vars"
  /\ \/ /\ VariableStep
        /\ pc' = IF part' = "paths" THEN "tags" ELSE "vars"
        /\ UNCHANGED <<outside, result>>
     \/ VariableFailure /\ outside' = TRUE /\ UNCHANGED <<pc, result>>
     \/ overrun /\ AbortOutside /\ UNCHANGED envVars
  /\ UNCHANGED <<sharingVars, tagVars, caller, forced, joining, argv, cred, ns, unshares>>

MergeTags ==
  /\ pc = "tags"
  /\ MixBasicConftag
  /\ pc' = IF tagAt'.depth = Height THEN "shares" ELSE "tags"
  /\ UNCHANGED <<sharingVars, caller, forced, joining, argv, cred, ns, unshares, outside, result>>

MergeShares ==
  /\ pc = "shares"
  /\ MixSharings
  /\ IF rc' = "fail" THEN Abort
     ELSE /\ pc' = IF rc' = "ok" THEN "conftag" ELSE "shares"
          /\ UNCHANGED result
  /\ UNCHANGED <<tagVars, caller, forced, joining, argv, cred, ns, unshares, outside>>

(* set_shares                                                              *)
SetShares ==
  argv' = {i \in Spaces \ {"time"} : Isolates(Merged(i)) /\ ~ (i = "user" /\ UnsharesTime)}

(* mixCapabilities, then set_conftag.  The result of set_cgroups is not    *)
(* looked at.                                                              *)
SetConftag ==
  /\ pc = "conftag"
  /\ \/ SetShares /\ Goto("paths") /\ UNCHANGED <<outside, result>>
     \/ AbortOutside /\ UNCHANGED argv
  /\ UNCHANGED <<sharingVars, tagVars, caller, forced, joining, cred, ns, unshares>>

(* set_special_confvar, and the arguments of the program.                  *)
SetPaths ==
  /\ pc = "paths"
  /\ \/ /\ PathStep
        /\ IF part' = "refused" THEN Abort
           ELSE /\ pc' = IF part' = "set" THEN "clone" ELSE "paths"
                /\ UNCHANGED result
        /\ UNCHANGED outside
     \/ overrun /\ AbortOutside /\ UNCHANGED envVars
  /\ UNCHANGED <<sharingVars, tagVars, caller, forced, joining, argv, cred, ns, unshares>>

(* The clone, into a user namespace of which the child has all             *)
(* capabilities, or as it is.                                              *)
Clone ==
  /\ pc = "clone"
  /\ \/ /\ Goto("map")
        /\ IF ClonesUser
             THEN /\ ns' = [ns EXCEPT !["user"] = "own"]
                  /\ cred' = [cred EXCEPT !.able = TRUE]
                  /\ unshares' = unshares + 1
             ELSE UNCHANGED <<ns, cred, unshares>>
        /\ UNCHANGED <<outside, result>>
     \/ AbortOutside /\ UNCHANGED <<cred, ns, unshares>>
  /\ UNCHANGED <<sharingVars, tagVars, caller, forced, joining, argv>>

FailureStatus == 256    \* exit(1), as waitpid tells it

ViaMain == 2            \* a child has returned 1 to main, which decides

(* exit(1) in the child: waitpid gives this status to the launcher.        *)
ChildExits ==
  /\ Goto("over")
  /\ result' = FailureStatus

(* return EXIT_FAILURE in the child: it returns to main, as the launcher   *)
(* would, and main decides on its status.                                  *)
ChildReturns ==
  /\ Goto("over")
  /\ result' = ViaMain

ChildFailsOutside(How) ==
  /\ How
  /\ outside' = TRUE
  /\ UNCHANGED <<cred, ns>>

(* The kernel: a process that is in a new user namespace, whose parent it  *)
(* has left, may map nothing but its own user and group.                   *)
CanMap == Uid = caller /\ Gid = caller

(* The identities the child may take exist in its namespace: one that it   *)
(* has made and mapped holds its own, or only that of root.                *)
Mapped(id) == ns["user"] = "own" /\ MapsRoot => id = Root

(* write_uid_gid_map                                                       *)
WriteMap ==
  /\ pc = "map"
  /\ \/ /\ ClonesUser => CanMap
        /\ Goto("time")
        /\ UNCHANGED <<cred, ns, outside, result>>
     \/ ClonesUser /\ ~ CanMap /\ ChildReturns /\ UNCHANGED <<cred, ns, outside>>
     \/ ClonesUser /\ ChildFailsOutside(ChildReturns)
  /\ UNCHANGED <<sharingVars, tagVars, caller, forced, joining, argv, unshares>>

(* The kernel: to join a namespace asks for capabilities over the one that *)
(* owns it, which the child has no more once in a user namespace of its    *)
(* own.  That of users itself may belong to the caller.                    *)
CanJoin(i) == ns["user"] = "host" /\ (cred.able \/ i = "user")

(* joinns                                                                  *)
Join(i, label) ==
  \/ /\ CanJoin(i)
     /\ ns' = [ns EXCEPT ![i] = "joined"]
     /\ cred' = IF i = "user" THEN [cred EXCEPT !.able = TRUE] ELSE cred
     /\ Goto(label)
     /\ UNCHANGED <<outside, result>>
  \/ ~ CanJoin(i) /\ ChildExits /\ UNCHANGED <<cred, ns, outside>>
  \/ ChildFailsOutside(ChildExits)

(* The namespace of time is joined, left, or kept.  That it could not be   *)
(* left is not looked at.                                                  *)
EnterTime ==
  /\ pc = "time"
  /\ \/ /\ Type(Merged("time")) = "join"
        /\ Join("time", "join")
     \/ /\ Type(Merged("time")) = "disabled"
        /\ \/ cred.able /\ ns' = [ns EXCEPT !["time"] = "own"] /\ UNCHANGED outside
           \/ ~ cred.able /\ UNCHANGED <<ns, outside>>
           \/ outside' = TRUE /\ UNCHANGED ns
        /\ Goto("join")
        /\ UNCHANGED <<cred, result>>
     \/ /\ ~ UnsharesTime
        /\ Goto("join")
        /\ UNCHANGED <<cred, ns, outside, result>>
  /\ UNCHANGED <<sharingVars, tagVars, caller, forced, joining, argv, unshares>>

(* Mutant: that of users is joined first.                                  *)
NextJoin_Reversed == Joins[Len(Joins) - joining]

NextJoin == Joins[joining + 1]

(* The other namespaces, one after the other.                              *)
JoinNext ==
  /\ pc = "join"
  /\ joining < Len(Joins)
  /\ joining' = joining + 1
  /\ IF Type(Merged(NextJoin)) = "join"
       THEN Join(NextJoin, "join")
       ELSE UNCHANGED <<pc, cred, ns, outside, result>>
  /\ UNCHANGED <<sharingVars, tagVars, caller, forced, argv, unshares>>

(* setsmack.  The kernel asks for the capability of the host.              *)
SetSmack ==
  /\ pc = "join" /\ joining = Len(Joins)
  /\ \/ /\ Early("smack") # None
        /\ \/ /\ cred.able /\ ns["user"] = "host"
              /\ cred' = [cred EXCEPT !.smack = Early("smack")]
              /\ Goto("gid")
              /\ UNCHANGED <<ns, outside, result>>
           \/ ~ (cred.able /\ ns["user"] = "host") /\ ChildExits /\ UNCHANGED <<cred, ns, outside>>
           \/ ChildFailsOutside(ChildExits)
     \/ /\ Early("smack") = None
        /\ Goto("gid")
        /\ UNCHANGED <<cred, ns, outside, result>>
  /\ UNCHANGED <<sharingVars, tagVars, caller, forced, joining, argv, unshares>>

(* The kernel: the identity must exist in the namespace, and be one's own  *)
(* unless one is able.  What exists in a joined one is not ours to know.   *)
CanBe(id, own) == Mapped(id) /\ (cred.able \/ id = own)

(* setgid                                                                  *)
SetGid ==
  /\ pc = "gid"
  /\ \/ /\ CanBe(Gid, cred.gid)
        /\ cred' = [cred EXCEPT !.gid = Gid]
        /\ Goto("uid")
        /\ UNCHANGED <<ns, outside, result>>
     \/ ~ CanBe(Gid, cred.gid) /\ ChildReturns /\ UNCHANGED <<cred, ns, outside>>
     \/ ns["user"] = "joined" /\ ChildFailsOutside(ChildReturns)
  /\ UNCHANGED <<sharingVars, tagVars, caller, forced, joining, argv, unshares>>

(* setuid.  Who is no more root has lost its capabilities.                *)
SetUid ==
  /\ pc = "uid"
  /\ \/ /\ CanBe(Uid, cred.uid)
        /\ cred' = [cred EXCEPT !.uid = Uid, !.able = @ /\ ~ (cred.uid = Root /\ Uid # Root)]
        /\ Goto("exec")
        /\ UNCHANGED <<ns, outside, result>>
     \/ ~ CanBe(Uid, cred.uid) /\ ChildReturns /\ UNCHANGED <<cred, ns, outside>>
     \/ ns["user"] = "joined" /\ ChildFailsOutside(ChildReturns)
  /\ UNCHANGED <<sharingVars, tagVars, caller, forced, joining, argv, unshares>>

(* execve, or what bwrap does before the program, and how either fails.    *)
(* It refuses arguments that end, with a NULL, in the middle of an option. *)
Exec ==
  /\ pc = "exec"
  /\ \/ /\ ~ null
        /\ ns' = [i \in Spaces |-> IF i \in argv THEN "own" ELSE ns[i]]
        /\ unshares' = IF "user" \in argv THEN unshares + 1 ELSE unshares
        /\ Goto("program")
        /\ UNCHANGED <<cred, outside, result>>
     \/ ChildFailsOutside(ChildReturns) /\ UNCHANGED unshares
     \/ ChildFailsOutside(ChildExits) /\ UNCHANGED unshares
     \/ null /\ ChildExits /\ UNCHANGED <<cred, ns, unshares, outside>>
  /\ UNCHANGED <<sharingVars, tagVars, caller, forced, joining, argv>>

(* The program ends, and waitpid gives its status.                         *)
ProgramEnds ==
  /\ pc = "program"
  /\ Goto("ended")
  /\ result' \in {0, FailureStatus}
  /\ UNCHANGED <<sharingVars, tagVars, caller, forced, joining, argv, cred, ns, unshares, outside>>

Next ==
  \/ SetVariables
  \/ SetPaths
  \/ /\ \/ Prepare \/ MergeTags \/ MergeShares \/ SetConftag \/ Clone
        \/ WriteMap \/ EnterTime \/ JoinNext \/ SetSmack \/ SetGid \/ SetUid
        \/ Exec \/ ProgramEnds
     /\ UNCHANGED envVars

Spec == Init /\ [][Next]_vars

-----------------------------------------------------------------------------
(* Properties.                                                             *)

(* The variables keep their types.                                         *)
TypeOK ==
  /\ SharingTypeOK
  /\ TagsTypeOK
  /\ caller \in {Root, Caller}
  /\ forced \subseteq EarlyTags
  /\ pc \in {"scan", "vars", "tags", "shares", "conftag", "paths", "clone", "map", "time", "join",
              "gid", "uid", "exec", "program", "ended", "over"}
  /\ joining \in 0..Len(Joins)
  /\ argv \subseteq Spaces \ {"time"}
  /\ cred \in [uid : Ids, gid : Ids, smack : Ids \cup {None}, able : BOOLEAN]
  /\ ns \in [Spaces -> {"host", "own", "joined"}]
  /\ unshares \in Nat
  /\ outside \in BOOLEAN
  /\ result \in {None, 0, 1, FailureStatus, ViaMain}

(* The invariant that carries RunsIsolated: how far the namespaces are     *)
(* made at each point of the chain.                                        *)
Prepares == pc \in {"scan", "vars", "tags", "shares", "conftag", "paths", "clone"}

Child == pc \in {"map", "time", "join", "gid", "uid", "exec"}

Asked == {i \in Spaces \ {"time"} : Isolates(Merged(i)) /\ ~ (i = "user" /\ UnsharesTime)}

TimeKept ==
  /\ ns["time"] = "own" => Type(Merged("time")) = "disabled"
  /\ ns["time"] = "joined" => Type(Merged("time")) = "join"

TimeLeft ==
  Type(Merged("time")) = "disabled" /\ ~ outside /\ (caller = Root \/ ClonesUser)
    => ns["time"] = "own"

LaunchInv ==
  /\ Prepares => unshares = 0 /\ ns = [i \in Spaces |-> "host"]
  /\ Prepares => (cred.able <=> caller = Root)
  /\ pc \in {"conftag", "paths", "clone", "program", "ended"} \/ Child => rc = "ok"
  /\ pc \in {"clone", "program", "ended"} \/ Child => part = "set"
  /\ pc \in {"program", "ended"} => ~ null
  /\ pc \in {"paths", "clone"} \/ Child => argv = Asked
  /\ pc \in {"map", "time"} => (cred.able <=> caller = Root \/ ClonesUser)
  /\ pc \in {"map", "time"} => ns["time"] = "host"
  /\ Child =>
       /\ unshares = IF ClonesUser THEN 1 ELSE 0
       /\ ns["user"] = "own" <=> ClonesUser
       /\ \A i \in Spaces \ {"time", "user"} : ns[i] # "own"
       /\ \A i \in Spaces : ns[i] = "joined" => Type(Merged(i)) = "join"
       /\ TimeKept
  /\ pc \in {"join", "gid", "uid", "exec"} => TimeLeft
  /\ pc \in {"program", "ended"} =>
       /\ unshares = IF Isolates(Merged("user")) THEN 1 ELSE 0
       /\ \A i \in Spaces \ {"time"} :
            /\ ns[i] = "own" <=> Isolates(Merged(i))
            /\ ns[i] = "joined" => Type(Merged(i)) = "join"
       /\ TimeKept /\ TimeLeft

(* What the configurations order, said without a walk.                     *)
Silent(i) == \A d \in Depth, a \in Rank : ~ Says(d, a, i)

Isolated(i) ==
  \/ Forbidden(i)
  \/ (i # "time" /\ Silent(i) /\ (Forbidden("all") \/ Silent("all")))

Named(i) == \E d \in Depth, a \in Rank : conf[d][a][i] \in Paths

(* The program runs in a namespace of its own exactly where the            *)
(* configurations say so or say nothing, and in another's only where one   *)
(* of them names it; it is below no more than one new user namespace,      *)
(* which two parts of the code may make.  Time is isolated if it should    *)
(* be, provided the caller could do it: a failure is not looked at.        *)
RunsIsolated ==
  pc \in {"program", "ended"} =>
    /\ \A i \in Spaces \ {"time"} :
         /\ ns[i] = "own" <=> Isolated(i)
         /\ ns[i] = "joined" => Named(i) \/ (Silent(i) /\ Named("all"))
    /\ unshares = IF Isolated("user") THEN 1 ELSE 0
    /\ ns["time"] = "own" => Isolated("time")
    /\ ns["time"] = "joined" => Named("time")
    /\ Isolated("time") /\ ~ outside /\ (caller = Root \/ Isolated("user"))
         => ns["time"] = "own"

(* id is what the launch orders of t: what the command line says, else the *)
(* nearest administrator, else the nearest normal configuration, else what *)
(* the caller has.                                                         *)
Orders(t, id, own) ==
  IF t \in forced THEN id = Given
  ELSE IF SetAt(t) = {} THEN id = own
  ELSE \E p \in Places : Prevailing(t, p) /\ id = Written(t, p)

(* The invariant that carries RunsAsAsked and RunsAsShown: what has been   *)
(* taken so far.                                                           *)
IdentityInv ==
  /\ Prepares \/ pc \in {"map", "time", "join", "gid"} => cred.gid = caller
  /\ Prepares \/ pc \in {"map", "time", "join", "gid", "uid"} => cred.uid = caller
  /\ Prepares \/ pc \in {"map", "time", "join"} => cred.smack = None
  /\ pc \in {"gid", "uid", "exec", "program", "ended"} => cred.smack = Early("smack")
  /\ pc \in {"uid", "exec", "program", "ended"} => cred.gid = Gid
  /\ pc \in {"exec", "program", "ended"} => cred.uid = Uid
  /\ pc # "over" /\ pc # "scan" => ~ Nobody(Uid) /\ ~ Nobody(Gid)

(* The program runs as the user, in the group and under the label that are *)
(* ordered, whatever has become of the capabilities needed to take them.   *)
RunsAsAsked ==
  pc \in {"program", "ended"} =>
    /\ Orders("set-user", cred.uid, caller)
    /\ Orders("set-group", cred.gid, caller)
    /\ Orders("smack", cred.smack, None)

(* id is what redconf shows of t, which is what mixConfTags has merged.    *)
AsShown(t, id, own) == id = IF tag[t] = None THEN own ELSE tag[t]

(* What redconf shows of t is the expansion of id.                         *)
ShownExpanded(t, id) == \E p \in Places : id = Written(t, p) /\ tag[t] = <<p[1], p[2], "expanded">>

(* The two merges of the identity agree, although one expands and the      *)
(* other does not: the program runs as the user and in the group that      *)
(* redconf shows, unless the command line says another, because a launch   *)
(* that would need an expansion to find them is refused.  A label is taken *)
(* as it is written.                                                       *)
RunsAsShown ==
  pc \in {"program", "ended"} /\ ~ spoilt =>
    /\ "set-user" \notin forced => AsShown("set-user", cred.uid, caller)
    /\ "set-group" \notin forced => AsShown("set-group", cred.gid, caller)
    /\ "smack" \notin forced =>
         AsShown("smack", cred.smack, None) \/ ShownExpanded("smack", cred.smack)

(* What the chain of calls cannot do, even if nothing fails outside.       *)
(* Without privilege: take an identity or a label, or join a namespace.    *)
(* In a user namespace of its own, which an isolated or joined time brings *)
(* about: the same, and to be root if the caller is not.  In a joined one: *)
(* take a label.                                                           *)
Joining == {i \in Spaces : Type(Merged(i)) = "join"}

OwnUser == Isolated("user") /\ UnsharesTime

Demands == Uid # caller \/ Gid # caller \/ Early("smack") # None \/ Joining # {}

BeyondReach ==
  \/ (caller # Root \/ OwnUser) /\ Demands
  \/ caller # Root /\ OwnUser /\ MapsRoot
  \/ "user" \in Joining /\ Early("smack") # None

(* A user or a group is ordered by a text that must be expanded.           *)
OrdersNobody ==
  \E t \in {"set-user", "set-group"} \ forced, p \in Places :
    Prevailing(t, p) /\ strs[p[1]][p[2]][t] = "dollar"

(* If a launch fails although nothing outside does, the sharings contradict *)
(* each other, it asks for nobody or for something out of reach, or what   *)
(* it says of the environment is too long: its steps do not spoil each     *)
(* other.                                                                  *)
FailsForAReason ==
  pc = "over" /\ ~ outside =>
    \/ rc = "fail"
    \/ OrdersNobody
    \/ BeyondReach
    \/ \E n \in 1..Len(wish.variables) : BadVariable(wish.variables[n])
    \/ \E n \in 1..Len(Searched) : BadPath(Searched[n])

(* main of redwrap, of what redwrapExecBwrap returns.                      *)
MainReturns(status) == IF status < 0 THEN 1 ELSE 0

(* Mutant: as main of redwrap does.                                        *)
DnfReturns_Negative(status) == IF status < 0 THEN 1 ELSE 0

(* main of redwrap-dnf, for its commands that run in the node.             *)
DnfReturns(status) == IF status # 0 THEN 1 ELSE 0

(* What redwrap ends with: a child that returned to main has ended as main *)
(* decided.                                                                *)
Told ==
  IF result = ViaMain THEN MainReturns(MainReturns(1) * FailureStatus) ELSE MainReturns(result)

(* What redwrap-dnf ends with.                                             *)
DnfTold ==
  IF result = ViaMain THEN DnfReturns(DnfReturns(1) * FailureStatus) ELSE DnfReturns(result)

(* "return 0 in success negative otherwise", says main: when no program    *)
(* has run, the caller of redwrap is told.                                 *)
TellsFailure == pc = "over" => Told # 0

(* The caller of redwrap-dnf is told: its command succeeds exactly if a    *)
(* program has run and succeeded.                                          *)
DnfTells ==
  pc \in {"over", "ended"} => (DnfTold = 0 <=> pc = "ended" /\ result = 0)
=============================================================================
