-------------------------------- MODULE MCLaunch --------------------------------
(* Small instances of Launch.  Families with few sharings, of which the     *)
(* leaf sets some of the tags that change how it is launched; families      *)
(* without sharings, in which tags are set in up to three places; and       *)
(* families with variables and paths.                                       *)
EXTENDS Launch

JoinOrder == <<"net", "user">>

AllTags == <<"map-root-user", "rpmdir", "set-user", "set-group", "smack", "cgrouproot">>

Slots == {0, 2} \X Rank \X Items

Family(f) ==
  [d \in Depth |-> [a \in Rank |-> [i \in Items |->
     IF <<d, a, i>> \in DOMAIN f THEN f[<<d, a, i>>] ELSE "unset"]]]

Filled(slots) == {Family(f) : f \in [slots -> Settings \ {"unset"}]}

(* At most two settings, of the leaf and the root; or any settings of one  *)
(* namespace.                                                              *)
Sparse == UNION {Filled({s, t}) : s, t \in Slots} \cup Filled({})

OneItem == UNION {Filled(s) : s \in SUBSET (Depth \X Rank \X {"net"})}

(* Texts, of the places and tags f is defined on.                          *)
Writing(f) ==
  [d \in Depth |-> [a \in Rank |-> [t \in TagNames |->
     IF <<d, a, t>> \in DOMAIN f THEN f[<<d, a, t>>] ELSE "unset"]]]

LeafSets(tags) == Writing([s \in {0} \X {0} \X tags |-> "plain"])

Identities ==
  {{}, {"set-user", "set-group"}, {"set-group", "smack"}, {"map-root-user"}}

WalkedSlots == Depth \X Rank \X {"map-root-user", "rpmdir", "set-user"}

Walked ==
  {Writing([s \in slots |-> "plain"]) : slots \in {{q, r, s} : q, r, s \in WalkedSlots} \cup {{}}}

(* Two places that give a user, a group or a label, each as it is written  *)
(* or by something to expand.                                              *)
Dollars ==
  UNION {{Writing(f) : f \in [{<<p[1], p[2], t>>, <<q[1], q[2], t>>} -> {"plain", "dollar"}]} :
           p, q \in {<<0, 0>>, <<1, 1>>, <<2, 0>>}, t \in EarlyTags}

(* Of the names that may follow a dollar, HOME and USER are variables of    *)
(* redwrap's environment, the others are defined by the table.              *)
Environs ==
  {"HOME", "USER", "LEAF", "NODE", "LONG"}

Words ==
  [HOME |-> <<"a", ":", "b">>, USER |-> <<>>, LEAF |-> <<"HOME">>,
   NODE |-> <<"b">>, LONG |-> <<"a", "a", "a", "a">>]

ValueIn ==
  [name \in Environs |-> [d \in Depth |->
     IF name = "NODE" /\ d # 0 THEN <<"$(id)">> ELSE Words[name]]]

CommandText == [c \in {"$(id)", "$(mute)"} |-> IF c = "$(id)" THEN <<"a", "NODE">> ELSE <<"LEAF", "a">>]

CommandPrints == [c \in {"$(id)", "$(mute)"} |-> IF c = "$(id)" THEN <<"b", "a">> ELSE <<>>]

SearchOrder == <<"PATH", "LDPATH">>

Environ == [name \in {"PATH", "LDPATH", "X"} |-> IF name = "X" THEN <<"b">> ELSE <<>>]

Var(name, mode, value, node) == [name |-> name, mode |-> mode, value |-> value, node |-> node]

ExpandedTexts ==
  {<<"a", "HOME">>, <<"LONG">>, <<"$(id)", "LEAF">>, <<"NODE", "b">>, <<"a", "$(mute)">>,
   <<"NODE", "a", "a", "b">>, <<"HOME", "$(id)">>, <<"HOME", "USER", "a">>}

VariablesOf(name) ==
  {Var(name, "Default", text, node) : text \in ExpandedTexts, node \in {0, 2}}
    \cup {Var(name, mode, <<"HOME">>, 0) : mode \in {"Static", "Remove", "Inherit"}}
    \cup {Var(name, "Execfd", <<command>>, 0) : command \in {"$(id)", "$(mute)"}}

Spots == {<<0, 1>>, <<0, 0>>, <<1, 1>>, <<2, 0>>}

PathTexts == {<<"a">>, <<"a", ":", "b">>, <<"HOME">>, <<":">>, <<"NODE", "a">>, <<"LONG">>}

PathFamily(f) == [p \in Where |-> IF p \in DOMAIN f THEN f[p] ELSE Missing]

PathFamilies == {PathFamily(f) : f \in UNION {[{p, q, r} -> PathTexts] : p, q, r \in Spots}}

NoPath == [p \in Where |-> Missing]

Wishes(variables, path, ldpath) ==
  [variables |-> variables, paths |-> [name \in {"PATH", "LDPATH"} |-> IF name = "PATH" THEN path ELSE ldpath]]

Quiet == Wishes(<<>>, NoPath, NoPath)

Asking ==
  {Wishes(<<v>>, NoPath, NoPath) : v \in VariablesOf("X")}
    \cup {Wishes(<<v, w>>, NoPath, NoPath) : v \in VariablesOf("PATH"), w \in VariablesOf("X")}
    \cup {Wishes(<<>>, path, NoPath) : path \in PathFamilies}
    \cup {Wishes(<<Var("PATH", "Static", <<"HOME">>, 0)>>, path, path) :
            path \in {PathFamily(f) : f \in [{<<0, 0>>, <<2, 1>>} -> PathTexts]}}

Plain == {{}}

Chosen ==
  (Sparse \X {LeafSets(tags) : tags \in Identities} \X {Quiet} \X Plain)
    \cup (Filled({}) \X {LeafSets({"set-group"})} \X {Quiet} \X SUBSET EarlyTags)
    \cup (OneItem \X {LeafSets({})} \X {Quiet} \X Plain)
    \cup (Filled({}) \X Walked \X {Quiet} \X {{}, {"set-user"}})
    \cup (Filled({}) \X Dollars \X {Quiet} \X {{}, {"set-user"}})
    \cup (Filled({}) \X {LeafSets({})} \X Asking \X Plain)
(* No name of this instance is defined by itself.                          *)
ASSUME GroundedNames == \A d \in Contexts : NoLoop(d)
=============================================================================
