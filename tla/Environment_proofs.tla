------------------------- MODULE Environment_proofs --------------------------
(***************************************************************************)
(* Proofs about the variables that the program is given: what the          *)
(* expansion of a string keeps, what it writes and why it fails, for any   *)
(* strings, names, commands, sizes of buffers and depth of the family. A   *)
(* path only becomes shorter when it is cleaned; what is written and what  *)
(* is due of a string are together what it means.                          *)
(***************************************************************************)
EXTENDS Environment, RecursionTheorems, SequenceTheorems, FiniteSetTheorems

(* LastColon finds the last colon, if there is one.                        *)
LEMMA LastColonIs ==
  ASSUME NEW path \in Seq(Chars)
  PROVE  /\ LastColon(path) \in 0..Len(path)
         /\ LastColon(path) = 0 \/ path[LastColon(path)] = Colon
         /\ \A m \in (LastColon(path) + 1)..Len(path) : path[m] # Colon
<1> DEFINE T == {k \in 0..Len(path) : k = Len(path) \/ path[Len(path) - k] = Colon}
<1>1. Len(path) \in Nat
  OBVIOUS
<1>2. T \in SUBSET Nat /\ Len(path) \in T
  BY <1>1
<1>3. PICK k \in T : \A l \in T : k <= l
  <2> HIDE DEF T
  <2>1. QED
    BY <1>2, Least
<1> DEFINE n == Len(path) - k
<1>4. n \in 0..Len(path) /\ (n = 0 \/ path[n] = Colon)
  BY <1>1, <1>3
<1>5. ASSUME NEW m \in (n + 1)..Len(path)
      PROVE  path[m] # Colon
  <2>1. Len(path) - m \in 0..Len(path) /\ Len(path) - m < k /\ Len(path) - (Len(path) - m) = m
    BY <1>1, <1>3
  <2>2. Len(path) - m \notin T
    <3> HIDE DEF T
    <3>1. k \in Nat
      BY <1>2, <1>3
    <3>2. QED
      BY <1>3, <2>1, <3>1
  <2>3. QED
    BY <2>1, <2>2
<1>6. \E i \in 0..Len(path) :
        /\ i = 0 \/ path[i] = Colon
        /\ \A m \in (i + 1)..Len(path) : path[m] # Colon
  <2> HIDE DEF n
  <2>1. QED
    BY <1>4, <1>5
<1>7. QED
  BY <1>6, Zenon DEF LastColon

(* What comes before the last colon is shorter.                            *)
LEMMA BeforeColon ==
  ASSUME NEW path \in Seq(Chars), path # <<>>
  PROVE  /\ SubSeq(path, 1, LastColon(path) - 1) \in Seq(Chars)
         /\ Len(SubSeq(path, 1, LastColon(path) - 1)) =
              IF LastColon(path) = 0 THEN 0 ELSE LastColon(path) - 1
         /\ SubSeq(path, LastColon(path) + 1, Len(path)) \in Seq(Chars)
         /\ Len(SubSeq(path, LastColon(path) + 1, Len(path))) = Len(path) - LastColon(path)
         /\ \A m \in 1..(Len(path) - LastColon(path)) :
              SubSeq(path, LastColon(path) + 1, Len(path))[m] = path[LastColon(path) + m]
         /\ Len(SubSeq(path, 1, LastColon(path) - 1)) < Len(path)
         /\ Len(path) \in Nat
<1>1. LastColon(path) \in 0..Len(path) /\ Len(path) \in Nat \ {0}
  BY LastColonIs, EmptySeq
<1> DEFINE c == LastColon(path)
<1> HIDE DEF c
<1>2. c \in 0..Len(path)
  BY <1>1 DEF c
<1>3. \A i \in 1..(c - 1) : path[i] \in Chars
  BY <1>1, <1>2
<1>4. \A i \in (c + 1)..Len(path) : path[i] \in Chars
  BY <1>1, <1>2
<1>5. /\ SubSeq(path, 1, c - 1) \in Seq(Chars)
      /\ Len(SubSeq(path, 1, c - 1)) = IF 1 <= c - 1 THEN (c - 1) - 1 + 1 ELSE 0
  BY <1>1, <1>2, <1>3, SubSeqProperties
<1>6. /\ SubSeq(path, c + 1, Len(path)) \in Seq(Chars)
      /\ Len(SubSeq(path, c + 1, Len(path))) = IF c + 1 <= Len(path) THEN Len(path) - (c + 1) + 1 ELSE 0
      /\ \A i \in 1..(Len(path) - (c + 1) + 1) : SubSeq(path, c + 1, Len(path))[i] = path[c + 1 + i - 1]
  BY <1>1, <1>2, <1>4, SubSeqProperties
<1>7. QED
  BY <1>1, <1>2, <1>5, <1>6 DEF c

(* The elements of a path, by the recursion that defines them.             *)
LEMMA ElementsAre ==
  \A path \in Seq(Chars) :
    Elements[path] =
      IF path = <<>> THEN <<>>
      ELSE Elements[SubSeq(path, 1, LastColon(path) - 1)]
             \o (IF LastColon(path) = Len(path) THEN <<>>
                 ELSE <<SubSeq(path, LastColon(path) + 1, Len(path))>>)
<1> DEFINE S == Seq(Chars)
           R == Seq(Seq(Chars))
           Rest(x) == SubSeq(x, 1, LastColon(x) - 1)
           Own(x) == IF LastColon(x) = Len(x) THEN <<>> ELSE <<SubSeq(x, LastColon(x) + 1, Len(x))>>
           Body(x, g) == IF x = <<>> THEN <<>> ELSE g[Rest(x)] \o Own(x)
           rank == [x \in S |-> Len(x)]
           D == [x \in S |-> [g \in [S -> R] |-> Body(x, g)]]
<1>1. \A x \in S \ {<<>>} : Rest(x) \in S /\ Own(x) \in R /\ Len(Rest(x)) < Len(x)
  <2> TAKE x \in S \ {<<>>}
  <2>1. Own(x) \in R
    <3>1. SubSeq(x, LastColon(x) + 1, Len(x)) \in Seq(Chars)
      BY BeforeColon
    <3>2. QED
      BY <3>1
  <2>2. QED
    BY <2>1, BeforeColon
<1> HIDE DEF Rest, Own
<1>2. rank \in [S -> Nat]
  OBVIOUS
<1>3. D \in [S -> [[S -> R] -> R]]
  <2>1. \A x \in S, g \in [S -> R] : Body(x, g) \in R
    BY <1>1, ConcatProperties
  <2> HIDE DEF Body, S, R
  <2>2. QED
    BY <2>1
<1>4. ASSUME NEW x \in S, NEW g \in [S -> R], NEW h \in [S -> R],
             \A y \in S : rank[y] < rank[x] => g[y] = h[y]
      PROVE  D[x][g] = D[x][h]
  <2>1. x # <<>> => g[Rest(x)] = h[Rest(x)]
    BY <1>1, <1>4
  <2>2. Body(x, g) = Body(x, h)
    BY <2>1
  <2> HIDE DEF Body, S, R
  <2>3. QED
    BY <2>2
<1>5. R # {}
  BY EmptySeq
<1>6. PICK f \in [S -> R] : \A x \in S : f[x] = D[x][f]
  <2>1. \A x \in S : \A g, h \in [S -> R] :
          (\A y \in S : rank[y] < rank[x] => g[y] = h[y]) => D[x][g] = D[x][h]
    <3> HIDE DEF D
    <3>1. QED
      BY <1>4
  <2> HIDE DEF S, R, rank, D
  <2>2. Recursive(S, R, rank, D)
    BY <1>2, <1>3, <1>5, <2>1 DEF Recursive
  <2>3. QED
    BY <2>2, Recursion
<1>7. f = [x \in S |-> Body(x, f)]
  <2> HIDE DEF Body, S, R
  <2>1. \A x \in S : f[x] = Body(x, f)
    BY <1>6
  <2>2. QED
    BY <2>1
<1>8. Elements = [x \in S |-> Body(x, Elements)]
  BY <1>7, Zenon DEF Elements, Rest, Own
<1>9. QED
  BY <1>8 DEF Rest, Own

(* Joining, by the recursion that defines it.                              *)
LEMMA JoinedAre ==
  \A elements \in Seq(Seq(Chars)) :
    Joined[elements] =
      IF elements = <<>> THEN <<>>
      ELSE LET last == Len(elements)
               before == Joined[SubSeq(elements, 1, last - 1)]
           IN IF \E m \in 1..(last - 1) : elements[m] = elements[last] THEN before
              ELSE IF before = <<>> THEN elements[last]
              ELSE before \o <<Colon>> \o elements[last]
<1> DEFINE S == Seq(Seq(Chars))
           R == Seq(Chars)
           Front(x) == SubSeq(x, 1, Len(x) - 1)
           Again(x) == \E m \in 1..(Len(x) - 1) : x[m] = x[Len(x)]
           Body(x, g) == IF x = <<>> THEN <<>>
                         ELSE IF Again(x) THEN g[Front(x)]
                         ELSE IF g[Front(x)] = <<>> THEN x[Len(x)]
                         ELSE g[Front(x)] \o <<Colon>> \o x[Len(x)]
           rank == [x \in S |-> Len(x)]
           D == [x \in S |-> [g \in [S -> R] |-> Body(x, g)]]
<1>1. \A x \in S \ {<<>>} : Front(x) \in S /\ Len(Front(x)) < Len(x) /\ x[Len(x)] \in R
  <2> SUFFICES ASSUME NEW x \in Seq(Seq(Chars)), x # <<>>
               PROVE  /\ SubSeq(x, 1, Len(x) - 1) \in Seq(Seq(Chars))
                      /\ Len(SubSeq(x, 1, Len(x) - 1)) < Len(x) /\ x[Len(x)] \in Seq(Chars)
    OBVIOUS
  <2>1. Len(x) \in Nat \ {0} /\ \A i \in 1..Len(x) : x[i] \in Seq(Chars)
    BY EmptySeq, ElementOfSeq
  <2>2. QED
    BY <2>1, SubSeqProperties
<1> HIDE DEF Front, Again
<1>2. rank \in [S -> Nat]
  OBVIOUS
<1>3. D \in [S -> [[S -> R] -> R]]
  <2>1. ASSUME NEW x \in S, NEW g \in [S -> R]
        PROVE  Body(x, g) \in R
    <3>1. x # <<>> => g[Front(x)] \in Seq(Chars) /\ x[Len(x)] \in Seq(Chars)
      BY <1>1
    <3>2. <<Colon>> \in Seq(Chars) /\ <<>> \in Seq(Chars)
      BY EnvironmentAssumption
    <3>3. QED
      BY <3>1, <3>2, ConcatProperties
  <2> HIDE DEF Body, S, R
  <2>2. QED
    BY <2>1
<1>4. ASSUME NEW x \in S, NEW g \in [S -> R], NEW h \in [S -> R],
             \A y \in S : rank[y] < rank[x] => g[y] = h[y]
      PROVE  D[x][g] = D[x][h]
  <2>1. x # <<>> => g[Front(x)] = h[Front(x)]
    BY <1>1, <1>4
  <2>2. Body(x, g) = Body(x, h)
    BY <2>1
  <2> HIDE DEF Body, S, R
  <2>3. QED
    BY <2>2
<1>5. R # {}
  BY EmptySeq
<1>6. PICK f \in [S -> R] : \A x \in S : f[x] = D[x][f]
  <2>1. \A x \in S : \A g, h \in [S -> R] :
          (\A y \in S : rank[y] < rank[x] => g[y] = h[y]) => D[x][g] = D[x][h]
    <3> HIDE DEF D
    <3>1. QED
      BY <1>4
  <2> HIDE DEF S, R, rank, D
  <2>2. Recursive(S, R, rank, D)
    BY <1>2, <1>3, <1>5, <2>1 DEF Recursive
  <2>3. QED
    BY <2>2, Recursion
<1>7. f = [x \in S |-> Body(x, f)]
  <2> HIDE DEF Body, S, R
  <2>1. \A x \in S : f[x] = Body(x, f)
    BY <1>6
  <2>2. QED
    BY <2>1
<1>8. Joined = [x \in S |-> Body(x, Joined)]
  BY <1>7, Zenon DEF Joined, Front, Again
<1>9. QED
  BY <1>8 DEF Front, Again

(* The elements of a path are strings of characters.                       *)
LEMMA ElementsType == \A path \in Seq(Chars) : Elements[path] \in Seq(Seq(Chars))
<1> DEFINE S == Seq(Chars)
           T == {path \in S : Elements[path] \in Seq(Seq(Chars))}
           rank == [path \in S |-> Len(path)]
<1>1. ASSUME NEW path \in S, \A y \in S : rank[y] < rank[path] => y \in T
      PROVE  path \in T
  <2>1. CASE path = <<>>
    <3>1. Elements[path] = <<>>
      BY <2>1, ElementsAre
    <3>2. QED
      BY <3>1, EmptySeq
  <2>2. CASE path # <<>>
    <3> DEFINE rest == SubSeq(path, 1, LastColon(path) - 1)
               own == IF LastColon(path) = Len(path) THEN <<>>
                      ELSE <<SubSeq(path, LastColon(path) + 1, Len(path))>>
    <3>1. Elements[path] = Elements[rest] \o own
      BY <2>2, ElementsAre
    <3>2. rest \in S /\ Len(rest) < Len(path)
      BY <2>2, BeforeColon
    <3>3. own \in Seq(Seq(Chars))
      <4>1. SubSeq(path, LastColon(path) + 1, Len(path)) \in Seq(Chars)
        BY <2>2, BeforeColon
      <4>2. QED
        BY <4>1
    <3>4. Elements[rest] \in Seq(Seq(Chars))
      <4> HIDE DEF rest
      <4>1. QED
        BY <1>1, <3>2
    <3> HIDE DEF rest, own
    <3>5. QED
      BY <3>1, <3>3, <3>4, ConcatProperties
  <2>3. QED
    BY <2>1, <2>2
<1>2. rank \in [S -> Nat] /\ T \subseteq S
  OBVIOUS
<1>3. S = T
  <2> HIDE DEF S, T, rank
  <2>1. QED
    BY <1>1, <1>2, RankInduction
<1>4. QED
  BY <1>3

(* Without its last element a sequence is what that was appended to.       *)
LEMMA FrontAppended ==
  ASSUME NEW S, NEW s \in Seq(S), NEW e \in S
  PROVE  SubSeq(Append(s, e), 1, Len(Append(s, e)) - 1) = s
<1> DEFINE t == Append(s, e)
<1>1. t \in Seq(S) /\ Len(t) = Len(s) + 1 /\ Len(s) \in Nat /\ \A i \in 1..Len(s) : t[i] = s[i]
  BY AppendProperties, LenProperties
<1> HIDE DEF t
<1>2. \A i \in 1..Len(s) : t[i] \in S
  BY <1>1
<1>3. /\ SubSeq(t, 1, Len(s)) \in Seq(S) /\ Len(SubSeq(t, 1, Len(s))) = Len(s)
      /\ \A i \in 1..Len(s) : SubSeq(t, 1, Len(s))[i] = s[i]
  BY <1>1, <1>2, SubSeqProperties
<1>4. Len(t) - 1 = Len(s)
  BY <1>1
<1>5. SubSeq(t, 1, Len(t) - 1) = s
  BY <1>3, <1>4, SeqEqual
<1>6. QED
  BY <1>5 DEF t

(* Joining one more element.                                               *)
LEMMA JoinedAppend ==
  ASSUME NEW s \in Seq(Seq(Chars)), NEW e \in Seq(Chars), Joined[s] \in Seq(Chars)
  PROVE  /\ Joined[s \o <<e>>] \in Seq(Chars)
         /\ Len(Joined[s \o <<e>>]) <= Len(Joined[s]) + 1 + Len(e)
         /\ s = <<>> => Joined[s \o <<e>>] = e
<1> DEFINE t == s \o <<e>>
<1>1. t = Append(s, e)
  BY AppendIsConcat
<1>2. /\ t \in Seq(Seq(Chars)) /\ t # <<>> /\ Len(t) = Len(s) + 1 /\ t[Len(t)] = e
      /\ Len(s) \in Nat /\ Len(e) \in Nat /\ Len(Joined[s]) \in Nat
      /\ \A i \in 1..Len(s) : t[i] = s[i]
  BY <1>1, AppendProperties
<1>3. SubSeq(t, 1, Len(t) - 1) = s
  BY <1>1, FrontAppended
<1> HIDE DEF t
<1>4. \/ Joined[t] = Joined[s] /\ \E m \in 1..Len(s) : TRUE
      \/ Joined[t] = e
      \/ Joined[s] # <<>> /\ Joined[t] = Joined[s] \o <<Colon>> \o e
  <2>1. Len(t) - 1 = Len(s)
    BY <1>2
  <2>2. Joined[t] = IF \E m \in 1..(Len(t) - 1) : t[m] = t[Len(t)] THEN Joined[s]
                    ELSE IF Joined[s] = <<>> THEN t[Len(t)]
                    ELSE Joined[s] \o <<Colon>> \o t[Len(t)]
    BY <1>2, <1>3, JoinedAre
  <2>3. QED
    BY <1>2, <2>1, <2>2
<1>5. s = <<>> => Joined[t] = e
  <2>1. s = <<>> => Joined[s] = <<>> /\ Len(s) = 0
    BY JoinedAre
  <2>2. QED
    BY <1>4, <2>1
<1>6. Joined[s] \o <<Colon>> \o e \in Seq(Chars)
      /\ Len(Joined[s] \o <<Colon>> \o e) = Len(Joined[s]) + 1 + Len(e)
  <2>1. <<Colon>> \in Seq(Chars) /\ Len(<<Colon>>) = 1
    BY EnvironmentAssumption
  <2>2. Joined[s] \o <<Colon>> \in Seq(Chars) /\ Len(Joined[s] \o <<Colon>>) = Len(Joined[s]) + 1
    BY <2>1, ConcatProperties
  <2>3. QED
    BY <2>2, ConcatProperties
<1>7. Joined[t] \in Seq(Chars) /\ Len(Joined[t]) <= Len(Joined[s]) + 1 + Len(e)
  <2>1. CASE Joined[t] = Joined[s] \/ Joined[t] = e
    BY <1>2, <2>1
  <2>2. CASE Joined[t] = Joined[s] \o <<Colon>> \o e
    <3> DEFINE u == Joined[s] \o <<Colon>> \o e
    <3>1. u \in Seq(Chars) /\ Len(u) = Len(Joined[s]) + 1 + Len(e) /\ Joined[t] = u
      BY <1>6, <2>2
    <3> HIDE DEF u
    <3>2. QED
      BY <1>2, <3>1
  <2>3. QED
    BY <1>4, <2>1, <2>2
<1>8. QED
  BY <1>5, <1>7 DEF t

(* A path does not get longer by being cleaned, in place.                  *)
LEMMA CleanShortens ==
  \A path \in Seq(Chars) : Clean(path) \in Seq(Chars) /\ Len(Clean(path)) <= Len(path)
<1> DEFINE S == Seq(Chars)
           T == {path \in S : Clean(path) \in Seq(Chars) /\ Len(Clean(path)) <= Len(path)}
           rank == [path \in S |-> Len(path)]
<1>0. Joined[<<>>] = <<>>
  BY JoinedAre, EmptySeq
<1>1. ASSUME NEW path \in S, \A y \in S : rank[y] < rank[path] => y \in T
      PROVE  path \in T
  <2>1. CASE path = <<>>
    <3>1. Elements[path] = <<>>
      BY <2>1, ElementsAre
    <3>2. Clean(path) = <<>>
      BY <1>0, <3>1 DEF Clean
    <3>3. Clean(path) \in Seq(Chars) /\ Len(Clean(path)) <= Len(path)
      <4> HIDE DEF rank
      <4>1. Clean(path) = path /\ path \in Seq(Chars)
        BY <2>1, <3>2
      <4>2. QED
        BY <4>1
    <3>4. QED
      BY <3>3
  <2>2. CASE path # <<>>
    <3> DEFINE c == LastColon(path)
               rest == SubSeq(path, 1, LastColon(path) - 1)
               last == SubSeq(path, LastColon(path) + 1, Len(path))
    <3>1. Elements[path] = Elements[rest] \o (IF c = Len(path) THEN <<>> ELSE <<last>>)
      BY <2>2, ElementsAre
    <3>2. /\ rest \in S /\ Len(rest) = (IF c = 0 THEN 0 ELSE c - 1) /\ Len(rest) < Len(path)
          /\ last \in Seq(Chars) /\ Len(last) = Len(path) - c
          /\ c \in 0..Len(path) /\ Len(path) \in Nat
      BY <2>2, BeforeColon, LastColonIs
    <3> HIDE DEF c, rest, last
    <3>3. Joined[Elements[rest]] \in Seq(Chars) /\ Len(Joined[Elements[rest]]) <= Len(rest)
      BY <1>1, <3>2 DEF Clean
    <3>4. Elements[rest] \in Seq(Seq(Chars))
      BY <3>2, ElementsType
    <3>5. CASE c = Len(path)
      <4>1. Elements[path] = Elements[rest]
        BY <3>1, <3>4, <3>5, ConcatEmptySeq
      <4>2. QED
        BY <3>2, <3>3, <4>1 DEF Clean
    <3>6. CASE c # Len(path)
      <4>1. Elements[path] = Elements[rest] \o <<last>>
        BY <3>1, <3>6
      <4>2. /\ Joined[Elements[path]] \in Seq(Chars)
            /\ Len(Joined[Elements[path]]) <= Len(Joined[Elements[rest]]) + 1 + Len(last)
            /\ Elements[rest] = <<>> => Joined[Elements[path]] = last
        BY <3>2, <3>3, <3>4, <4>1, JoinedAppend
      <4>3. Len(Joined[Elements[rest]]) \in Nat /\ Len(Joined[Elements[path]]) \in Nat
        BY <3>3, <4>2
      <4>4. CASE c = 0
        <5>1. rest = <<>>
          BY <3>2, <4>4, EmptySeq
        <5>2. Elements[rest] = <<>>
          BY <5>1, ElementsAre, <3>2
        <5>3. QED
          BY <3>2, <4>2, <4>4, <5>2 DEF Clean
      <4>5. CASE c # 0
        BY <3>2, <3>3, <4>2, <4>3, <4>5 DEF Clean
      <4>6. QED
        BY <4>4, <4>5
    <3>7. QED
      BY <3>5, <3>6
  <2>3. QED
    BY <2>1, <2>2
<1>2. rank \in [S -> Nat] /\ T \subseteq S
  OBVIOUS
<1>3. S = T
  <2> HIDE DEF S, T, rank
  <2>1. QED
    BY <1>1, <1>2, RankInduction
<1>4. QED
  BY <1>3

(* Each string is expanded in the one before it.  The first goes to the    *)
(* buffer, and only its commands are run: one that is under expansion is   *)
(* the next of its tokens.                                                 *)
Stacked(stack) ==
  \A k \in 1..Len(stack) :
    /\ stack[k].withcmd => k = 1
    /\ k = 1 => stack[k].into = "buffer"
    /\ k > 1 /\ stack[k].into = "line" /\ stack[k - 1].into = "buffer" =>
         /\ stack[k - 1].withcmd
         /\ stack[k - 1].rest # <<>> /\ Head(stack[k - 1].rest) \in Commands

(* Shortened takes one token from the string on top, and leaves the others *)
(* alone.                                                                  *)
LEMMA ShortenedIs ==
  ASSUME NEW s \in Seq(Frame), s # <<>>, s[Len(s)].rest # <<>>
  PROVE  /\ Len(s) \in Nat \ {0} /\ s[Len(s)] \in Frame
         /\ Head(s[Len(s)].rest) \in Token
         /\ Shortened(s) \in Seq(Frame) /\ Len(Shortened(s)) = Len(s)
         /\ \A k \in 1..Len(s) :
              Shortened(s)[k] =
                IF k = Len(s) THEN [rest |-> Tail(s[Len(s)].rest), withcmd |-> s[Len(s)].withcmd,
                                    into |-> s[Len(s)].into]
                ELSE s[k]
<1> DEFINE n == Len(s)
           e == [rest |-> Tail(s[n].rest), withcmd |-> s[n].withcmd, into |-> s[n].into]
<1>1. n \in Nat \ {0} /\ n \in 1..Len(s)
  BY EmptySeq
<1>2. s[n] \in Frame
  BY <1>1, ElementOfSeq
<1>3. s[n].rest \in Seq(Token)
  BY <1>2 DEF Frame, String
<1>4. Head(s[n].rest) \in Token /\ Tail(s[n].rest) \in Seq(Token)
  BY <1>3, HeadTailProperties
<1>5. e \in Frame
  BY <1>2, <1>4 DEF Frame, String
<1>6. [s[n] EXCEPT !.rest = Tail(@)] = e
  BY <1>2 DEF Frame
<1>7. Shortened(s) = [s EXCEPT ![n] = e]
  BY <1>1, <1>6 DEF Shortened
<1>8. /\ Shortened(s) \in Seq(Frame) /\ Len(Shortened(s)) = Len(s)
      /\ \A k \in 1..Len(s) : Shortened(s)[k] = IF k = n THEN e ELSE s[k]
  <2> HIDE DEF e, n
  <2>1. QED
    BY <1>1, <1>5, <1>7, ExceptSeq
<1>9. QED
  BY <1>1, <1>2, <1>4, <1>8

(* The stack is in order once a token of the top is dealt with,            *)
LEMMA StackedShortened ==
  ASSUME NEW s \in Seq(Frame), s # <<>>, s[Len(s)].rest # <<>>, Stacked(s)
  PROVE  Stacked(Shortened(s))
<1>1. \A k \in 1..Len(s) : /\ Shortened(s)[k].withcmd = s[k].withcmd
                           /\ Shortened(s)[k].into = s[k].into
                           /\ k < Len(s) => Shortened(s)[k].rest = s[k].rest
  <2> TAKE k \in 1..Len(s)
  <2>1. /\ Len(s) \in Nat
        /\ Shortened(s)[k] =
             IF k = Len(s) THEN [rest |-> Tail(s[Len(s)].rest), withcmd |-> s[Len(s)].withcmd,
                                 into |-> s[Len(s)].into]
             ELSE s[k]
    BY ShortenedIs
  <2>2. CASE k = Len(s)
    BY <2>1, <2>2
  <2>3. CASE k # Len(s)
    BY <2>1, <2>3
  <2>4. QED
    BY <2>2, <2>3
<1>2. Len(Shortened(s)) = Len(s) /\ Len(s) \in Nat
  BY ShortenedIs
<1>3. SUFFICES ASSUME NEW k \in 1..Len(s)
               PROVE  /\ Shortened(s)[k].withcmd => k = 1
                      /\ k = 1 => Shortened(s)[k].into = "buffer"
                      /\ k > 1 /\ Shortened(s)[k].into = "line" /\ Shortened(s)[k - 1].into = "buffer" =>
                           /\ Shortened(s)[k - 1].withcmd
                           /\ Shortened(s)[k - 1].rest # <<>>
                           /\ Head(Shortened(s)[k - 1].rest) \in Commands
  BY <1>2 DEF Stacked
<1>4. k > 1 => k - 1 \in 1..Len(s) /\ k - 1 < Len(s)
  BY <1>2
<1>5. QED
  BY <1>1, <1>4 DEF Stacked

(* once the text of a name or of a command is put on top,                  *)
LEMMA StackedPushed ==
  ASSUME NEW s \in Seq(Frame), NEW f \in Frame, Stacked(s), s # <<>>, ~ f.withcmd,
         f.into = "line" /\ s[Len(s)].into = "buffer" =>
           /\ s[Len(s)].withcmd
           /\ s[Len(s)].rest # <<>> /\ Head(s[Len(s)].rest) \in Commands
  PROVE  Append(s, f) \in Seq(Frame) /\ Stacked(Append(s, f))
<1> DEFINE t == Append(s, f)
<1>1. /\ t \in Seq(Frame) /\ Len(t) = Len(s) + 1 /\ Len(s) \in Nat \ {0}
      /\ \A i \in 1..Len(s) : t[i] = s[i]
      /\ t[Len(s) + 1] = f
  BY AppendProperties, EmptySeq
<1> HIDE DEF t
<1>2. ASSUME NEW k \in 1..Len(t)
      PROVE  /\ t[k].withcmd => k = 1
             /\ k = 1 => t[k].into = "buffer"
             /\ k > 1 /\ t[k].into = "line" /\ t[k - 1].into = "buffer" =>
                  /\ t[k - 1].withcmd
                  /\ t[k - 1].rest # <<>> /\ Head(t[k - 1].rest) \in Commands
  <2>1. CASE k \in 1..Len(s)
    <3>1. t[k] = s[k] /\ (k > 1 => t[k - 1] = s[k - 1])
      BY <1>1, <2>1
    <3>2. QED
      BY <2>1, <3>1 DEF Stacked
  <2>2. CASE k = Len(s) + 1
    <3>1. t[k] = f /\ t[k - 1] = s[Len(s)] /\ k # 1
      BY <1>1, <2>2
    <3>2. QED
      BY <3>1
  <2>3. QED
    BY <1>1, <2>1, <2>2
<1>3. QED
  BY <1>1, <1>2 DEF Stacked, t

(* and once the top is expanded and removed.                               *)
LEMMA StackedPopped ==
  ASSUME NEW s \in Seq(Frame), Stacked(s), s # <<>>
  PROVE  /\ SubSeq(s, 1, Len(s) - 1) \in Seq(Frame)
         /\ Stacked(SubSeq(s, 1, Len(s) - 1))
         /\ Len(SubSeq(s, 1, Len(s) - 1)) = Len(s) - 1
         /\ \A k \in 1..(Len(s) - 1) : SubSeq(s, 1, Len(s) - 1)[k] = s[k]
<1> DEFINE t == SubSeq(s, 1, Len(s) - 1)
<1>1. Len(s) \in Nat \ {0} /\ \A i \in 1..(Len(s) - 1) : s[i] \in Frame
  BY EmptySeq, ElementOfSeq
<1>2. /\ t \in Seq(Frame) /\ Len(t) = Len(s) - 1
      /\ \A i \in 1..(Len(s) - 1) : t[i] = s[i]
  <2> DEFINE n == Len(s) - 1
  <2>1. n \in Nat /\ \A i \in 1..n : s[i] \in Frame
    BY <1>1
  <2> HIDE DEF n
  <2>2. /\ SubSeq(s, 1, n) \in Seq(Frame)
        /\ Len(SubSeq(s, 1, n)) = IF 1 <= n THEN n - 1 + 1 ELSE 0
        /\ \A i \in 1..(n - 1 + 1) : SubSeq(s, 1, n)[i] = s[1 + i - 1]
    BY <2>1, SubSeqProperties
  <2>3. n - 1 + 1 = n /\ \A i \in 1..n : 1 + i - 1 = i
    BY <2>1
  <2>4. Len(SubSeq(s, 1, n)) = n /\ \A i \in 1..n : SubSeq(s, 1, n)[i] = s[i]
    BY <2>1, <2>2, <2>3
  <2>5. QED
    BY <2>2, <2>4 DEF n
<1> HIDE DEF t
<1>3. ASSUME NEW k \in 1..Len(t)
      PROVE  /\ t[k].withcmd => k = 1
             /\ k = 1 => t[k].into = "buffer"
             /\ k > 1 /\ t[k].into = "line" /\ t[k - 1].into = "buffer" =>
                  /\ t[k - 1].withcmd
                  /\ t[k - 1].rest # <<>> /\ Head(t[k - 1].rest) \in Commands
  <2>1. k \in 1..Len(s) /\ t[k] = s[k] /\ (k > 1 => t[k - 1] = s[k - 1])
    BY <1>1, <1>2
  <2>2. QED
    BY <2>1 DEF Stacked
<1>4. QED
  BY <1>2, <1>3 DEF Stacked, t

(* A step of an expansion keeps the types, the stack, and the bounds of    *)
(* both buffers.                                                           *)
LEMMA ExpandTypeStep ==
  ASSUME ExpandTypeOK, Stacked(frames), NEW size \in Nat, Len(buffer) <= size,
         NEW node \in Contexts, ExpandStep(node, size) \/ CommandFails
  PROVE  ExpandTypeOK' /\ Stacked(frames)' /\ Len(buffer') <= size
<1> DEFINE Goal == ExpandTypeOK' /\ Stacked(frames') /\ Len(buffer') <= size
<1>1. Running /\ Len(frames) \in Nat \ {0} /\ Top \in Frame /\ frames \in Seq(Frame)
  <2>1. Running
    BY DEF ExpandStep, PutChar, GetDefault, SkipCommand, ReadCommand, RunCommand,
       ExpandReturns, CommandFails, CommandRead
  <2>2. frames \in Seq(Frame) /\ frames # <<>>
    BY <2>1 DEF Running, ExpandTypeOK
  <2>3. Len(frames) \in Nat \ {0}
    BY <2>2, EmptySeq
  <2>4. Len(frames) \in 1..Len(frames)
    BY <2>3
  <2>5. QED
    BY <2>1, <2>2, <2>3, <2>4, ElementOfSeq DEF Top
<1>2. frames # <<>>
  BY <1>1 DEF Running
<1>3. <<>> \in Seq(Frame) /\ Stacked(<<>>)
  BY EmptySeq DEF Stacked
<1>4. Top.rest # <<>> => Shortened(frames) \in Seq(Frame) /\ Stacked(Shortened(frames))
                         /\ First \in Token /\ Shortened(frames) # <<>>
                         /\ Shortened(frames)[Len(Shortened(frames))].into = Top.into
  <2> SUFFICES ASSUME Top.rest # <<>>
               PROVE  Shortened(frames) \in Seq(Frame) /\ Stacked(Shortened(frames))
                         /\ First \in Token /\ Shortened(frames) # <<>>
                         /\ Shortened(frames)[Len(Shortened(frames))].into = Top.into
    OBVIOUS
  <2>1. /\ First \in Token
        /\ Shortened(frames) \in Seq(Frame) /\ Len(Shortened(frames)) = Len(frames)
        /\ \A k \in 1..Len(frames) :
             Shortened(frames)[k] =
               IF k = Len(frames) THEN [rest |-> Tail(Top.rest), withcmd |-> Top.withcmd,
                                   into |-> Top.into]
               ELSE frames[k]
    BY <1>1, <1>2, ShortenedIs DEF Top, First
  <2>2. Len(frames) \in 1..Len(frames) /\ Shortened(frames) # <<>>
    BY <1>1, <2>1
  <2>3. Stacked(Shortened(frames))
    BY <1>1, <1>2, StackedShortened DEF Top
  <2>4. Shortened(frames)[Len(Shortened(frames))].into = Top.into
    BY <2>1, <2>2
  <2>5. QED
    BY <2>1, <2>2, <2>3, <2>4
<1>5. /\ buffer \in Seq(Chars) /\ line \in Seq(Chars) /\ Len(line) <= Small /\ overrun \in BOOLEAN
      /\ Len(buffer) \in Nat /\ Len(line) \in Nat /\ Small \in Nat /\ answer = "run"
  BY <1>1, ExpandAssumption DEF ExpandTypeOK, Running
<1>6. CASE PutChar(size)
  <2>1. First \in Chars /\ Top.rest # <<>> /\ overrun' = overrun
    BY <1>6 DEF PutChar
  <2>2. CASE /\ Len(buffer) < size /\ buffer' = Append(buffer, First)
             /\ frames' = Shortened(frames) /\ UNCHANGED <<line, answer>>
    <3>1. Append(buffer, First) \in Seq(Chars) /\ Len(Append(buffer, First)) = Len(buffer) + 1
      BY <1>5, <2>1, AppendProperties
    <3>2. QED
      BY <1>4, <1>5, <2>1, <2>2, <3>1 DEF ExpandTypeOK
  <2>3. CASE /\ Len(line) < Small /\ line' = Append(line, First)
             /\ frames' = Shortened(frames) /\ UNCHANGED <<buffer, answer>>
    <3>1. Append(line, First) \in Seq(Chars) /\ Len(Append(line, First)) = Len(line) + 1
      BY <1>5, <2>1, AppendProperties
    <3>2. QED
      BY <1>4, <1>5, <2>1, <2>3, <3>1 DEF ExpandTypeOK
  <2>4. CASE Refuse /\ UNCHANGED <<buffer, line>>
    BY <1>3, <1>5, <2>1, <2>4 DEF ExpandTypeOK, Refuse
  <2>5. QED
    BY <1>6, <2>2, <2>3, <2>4 DEF PutChar
<1>7. CASE GetDefault(node)
  <2>1. First \in Names /\ Top.rest # <<>> /\ UNCHANGED <<buffer, line, overrun>>
    BY <1>7 DEF GetDefault
  <2>2. CASE Refuse
    BY <1>3, <1>5, <2>1, <2>2 DEF ExpandTypeOK, Refuse
  <2>3. CASE frames' = Append(Shortened(frames), Inner(Meant(First, node))) /\ UNCHANGED answer
    <3> DEFINE f == Inner(Meant(First, node))
    <3>1. Meant(First, node) \in String
      BY <2>1, ExpandAssumption DEF Meant
    <3>2. f \in Frame /\ ~ f.withcmd /\ f.into = Top.into
      BY <1>1, <3>1 DEF Inner, Frame
    <3> HIDE DEF f
    <3>3. ~ (f.into = "line" /\ Shortened(frames)[Len(Shortened(frames))].into = "buffer")
      BY <1>4, <2>1, <3>2
    <3>4. frames' \in Seq(Frame) /\ Stacked(frames')
      BY <1>4, <2>1, <2>3, <3>2, <3>3, StackedPushed DEF f
    <3>5. QED
      BY <1>5, <2>1, <2>3, <3>4 DEF ExpandTypeOK
  <2>4. QED
    BY <1>7, <2>2, <2>3 DEF GetDefault
<1>8. CASE SkipCommand
  BY <1>4, <1>5, <1>8 DEF SkipCommand, ExpandTypeOK
<1>9. CASE ReadCommand
  <2>1. /\ First \in Commands /\ Top.rest # <<>> /\ Top.withcmd
        /\ UNCHANGED <<buffer, answer, overrun>> /\ line' = <<>>
    BY <1>9 DEF ReadCommand
  <2> DEFINE f == [rest |-> Text[First], withcmd |-> FALSE, into |-> "line"]
  <2>2. frames' = Append(frames, f)
    BY <1>9 DEF ReadCommand
  <2>3. Text[First] \in String
    BY <2>1, ExpandAssumption
  <2>4. f \in Frame /\ ~ f.withcmd
    BY <2>3 DEF Frame
  <2> HIDE DEF f
  <2>5. frames' \in Seq(Frame) /\ Stacked(frames')
    BY <1>1, <1>2, <2>1, <2>2, <2>4, StackedPushed DEF Top, First
  <2>6. line' \in Seq(Chars) /\ Len(line') <= Small
    BY <1>5, <2>1
  <2>7. QED
    BY <1>5, <2>1, <2>5, <2>6 DEF ExpandTypeOK
<1>10. ASSUME CommandRead
       PROVE  LET below == SubSeq(frames, 1, Len(frames) - 1) IN
                /\ below \in Seq(Frame) /\ Stacked(below) /\ below # <<>>
                /\ below[Len(below)].rest # <<>>
                /\ Head(below[Len(below)].rest) \in Commands
  <2> DEFINE below == SubSeq(frames, 1, Len(frames) - 1)
  <2>1. Top.into = "line" /\ frames[Len(frames) - 1].into = "buffer"
    BY <1>10 DEF CommandRead
  <2>2. Len(frames) # 1 /\ Len(frames) \in 1..Len(frames)
    BY <1>1, <2>1 DEF Stacked, Top
  <2>3. Len(frames) - 1 \in 1..(Len(frames) - 1)
    <3>1. PICK n \in Nat \ {0} : n = Len(frames)
      BY <1>1
    <3>2. n - 1 \in 1..(n - 1)
      BY <2>2, <3>1
    <3>3. QED
      BY <3>1, <3>2
  <2>4. /\ below \in Seq(Frame) /\ Stacked(below) /\ Len(below) = Len(frames) - 1
        /\ \A k \in 1..(Len(frames) - 1) : below[k] = frames[k]
    BY <1>1, <1>2, StackedPopped
  <2> HIDE DEF below
  <2>5. below[Len(below)] = frames[Len(frames) - 1] /\ below # <<>>
    BY <1>1, <2>2, <2>3, <2>4
  <2>6. frames[Len(frames) - 1].rest # <<>> /\ Head(frames[Len(frames) - 1].rest) \in Commands
    BY <1>1, <2>1, <2>2 DEF Stacked, Top
  <2>7. QED
    BY <2>4, <2>5, <2>6 DEF below
<1>11. CASE RunCommand(size)
  <2> DEFINE below == SubSeq(frames, 1, Len(frames) - 1)
             command == Head(below[Len(below)].rest)
  <2>1. CommandRead /\ UNCHANGED line /\ overrun' \in BOOLEAN
    BY <1>5, <1>11 DEF RunCommand
  <2>2. /\ below \in Seq(Frame) /\ Stacked(below) /\ below # <<>>
        /\ below[Len(below)].rest # <<>> /\ command \in Commands
    BY <1>10, <2>1
  <2>3. \/ /\ Printed(command, size - Len(buffer))
           /\ buffer' = buffer \o Prints[command]
           /\ frames' = Shortened(below)
           /\ UNCHANGED answer
        \/ Refuse /\ UNCHANGED buffer
    BY <1>11 DEF RunCommand
  <2> HIDE DEF below, command
  <2>4. CASE Refuse /\ UNCHANGED buffer
    BY <1>3, <1>5, <2>1, <2>4 DEF ExpandTypeOK, Refuse
  <2>5. CASE /\ Printed(command, size - Len(buffer))
             /\ buffer' = buffer \o Prints[command]
             /\ frames' = Shortened(below)
             /\ UNCHANGED answer
    <3>1. Prints[command] \in Seq(Chars) /\ Len(Prints[command]) < size - Len(buffer)
      BY <2>2, <2>5, ExpandAssumption DEF Printed
    <3>2. buffer' \in Seq(Chars) /\ Len(buffer') = Len(buffer) + Len(Prints[command])
      BY <1>5, <2>5, <3>1, ConcatProperties
    <3>3. Len(Prints[command]) \in Nat
      BY <3>1
    <3>4. frames' \in Seq(Frame) /\ Stacked(frames')
      BY <2>2, <2>5, ShortenedIs, StackedShortened
    <3>5. Len(buffer') <= size
      BY <1>5, <3>1, <3>2, <3>3
    <3>6. QED
      BY <1>5, <2>1, <2>5, <3>2, <3>4, <3>5 DEF ExpandTypeOK
  <2>6. QED
    BY <2>3, <2>4, <2>5
<1>12. CASE ExpandReturns
  BY <1>1, <1>2, <1>5, <1>12, StackedPopped DEF ExpandReturns, ExpandTypeOK
<1>13. CASE CommandFails
  BY <1>3, <1>5, <1>13 DEF CommandFails, Refuse, ExpandTypeOK
<1>14. QED
  BY <1>6, <1>7, <1>8, <1>9, <1>11, <1>12, <1>13 DEF ExpandStep, Stacked

(* What is being expanded is the variable, or the path, that is next.      *)
StringHere == IF part = "variables" THEN Current.value ELSE PathHere

(* A string is expanded only when it is the turn of one.                   *)
Expands ==
  /\ Stacked(frames)
  /\ index >= 1
  /\ part = "variables" /\ expanding => index <= Len(wish.variables) /\ Current.mode = "Default"
  /\ part = "paths" /\ expanding => AtPlace /\ PathHere # Missing

(* What families say of the environment has its types.                     *)
LEMMA CurrentType ==
  ASSUME EnvironmentTypeOK, index \in 1..Len(wish.variables)
  PROVE  /\ Current \in Variable
         /\ Current.name \in VarNames /\ Current.value \in String /\ Current.node \in Contexts
         /\ Current.mode = "Execfd" => Head(Current.value) \in Commands
<1>1. wish.variables \in Seq(Variable)
  BY DEF EnvironmentTypeOK, Wish, Variables
<1>2. Current \in Variable
  BY <1>1, ElementOfSeq DEF Current
<1>3. QED
  BY <1>2 DEF Variable

(* The path that is read is that of a configuration of the family.         *)
LEMMA PathHereType ==
  ASSUME EnvironmentTypeOK, index >= 1, AtPlace
  PROVE  /\ place \in Where /\ place[1] \in Contexts
         /\ Searched[index] \in VarNames
         /\ PathHere \in String \cup {Missing}
         /\ PlaceAfter \in (0..Nodes) \X {0, 1}
<1>1. index \in 1..Len(Searched) /\ Nodes \in Nat
  BY EnvironmentAssumption DEF EnvironmentTypeOK, AtPlace
<1>2. Searched[index] \in VarNames /\ Searched[index] \in {Searched[n] : n \in 1..Len(Searched)}
  BY <1>1, ElementOfSeq, EnvironmentAssumption
<1>3. place \in (0..Nodes) \X {0, 1} /\ place[1] < Nodes
  BY DEF EnvironmentTypeOK, AtPlace
<1>4. place[1] \in 0..(Nodes - 1) /\ place[2] \in {0, 1} /\ place = <<place[1], place[2]>>
  BY <1>1, <1>3
<1>5. place \in Where /\ place[1] \in Contexts
  BY <1>4, EnvironmentAssumption DEF Where
<1>6. wish.paths \in [{Searched[n] : n \in 1..Len(Searched)} -> [Where -> String \cup {Missing}]]
  BY DEF EnvironmentTypeOK, Wish, SearchedNames
<1>7. PathHere \in String \cup {Missing}
  BY <1>2, <1>5, <1>6 DEF PathHere
<1>8. PlaceAfter \in (0..Nodes) \X {0, 1}
  BY <1>1, <1>4 DEF PlaceAfter
<1>9. QED
  BY <1>2, <1>5, <1>7, <1>8

(* Characters are a string, and settings made of strings are settings.     *)
LEMMA CharsString ==
  /\ Seq(Chars) \subseteq String
  /\ <<>> \in String
  /\ \A string \in String : SetTo(string) \in Setting
  /\ Garbage \in Setting /\ Kept \in Setting
  /\ [how |-> "removed", value |-> <<>>] \in Setting
<1>1. \A s \in Seq(Chars) : s \in Seq(Token)
  BY SeqMonotonic DEF Token
<1>2. <<>> \in Seq(Token)
  BY EmptySeq
<1>3. QED
  BY <1>1, <1>2 DEF String, SetTo, Setting, Garbage, Kept

(* What the steps that end a variable do to the settings.                  *)
LEMMA GiveType ==
  ASSUME setting \in [VarNames -> Setting], NEW name \in VarNames, NEW value \in Setting,
         Give(name, value)
  PROVE  setting' \in [VarNames -> Setting]
BY DEF Give

(* The expansion of a variable or a path is started.                       *)
LEMMA ExpandStartType ==
  ASSUME NEW string \in String, NEW withcmd \in BOOLEAN, NEW begun \in Seq(Chars),
         ExpandStart(string, withcmd, begun), overrun' \in BOOLEAN
  PROVE  /\ ExpandTypeOK' /\ Stacked(frames)' /\ buffer' = begun
         /\ frames' = <<[rest |-> string, withcmd |-> withcmd, into |-> "buffer"]>>
         /\ answer' = "run"
<1> DEFINE f == [rest |-> string, withcmd |-> withcmd, into |-> "buffer"]
<1>1. f \in Frame
  BY DEF Frame
<1>2. frames' = <<f>> /\ buffer' = begun /\ line' = <<>> /\ answer' = "run"
  BY DEF ExpandStart
<1>3. f.into = "buffer"
  OBVIOUS
<1> HIDE DEF f
<1>4. <<f>> \in Seq(Frame) /\ Len(<<f>>) = 1 /\ <<f>>[1] = f
  BY <1>1
<1>5. Stacked(<<f>>)
  BY <1>3, <1>4 DEF Stacked
<1>6. line' \in Seq(Chars) /\ Len(line') <= Small
  BY <1>2, EmptySeq, ExpandAssumption
<1>7. ExpandTypeOK'
  BY <1>2, <1>4, <1>6 DEF ExpandTypeOK
<1>8. QED
  BY <1>2, <1>5, <1>7 DEF Stacked, f

(* The types of the environment, with what keeps them.                     *)
EnvTypes == EnvironmentTypeOK /\ Expands

(* EnvTypes through the steps that set the variables.                      *)
LEMMA VariableTypeStep ==
  ASSUME EnvTypes, VariableStep \/ VariableFailure, part = "variables"
  PROVE  EnvTypes'
<1> USE DEF EnvTypes
<1>1. /\ wish \in Wish /\ ExpandTypeOK /\ Len(buffer) <= Small /\ index \in Nat /\ index >= 1
      /\ place \in (0..Nodes) \X {0, 1} /\ setting \in [VarNames -> Setting] /\ null \in BOOLEAN
      /\ Stacked(frames) /\ expanding \in BOOLEAN
  BY DEF EnvironmentTypeOK, Expands, Size
<1>2. Len(wish.variables) \in Nat
  BY <1>1 DEF Wish
<1>3. CASE SetStatic \/ SetRemove \/ SetInherit \/ SetExecfd \/ ExecfdFails
  <2>1. AtVariable /\ Advance /\ UNCHANGED <<wish, part, place, expanding, null, expandVars>>
        /\ index' = index + 1
    BY <1>3 DEF SetStatic, SetRemove, SetInherit, SetExecfd, ExecfdFails, Advance
  <2>2. index \in 1..Len(wish.variables) /\ ~ expanding
    BY <1>1, <1>2, <2>1 DEF AtVariable
  <2>3. setting' \in [VarNames -> Setting]
    <3>1. PICK value \in Setting : Give(Current.name, value)
      <4>1. CASE SetStatic
        BY <2>2, <4>1, CurrentType, CharsString DEF SetStatic
      <4>2. CASE SetRemove
        BY <4>2, CharsString DEF SetRemove
      <4>3. CASE SetInherit
        BY <2>2, <4>3, CurrentType, CharsString, EnvironmentAssumption DEF SetInherit
      <4>4. CASE SetExecfd
        <5>1. Prints[Head(Current.value)] \in Seq(Chars)
          BY <2>2, <4>4, CurrentType, ExpandAssumption DEF SetExecfd
        <5>2. SetTo(Prints[Head(Current.value)]) \in Setting /\ Garbage \in Setting
          BY <5>1, CharsString
        <5>3. QED
          BY <4>4, <5>2 DEF SetExecfd
      <4>5. CASE ExecfdFails
        BY <4>5, CharsString DEF ExecfdFails
      <4>6. QED
        BY <1>3, <4>1, <4>2, <4>3, <4>4, <4>5
    <3>2. QED
      BY <1>1, <2>2, <3>1, CurrentType, GiveType
  <2>4. EnvironmentTypeOK'
    BY <1>1, <2>1, <2>3 DEF EnvironmentTypeOK, ExpandTypeOK, expandVars, Size
  <2>5. Expands'
    BY <1>1, <2>1, <2>2 DEF Expands, Stacked, expandVars
  <2>6. QED
    BY <2>4, <2>5
<1>4. CASE StartDefault
  <2>1. /\ AtVariable /\ Current.mode = "Default" /\ ExpandStart(Current.value, TRUE, <<>>)
        /\ expanding' = TRUE
        /\ UNCHANGED <<wish, part, index, place, setting, null, overrun>>
    BY <1>4 DEF StartDefault
  <2>2. index \in 1..Len(wish.variables)
    BY <1>1, <1>2, <2>1 DEF AtVariable
  <2>3. /\ ExpandTypeOK' /\ Stacked(frames)' /\ buffer' = <<>>
    BY <1>1, <2>1, <2>2, CurrentType, ExpandStartType, EmptySeq DEF ExpandTypeOK
  <2>4. EnvironmentTypeOK'
    BY <1>1, <2>1, <2>3, EmptySeq, ExpandAssumption DEF EnvironmentTypeOK, Size
  <2>5. Current' = Current
    BY <2>1 DEF Current
  <2>6. Expands'
    BY <1>1, <2>1, <2>2, <2>3, <2>5 DEF Expands
  <2>7. QED
    BY <2>4, <2>6
<1>5. CASE SetDefault
  <2>1. /\ expanding /\ index' = index + 1 /\ expanding' = FALSE
        /\ UNCHANGED <<wish, part, place, expandVars>>
    BY <1>5 DEF SetDefault
  <2>2. index \in 1..Len(wish.variables)
    BY <1>1, <1>2, <2>1 DEF Expands
  <2>3. setting' \in [VarNames -> Setting] /\ null' \in BOOLEAN
    <3>1. SetTo(buffer) \in Setting
      BY <1>1, CharsString DEF ExpandTypeOK
    <3>2. QED
      BY <1>1, <1>5, <2>2, <3>1, CurrentType, GiveType DEF SetDefault
  <2>4. EnvironmentTypeOK'
    <3>1. ExpandTypeOK' /\ buffer' = buffer
      BY <1>1, <2>1 DEF ExpandTypeOK, expandVars
    <3>2. Size' = Small
      BY <2>1 DEF Size
    <3>3. index' \in Nat
      BY <1>1, <2>1
    <3>4. QED
      BY <1>1, <2>1, <2>3, <3>1, <3>2, <3>3 DEF EnvironmentTypeOK
  <2>5. Expands'
    BY <1>1, <2>1 DEF Expands, Stacked, expandVars
  <2>6. QED
    BY <2>4, <2>5
<1>6. CASE VariablesSet
  <2>1. /\ ~ expanding /\ part' = "paths" /\ index' = 1 /\ buffer' = <<>>
        /\ UNCHANGED <<wish, place, expanding, setting, null, frames, line, answer, overrun>>
    BY <1>6 DEF VariablesSet
  <2>2. EnvironmentTypeOK'
    <3>1. buffer' \in Seq(Chars) /\ Len(buffer') = 0 /\ Large \in Nat
      BY <2>1, EmptySeq, EnvironmentAssumption
    <3>2. ExpandTypeOK'
      BY <1>1, <2>1, <3>1 DEF ExpandTypeOK
    <3>3. Len(buffer') <= Size'
      BY <2>1, <3>1 DEF Size
    <3>4. part' \in {"variables", "paths", "set", "refused"} /\ index' \in Nat
      BY <2>1
    <3>5. wish' \in Wish /\ place' \in (0..Nodes) \X {0, 1} /\ expanding' \in BOOLEAN
          /\ setting' \in [VarNames -> Setting] /\ null' \in BOOLEAN
      BY <1>1, <2>1
    <3>6. QED
      BY <3>2, <3>3, <3>4, <3>5 DEF EnvironmentTypeOK
  <2>3. Expands'
    BY <1>1, <2>1 DEF Expands, Stacked
  <2>4. QED
    BY <2>2, <2>3
<1>7. CASE ExpandOnward \/ (expanding /\ CommandFails /\ UNCHANGED ownVars)
  <2>1. expanding /\ UNCHANGED ownVars /\ (ExpandStep(Context, Size) \/ CommandFails)
    BY <1>7 DEF ExpandOnward
  <2>2. index \in 1..Len(wish.variables) /\ Current.mode = "Default"
    BY <1>1, <1>2, <2>1 DEF Expands
  <2>3. Context \in Contexts /\ Size = Small /\ Small \in Nat
    BY <2>2, CurrentType, ExpandAssumption DEF Context, Size
  <2>4. ExpandTypeOK' /\ Stacked(frames)' /\ Len(buffer') <= Small
    BY <1>1, <2>1, <2>3, ExpandTypeStep
  <2>5. EnvironmentTypeOK'
    BY <1>1, <2>1, <2>4 DEF EnvironmentTypeOK, ownVars, Size
  <2>6. Current' = Current
    BY <2>1 DEF Current, ownVars
  <2>7. Expands'
    BY <1>1, <2>1, <2>2, <2>4, <2>6 DEF Expands, ownVars
  <2>8. QED
    BY <2>5, <2>7
<1>8. QED
  BY <1>3, <1>4, <1>5, <1>6, <1>7 DEF VariableStep, VariableFailure

(* EnvTypes through the steps that set the paths.                          *)
LEMMA PathTypeStep ==
  ASSUME EnvTypes, PathStep
  PROVE  EnvTypes'
<1> USE DEF EnvTypes
<1>1. /\ wish \in Wish /\ ExpandTypeOK /\ index \in Nat /\ index >= 1
      /\ place \in (0..Nodes) \X {0, 1} /\ setting \in [VarNames -> Setting] /\ null \in BOOLEAN
      /\ Stacked(frames) /\ expanding \in BOOLEAN
  BY DEF EnvironmentTypeOK, Expands
<1>2. part = "paths" /\ Len(buffer) <= Large /\ buffer \in Seq(Chars) /\ Len(buffer) \in Nat
      /\ Large \in Nat
  <2>1. part = "paths"
    BY DEF PathStep, SkipPlace, StartPath, AppendPath, PathFails, SetPath, PathsSet, AtPlace
  <2>2. QED
    BY <2>1, EnvironmentAssumption DEF EnvironmentTypeOK, ExpandTypeOK, Size
<1>3. CASE SkipPlace
  <2>1. AtPlace /\ ~ expanding /\ place' = PlaceAfter
        /\ UNCHANGED <<wish, part, index, expanding, setting, null, expandVars>>
    BY <1>3 DEF SkipPlace
  <2>2. place' \in (0..Nodes) \X {0, 1}
    BY <1>1, <2>1, PathHereType
  <2>3. EnvironmentTypeOK'
    BY <1>1, <1>2, <2>1, <2>2 DEF EnvironmentTypeOK, ExpandTypeOK, expandVars, Size
  <2>4. Expands'
    BY <1>1, <2>1 DEF Expands, Stacked, expandVars
  <2>5. QED
    BY <2>3, <2>4
<1>4. CASE StartPath
  <2>1. AtPlace /\ ~ expanding /\ PathHere # Missing
        /\ UNCHANGED <<wish, index, place, setting, null, overrun>>
    BY <1>4 DEF StartPath
  <2>2. CASE /\ Len(buffer) >= Large /\ part' = "refused"
             /\ UNCHANGED <<frames, buffer, line, answer, expanding>>
    <3>1. EnvironmentTypeOK'
      BY <1>1, <1>2, <2>1, <2>2 DEF EnvironmentTypeOK, ExpandTypeOK, Size
    <3>2. Expands'
      BY <1>1, <2>1, <2>2 DEF Expands, Stacked
    <3>3. QED
      BY <3>1, <3>2
  <2>3. CASE /\ Len(buffer) < Large
             /\ ExpandStart(PathHere, FALSE, IF buffer = <<>> THEN <<>> ELSE Append(buffer, Colon))
             /\ expanding' = TRUE /\ part' = part
    <3> DEFINE begun == IF buffer = <<>> THEN <<>> ELSE Append(buffer, Colon)
    <3>1. begun \in Seq(Chars) /\ Len(begun) <= Large
      <4>1. Append(buffer, Colon) \in Seq(Chars) /\ Len(Append(buffer, Colon)) = Len(buffer) + 1
        BY <1>2, EnvironmentAssumption, AppendProperties
      <4>2. CASE buffer = <<>>
        BY <1>2, <4>2
      <4>3. CASE buffer # <<>>
        BY <1>2, <2>3, <4>1, <4>3
      <4>4. QED
        BY <4>2, <4>3
    <3>2. PathHere \in String
      BY <1>1, <2>1, PathHereType
    <3> HIDE DEF begun
    <3>3. ExpandStart(PathHere, FALSE, begun) /\ overrun' \in BOOLEAN
      BY <1>1, <2>1, <2>3 DEF ExpandTypeOK, begun
    <3>4. ExpandTypeOK' /\ Stacked(frames)' /\ buffer' = begun
      BY <3>1, <3>2, <3>3, ExpandStartType
    <3>5. EnvironmentTypeOK'
      BY <1>1, <1>2, <2>1, <2>3, <3>1, <3>4 DEF EnvironmentTypeOK, Size
    <3>6. AtPlace' /\ PathHere' = PathHere
      BY <2>1, <2>3 DEF AtPlace, PathHere
    <3>7. Expands'
      BY <1>1, <1>2, <2>1, <2>3, <3>4, <3>6 DEF Expands
    <3>8. QED
      BY <3>5, <3>7
  <2>4. QED
    BY <1>4, <2>2, <2>3 DEF StartPath
<1>5. CASE AppendPath
  <2>1. /\ expanding /\ buffer' = Clean(buffer) /\ overrun' \in BOOLEAN /\ expanding' = FALSE
        /\ place' = PlaceAfter
        /\ UNCHANGED <<wish, part, index, setting, null, frames, line, answer>>
    BY <1>1, <1>5 DEF AppendPath, ExpandTypeOK
  <2>2. place' \in (0..Nodes) \X {0, 1}
    BY <1>1, <1>2, <2>1, PathHereType DEF Expands
  <2>3. buffer' \in Seq(Chars) /\ Len(buffer') <= Large
    <3>1. Clean(buffer) \in Seq(Chars) /\ Len(Clean(buffer)) <= Len(buffer)
      BY <1>2, CleanShortens
    <3>2. Len(Clean(buffer)) \in Nat
      BY <3>1
    <3>3. QED
      BY <1>2, <2>1, <3>1, <3>2
  <2>4. EnvironmentTypeOK'
    BY <1>1, <1>2, <2>1, <2>2, <2>3 DEF EnvironmentTypeOK, ExpandTypeOK, Size
  <2>5. Expands'
    BY <1>1, <1>2, <2>1 DEF Expands, Stacked
  <2>6. QED
    BY <2>4, <2>5
<1>6. CASE PathFails \/ PathsSet
  <2>1. part' \in {"refused", "set"}
        /\ UNCHANGED <<wish, index, place, expanding, setting, null, expandVars>>
    BY <1>6 DEF PathFails, PathsSet
  <2>2. EnvironmentTypeOK'
    BY <1>1, <1>2, <2>1 DEF EnvironmentTypeOK, ExpandTypeOK, expandVars, Size
  <2>3. Expands'
    BY <1>1, <2>1 DEF Expands, Stacked, expandVars
  <2>4. QED
    BY <2>2, <2>3
<1>7. CASE SetPath
  <2>1. /\ index <= Len(Searched)
        /\ IF buffer # <<>> THEN Give(Searched[index], SetTo(buffer)) ELSE UNCHANGED setting
        /\ buffer' = <<>> /\ place' = <<0, 1>> /\ index' = index + 1 /\ place[1] = Nodes
        /\ UNCHANGED <<wish, part, expanding, null, frames, line, answer, overrun>>
    BY <1>7 DEF SetPath
  <2>2. Searched[index] \in VarNames
    BY <1>1, <2>1, EnvironmentAssumption, ElementOfSeq
  <2>3. setting' \in [VarNames -> Setting]
    BY <1>1, <1>2, <2>1, <2>2, CharsString, GiveType
  <2>4. EnvironmentTypeOK'
    <3>1. buffer' \in Seq(Chars) /\ Len(buffer') = 0
      BY <2>1, EmptySeq
    <3>2. ExpandTypeOK'
      BY <1>1, <2>1, <3>1 DEF ExpandTypeOK
    <3>3. place' \in (0..Nodes) \X {0, 1}
      BY <2>1, EnvironmentAssumption
    <3>4. Len(buffer') <= Size'
      BY <1>2, <2>1, <3>1 DEF Size
    <3>5. QED
      BY <1>1, <1>2, <2>1, <2>3, <3>2, <3>3, <3>4 DEF EnvironmentTypeOK
  <2>5. ~ expanding
    BY <1>1, <1>2, <2>1, EnvironmentAssumption DEF Expands, AtPlace
  <2>6. Expands'
    BY <1>1, <2>1, <2>5 DEF Expands, Stacked
  <2>7. QED
    BY <2>4, <2>6
<1>8. CASE ExpandOnward
  <2>1. expanding /\ UNCHANGED ownVars /\ ExpandStep(Context, Size)
    BY <1>8 DEF ExpandOnward
  <2>2. AtPlace /\ PathHere # Missing
    BY <1>2, <2>1 DEF Expands
  <2>3. Context \in Contexts /\ Size = Large
    BY <1>1, <1>2, <2>2, PathHereType DEF Context, Size
  <2>4. ExpandTypeOK' /\ Stacked(frames)' /\ Len(buffer') <= Large
    BY <1>1, <1>2, <2>1, <2>3, ExpandTypeStep
  <2>5. EnvironmentTypeOK'
    BY <1>1, <1>2, <2>1, <2>4 DEF EnvironmentTypeOK, ownVars, Size
  <2>6. AtPlace' /\ PathHere' = PathHere
    BY <2>1, <2>2 DEF AtPlace, PathHere, ownVars
  <2>7. Expands'
    BY <1>1, <1>2, <2>1, <2>2, <2>4, <2>6 DEF Expands, ownVars
  <2>8. QED
    BY <2>5, <2>7
<1>9. QED
  BY <1>3, <1>4, <1>5, <1>6, <1>7, <1>8 DEF PathStep

(* What names mean is characters.                                          *)
Namings == [Names -> Seq(Chars)]

(* What a token means is characters.                                       *)
LEMMA TokenMeaningType ==
  ASSUME NEW named \in Namings, NEW withcmd \in BOOLEAN, NEW token \in Token
  PROVE  TokenMeaning(named, withcmd, token) \in Seq(Chars)
<1>1. token \in Chars => <<token>> \in Seq(Chars)
  OBVIOUS
<1>2. <<>> \in Seq(Chars)
  BY EmptySeq
<1>3. token \in Commands => Prints[token] \in Seq(Chars)
  BY ExpandAssumption
<1>4. token \in Names => named[token] \in Seq(Chars)
  BY DEF Namings
<1>5. QED
  BY <1>1, <1>2, <1>3, <1>4 DEF TokenMeaning, Token

(* A string has a first token, and is longer than what comes behind.       *)
LEMMA StringTail ==
  ASSUME NEW string \in String, string # <<>>
  PROVE  /\ Head(string) \in Token /\ Tail(string) \in String
         /\ Len(Tail(string)) < Len(string) /\ Len(string) \in Nat /\ Len(Tail(string)) \in Nat
         /\ Len(Tail(string)) = Len(string) - 1
BY HeadTailProperties, EmptySeq DEF String

(* What a string means, by the recursion that defines it.                  *)
LEMMA MeaningIs ==
  ASSUME NEW named \in Namings, NEW withcmd \in BOOLEAN
  PROVE  \A string \in String :
           Meaning(named, withcmd)[string] =
             IF string = <<>> THEN <<>>
             ELSE TokenMeaning(named, withcmd, Head(string))
                    \o Meaning(named, withcmd)[Tail(string)]
<1> DEFINE R == Seq(Chars)
           Own(x) == TokenMeaning(named, withcmd, Head(x))
           Body(x, g) == IF x = <<>> THEN <<>> ELSE Own(x) \o g[Tail(x)]
           rank == [x \in String |-> Len(x)]
           D == [x \in String |-> [g \in [String -> R] |-> Body(x, g)]]
<1>1. \A x \in String \ {<<>>} : Tail(x) \in String /\ Own(x) \in R /\ Len(Tail(x)) < Len(x)
  BY StringTail, TokenMeaningType
<1> HIDE DEF Own
<1>2. rank \in [String -> Nat]
  BY DEF String
<1>3. D \in [String -> [[String -> R] -> R]]
  <2>1. \A x \in String, g \in [String -> R] : Body(x, g) \in R
    <3> TAKE x \in String, g \in [String -> R]
    <3>1. CASE x = <<>>
      BY <3>1, EmptySeq
    <3>2. CASE x # <<>>
      <4>1. Own(x) \in R /\ g[Tail(x)] \in R
        BY <1>1, <3>2
      <4>2. QED
        BY <3>2, <4>1, ConcatProperties
    <3>3. QED
      BY <3>1, <3>2
  <2> HIDE DEF Body, R
  <2>2. QED
    BY <2>1
<1>4. ASSUME NEW x \in String, NEW g \in [String -> R], NEW h \in [String -> R],
             \A y \in String : rank[y] < rank[x] => g[y] = h[y]
      PROVE  D[x][g] = D[x][h]
  <2>1. x # <<>> => g[Tail(x)] = h[Tail(x)]
    BY <1>1, <1>4
  <2>2. Body(x, g) = Body(x, h)
    BY <2>1
  <2> HIDE DEF Body, R
  <2>3. QED
    BY <2>2
<1>5. R # {}
  BY EmptySeq
<1>6. PICK f \in [String -> R] : \A x \in String : f[x] = D[x][f]
  <2>1. \A x \in String : \A g, h \in [String -> R] :
          (\A y \in String : rank[y] < rank[x] => g[y] = h[y]) => D[x][g] = D[x][h]
    <3> HIDE DEF D
    <3>1. QED
      BY <1>4
  <2> HIDE DEF R, rank, D
  <2>2. Recursive(String, R, rank, D)
    BY <1>2, <1>3, <1>5, <2>1 DEF Recursive
  <2>3. QED
    BY <2>2, Recursion
<1>7. f = [x \in String |-> Body(x, f)]
  <2> HIDE DEF Body, R
  <2>1. \A x \in String : f[x] = Body(x, f)
    BY <1>6
  <2>2. QED
    BY <2>1
<1>8. Meaning(named, withcmd) = [x \in String |-> Body(x, Meaning(named, withcmd))]
  BY <1>7, Zenon DEF Meaning, Own
<1>9. QED
  BY <1>8 DEF Own

(* A string means characters.                                              *)
LEMMA MeaningType ==
  ASSUME NEW named \in Namings, NEW withcmd \in BOOLEAN
  PROVE  /\ \A string \in String : Meaning(named, withcmd)[string] \in Seq(Chars)
         /\ Meaning(named, withcmd)[<<>>] = <<>>
<1> DEFINE T == {x \in String : Meaning(named, withcmd)[x] \in Seq(Chars)}
           rank == [x \in String |-> Len(x)]
<1>1. rank \in [String -> Nat]
  BY DEF String
<1>2. ASSUME NEW x \in String, \A y \in String : rank[y] < rank[x] => y \in T
      PROVE  x \in T
  <2>1. CASE x = <<>>
    <3>1. Meaning(named, withcmd)[x] = <<>>
      BY <2>1, MeaningIs
    <3>2. QED
      BY <3>1, EmptySeq
  <2>2. CASE x # <<>>
    <3>1. Head(x) \in Token /\ Tail(x) \in String /\ rank[Tail(x)] < rank[x]
      BY <2>2, StringTail
    <3>2. Meaning(named, withcmd)[Tail(x)] \in Seq(Chars)
      BY <1>2, <3>1
    <3>3. TokenMeaning(named, withcmd, Head(x)) \in Seq(Chars)
      BY <3>1, TokenMeaningType
    <3>4. Meaning(named, withcmd)[x]
            = TokenMeaning(named, withcmd, Head(x)) \o Meaning(named, withcmd)[Tail(x)]
      BY <2>2, MeaningIs
    <3>5. QED
      BY <3>2, <3>3, <3>4, ConcatProperties
  <2>3. QED
    BY <2>1, <2>2
<1>3. String = T
  <2> HIDE DEF rank, T
  <2>1. T \subseteq String
    BY DEF T
  <2>2. QED
    BY <1>1, <1>2, <2>1, RankInduction
<1>4. QED
  BY <1>3, MeaningIs, CharsString

(* The tokens of a string are the first one and those behind.              *)
LEMMA HeldTail ==
  ASSUME NEW string \in String, string # <<>>
  PROVE  Held(string) = {Head(string)} \cup Held(Tail(string))
<1>1. /\ string \in Seq(Token) /\ Len(string) \in Nat /\ Len(string) >= 1
      /\ Head(string) = string[1] /\ Len(Tail(string)) = Len(string) - 1
      /\ \A m \in 1..Len(Tail(string)) : Tail(string)[m] = string[m + 1]
  BY HeadTailProperties, EmptySeq DEF String
<1>2. \A m \in 1..Len(string) : m = 1 \/ (m - 1 \in 1..Len(Tail(string)) /\ m = (m - 1) + 1)
  BY <1>1
<1>3. \A m \in 1..Len(Tail(string)) : m + 1 \in 1..Len(string)
  BY <1>1
<1>4. 1 \in 1..Len(string)
  BY <1>1
<1>5. ASSUME NEW token \in Held(string) PROVE token \in {Head(string)} \cup Held(Tail(string))
  <2>1. PICK m \in 1..Len(string) : token = string[m]
    BY DEF Held
  <2>2. CASE m = 1
    BY <1>1, <2>1, <2>2
  <2>3. CASE m # 1
    <3>1. m - 1 \in 1..Len(Tail(string)) /\ Tail(string)[m - 1] = string[m]
      BY <1>1, <1>2, <2>1, <2>3
    <3>2. QED
      BY <2>1, <3>1 DEF Held
  <2>4. QED
    BY <2>2, <2>3
<1>6. ASSUME NEW token \in Held(Tail(string)) PROVE token \in Held(string)
  BY <1>1, <1>3 DEF Held
<1>7. Head(string) \in Held(string)
  BY <1>1, <1>4 DEF Held
<1>8. QED
  BY <1>5, <1>6, <1>7

(* A string means the same if the names in it do.                          *)
LEMMA MeaningAgrees ==
  ASSUME NEW named \in Namings, NEW other \in Namings, NEW withcmd \in BOOLEAN,
         NEW string \in String,
         \A name \in Names \cap Held(string) : named[name] = other[name]
  PROVE  Meaning(named, withcmd)[string] = Meaning(other, withcmd)[string]
<1> DEFINE Agree(x) == \A name \in Names \cap Held(x) : named[name] = other[name]
           T == {x \in String : Agree(x) => Meaning(named, withcmd)[x] = Meaning(other, withcmd)[x]}
           rank == [x \in String |-> Len(x)]
<1>1. rank \in [String -> Nat]
  BY DEF String
<1>2. ASSUME NEW x \in String, \A y \in String : rank[y] < rank[x] => y \in T
      PROVE  x \in T
  <2>1. SUFFICES ASSUME Agree(x)
                 PROVE  Meaning(named, withcmd)[x] = Meaning(other, withcmd)[x]
    OBVIOUS
  <2>2. CASE x = <<>>
    BY <2>2, MeaningIs
  <2>3. CASE x # <<>>
    <3>1. Head(x) \in Token /\ Tail(x) \in String /\ rank[Tail(x)] < rank[x]
      BY <2>3, StringTail
    <3>2. Held(x) = {Head(x)} \cup Held(Tail(x))
      BY <2>3, HeldTail
    <3>3. Meaning(named, withcmd)[Tail(x)] = Meaning(other, withcmd)[Tail(x)]
      BY <1>2, <2>1, <3>1, <3>2
    <3>4. TokenMeaning(named, withcmd, Head(x)) = TokenMeaning(other, withcmd, Head(x))
      BY <2>1, <3>1, <3>2 DEF TokenMeaning, Token
    <3>5. /\ Meaning(named, withcmd)[x]
               = TokenMeaning(named, withcmd, Head(x)) \o Meaning(named, withcmd)[Tail(x)]
          /\ Meaning(other, withcmd)[x]
               = TokenMeaning(other, withcmd, Head(x)) \o Meaning(other, withcmd)[Tail(x)]
      BY <2>3, MeaningIs
    <3>6. QED
      BY <3>3, <3>4, <3>5
  <2>4. QED
    BY <2>2, <2>3
<1>3. String = T
  <2> HIDE DEF rank, T
  <2>1. T \subseteq String
    BY DEF T
  <2>2. QED
    BY <1>1, <1>2, <2>1, RankInduction
<1>4. QED
  BY <1>3

(* What names mean, looked into once more, by the recursion.               *)
LEMMA LookedIs ==
  ASSUME NEW node \in Contexts
  PROVE  \A n \in Nat :
           /\ LookedInto(node)[n] \in Namings
           /\ n > 0 => \A name \in Names :
                LookedInto(node)[n][name]
                  = Meaning(LookedInto(node)[n - 1], FALSE)[Meant(name, node)]
<1> DEFINE Own(h) == [name \in Names |-> Meaning(h, FALSE)[Meant(name, node)]]
           None0 == [name \in Names |-> <<>>]
           Body(n, g) == IF n = 0 THEN None0 ELSE Own(g[n - 1])
           rank == [n \in Nat |-> n]
           D == [n \in Nat |-> [g \in [Nat -> Namings] |-> Body(n, g)]]
<1>1. \A h \in Namings : Own(h) \in Namings
  <2> TAKE h \in Namings
  <2>1. \A name \in Names : Meant(name, node) \in String
    BY ExpandAssumption DEF Meant
  <2>2. \A name \in Names : Meaning(h, FALSE)[Meant(name, node)] \in Seq(Chars)
    BY <2>1, MeaningType
  <2>3. QED
    BY <2>2 DEF Namings
<1>2. None0 \in Namings
  BY EmptySeq DEF Namings
<1> HIDE DEF Own, None0
<1>3. \A n \in Nat, g \in [Nat -> Namings] : Body(n, g) \in Namings
  BY <1>1, <1>2
<1>4. D \in [Nat -> [[Nat -> Namings] -> Namings]] /\ rank \in [Nat -> Nat]
  <2> HIDE DEF Body
  <2>1. QED
    BY <1>3
<1>5. ASSUME NEW n \in Nat, NEW g \in [Nat -> Namings], NEW h \in [Nat -> Namings],
             \A m \in Nat : rank[m] < rank[n] => g[m] = h[m]
      PROVE  D[n][g] = D[n][h]
  <2>1. n # 0 => n - 1 \in Nat /\ rank[n - 1] < rank[n]
    OBVIOUS
  <2>2. Body(n, g) = Body(n, h)
    BY <1>5, <2>1
  <2> HIDE DEF Body
  <2>3. QED
    BY <2>2
<1>6. PICK f \in [Nat -> Namings] : \A n \in Nat : f[n] = D[n][f]
  <2>1. \A n \in Nat : \A g, h \in [Nat -> Namings] :
          (\A m \in Nat : rank[m] < rank[n] => g[m] = h[m]) => D[n][g] = D[n][h]
    <3> HIDE DEF D
    <3>1. QED
      BY <1>5
  <2> HIDE DEF rank, D
  <2>2. Recursive(Nat, Namings, rank, D)
    BY <1>2, <1>4, <2>1 DEF Recursive
  <2>3. QED
    BY <2>2, Recursion
<1>7. f = [n \in Nat |-> Body(n, f)]
  <2> HIDE DEF Body
  <2>1. \A n \in Nat : f[n] = Body(n, f)
    BY <1>6
  <2>2. QED
    BY <2>1
<1> DEFINE looked == LookedInto(node)
<1>8. looked = [n \in Nat |-> [name \in Names |->
                 IF n = 0 THEN <<>> ELSE Meaning(looked[n - 1], FALSE)[Meant(name, node)]]]
  <2>1. f = [n \in Nat |-> [name \in Names |->
                 IF n = 0 THEN <<>> ELSE Meaning(f[n - 1], FALSE)[Meant(name, node)]]]
    <3>1. \A n \in Nat : Body(n, f) = [name \in Names |->
                 IF n = 0 THEN <<>> ELSE Meaning(f[n - 1], FALSE)[Meant(name, node)]]
      BY DEF Own, None0
    <3> HIDE DEF Body
    <3>2. QED
      BY <1>7, <3>1
  <2>2. QED
    BY <2>1, Zenon DEF LookedInto
<1> HIDE DEF looked
<1>9. \A n \in Nat : looked[n] = Body(n, looked)
  BY <1>8 DEF Own, None0
<1>10. \A n \in Nat : looked[n] \in Namings
  <2> DEFINE T == {n \in Nat : looked[n] \in Namings}
  <2>1. ASSUME NEW n \in Nat, \A m \in Nat : rank[m] < rank[n] => m \in T
        PROVE  n \in T
    <3>1. n # 0 => n - 1 \in Nat /\ rank[n - 1] < rank[n]
      OBVIOUS
    <3>2. looked[n] = Body(n, looked)
      BY <1>9
    <3>3. QED
      BY <1>1, <1>2, <2>1, <3>1, <3>2
  <2>2. Nat = T
    <3> HIDE DEF T, rank
    <3>1. T \subseteq Nat
      BY DEF T
    <3>2. QED
      BY <1>4, <2>1, <3>1, RankInduction
  <2>3. QED
    BY <2>2
<1>11. QED
  <2>1. \A n \in Nat : n > 0 => \A name \in Names :
          looked[n][name] = Meaning(looked[n - 1], FALSE)[Meant(name, node)]
    <3> TAKE n \in Nat
    <3>1. looked[n] = Body(n, looked)
      BY <1>9
    <3>2. n > 0 => looked[n] = Own(looked[n - 1])
      BY <3>1
    <3>3. QED
      BY <3>2 DEF Own
  <2>2. QED
    BY <1>10, <2>1 DEF looked

(* If no name is defined by itself, a name means what its definition does. *)
LEMMA NameMeaningIs ==
  ASSUME NEW node \in Contexts, NoLoop(node)
  PROVE  /\ NameMeaning(node) \in Namings
         /\ \A name \in Names :
              NameMeaning(node)[name] = Meaning(NameMeaning(node), FALSE)[Meant(name, node)]
<1> DEFINE looked == LookedInto(node)
           last == Cardinality(Names)
<1>1. last \in Nat
  BY FS_CardinalityType, ExpandAssumption
<1>2. PICK rank \in [Names -> 1..last] :
        \A name \in Names : \A n \in Names \cap Held(Meant(name, node)) : rank[n] < rank[name]
  BY DEF NoLoop
<1>3. rank \in [Names -> Nat] /\ \A name \in Names : rank[name] \in 1..last
  BY <1>1, <1>2
<1>4. \A n \in Nat : looked[n] \in Namings
  BY LookedIs
<1>5. \A name \in Names : Meant(name, node) \in String
  BY ExpandAssumption DEF Meant
<1> DEFINE Settled(name) ==
             \A m, n \in Nat : rank[name] <= m /\ rank[name] <= n => looked[m][name] = looked[n][name]
           T == {name \in Names : Settled(name)}
<1>6. \A n \in Nat : n > 0 => \A name \in Names :
        looked[n][name] = Meaning(looked[n - 1], FALSE)[Meant(name, node)]
  BY LookedIs
<1> HIDE DEF looked, last
<1>7. ASSUME NEW name \in Names, \A y \in Names : rank[y] < rank[name] => y \in T
      PROVE  name \in T
  <2> SUFFICES ASSUME NEW m \in Nat, NEW n \in Nat, rank[name] <= m, rank[name] <= n
               PROVE  looked[m][name] = looked[n][name]
    OBVIOUS
  <2>1. m - 1 \in Nat /\ n - 1 \in Nat /\ m > 0 /\ n > 0
    BY <1>3
  <2>2. ASSUME NEW y \in Names \cap Held(Meant(name, node))
        PROVE  looked[m - 1][y] = looked[n - 1][y]
    <3>1. rank[y] < rank[name] /\ rank[y] \in Nat /\ rank[name] \in Nat
      BY <1>2, <1>3
    <3>2. Settled(y)
      BY <1>7, <3>1
    <3>3. rank[y] <= m - 1 /\ rank[y] <= n - 1
      BY <3>1
    <3>4. QED
      BY <2>1, <3>2, <3>3
  <2>3. Meaning(looked[m - 1], FALSE)[Meant(name, node)]
          = Meaning(looked[n - 1], FALSE)[Meant(name, node)]
    BY <1>4, <1>5, <2>1, <2>2, MeaningAgrees
  <2>4. QED
    BY <1>6, <2>1, <2>3
<1>8. Names = T
  <2> HIDE DEF T
  <2>1. T \subseteq Names
    BY DEF T
  <2>2. QED
    BY <1>3, <1>7, <2>1, RankInduction
<1>9. ASSUME NEW name \in Names
      PROVE  looked[last][name] = Meaning(looked[last], FALSE)[Meant(name, node)]
  <2>1. Settled(name)
    BY <1>8
  <2>2. last + 1 \in Nat /\ last + 1 > 0 /\ (last + 1) - 1 = last
        /\ rank[name] <= last /\ rank[name] <= last + 1
    BY <1>1, <1>3
  <2>3. looked[last][name] = looked[last + 1][name]
    BY <1>1, <2>1, <2>2
  <2>4. QED
    BY <1>6, <2>2, <2>3
<1>10. QED
  BY <1>1, <1>4, <1>9 DEF NameMeaning, looked, last

(* What the strings under expansion still owe to the buffer, or to the     *)
(* command: the innermost first.                                           *)
ShareTo(named, what, frame) ==
  IF frame.into = what THEN Meaning(named, frame.withcmd)[frame.rest] ELSE <<>>

(* The stack without its top,                                              *)
Front(stack) == SubSeq(stack, 1, Len(stack) - 1)

(* and its top.                                                            *)
Peak(stack) == stack[Len(stack)]

(* What all of the stack owes.                                             *)
DueTo(named, what) ==
  LET due[stack \in Seq(Frame)] ==
        IF stack = <<>> THEN <<>>
        ELSE ShareTo(named, what, Peak(stack)) \o due[Front(stack)]
  IN due

(* A stack is its front and its top.                                       *)
LEMMA FrontIs ==
  ASSUME NEW s \in Seq(Frame), s # <<>>
  PROVE  /\ Front(s) \in Seq(Frame) /\ Len(Front(s)) = Len(s) - 1 /\ Len(s) \in Nat \ {0}
         /\ Len(Front(s)) < Len(s)
         /\ \A k \in 1..(Len(s) - 1) : Front(s)[k] = s[k]
         /\ Peak(s) = s[Len(s)] /\ Peak(s) \in Frame
         /\ s = Append(Front(s), Peak(s))
<1> DEFINE n == Len(s)
<1>1. n \in Nat \ {0} /\ n \in 1..Len(s)
  BY EmptySeq
<1>2. s[n] \in Frame
  BY <1>1, ElementOfSeq
<1>3. \A i \in 1..(n - 1) : s[i] \in Frame
  BY <1>1, ElementOfSeq
<1> HIDE DEF n
<1>4. /\ SubSeq(s, 1, n - 1) \in Seq(Frame)
      /\ Len(SubSeq(s, 1, n - 1)) = n - 1
      /\ \A i \in 1..(n - 1) : SubSeq(s, 1, n - 1)[i] = s[i]
  <2> DEFINE m == n - 1
  <2>1. m \in Nat /\ \A i \in 1..m : s[i] \in Frame
    BY <1>1, <1>3
  <2> HIDE DEF m
  <2>2. /\ SubSeq(s, 1, m) \in Seq(Frame)
        /\ Len(SubSeq(s, 1, m)) = IF 1 <= m THEN m - 1 + 1 ELSE 0
        /\ \A i \in 1..(m - 1 + 1) : SubSeq(s, 1, m)[i] = s[1 + i - 1]
    BY <2>1, SubSeqProperties
  <2>3. m - 1 + 1 = m /\ \A i \in 1..m : 1 + i - 1 = i
    BY <2>1
  <2>4. Len(SubSeq(s, 1, m)) = m /\ \A i \in 1..m : SubSeq(s, 1, m)[i] = s[i]
    BY <2>1, <2>2, <2>3
  <2>5. QED
    BY <2>2, <2>4 DEF m
<1>5. s = Append(SubSeq(s, 1, n - 1), s[n])
  <2> DEFINE t == SubSeq(s, 1, n - 1)
  <2>1. /\ Append(t, s[n]) \in Seq(Frame) /\ Len(Append(t, s[n])) = n
        /\ \A i \in 1..n : Append(t, s[n])[i] = IF i = n THEN s[n] ELSE t[i]
    <3> HIDE DEF t
    <3>1. t \in Seq(Frame) /\ Len(t) = n - 1
      BY <1>4 DEF t
    <3>2. Len(t) + 1 = n
      BY <1>1, <3>1
    <3>3. /\ Append(t, s[n]) \in Seq(Frame) /\ Len(Append(t, s[n])) = Len(t) + 1
          /\ Append(t, s[n])[Len(t) + 1] = s[n]
          /\ \A i \in 1..Len(t) : Append(t, s[n])[i] = t[i]
      BY <1>2, <3>1, AppendProperties
    <3>4. \A i \in 1..n : i = n \/ i \in 1..Len(t)
      BY <1>1, <3>1
    <3>5. QED
      BY <3>2, <3>3, <3>4
  <2>2. \A i \in 1..n : i = n \/ i \in 1..(n - 1)
    BY <1>1
  <2>3. \A i \in 1..n : Append(t, s[n])[i] = s[i]
    BY <1>4, <2>1, <2>2
  <2> HIDE DEF t
  <2>4. Append(t, s[n]) = s
    BY <1>1, <2>1, <2>3, SeqEqual DEF n
  <2>5. QED
    BY <2>4 DEF t
<1>6. QED
  BY <1>1, <1>2, <1>4, <1>5 DEF Front, Peak, n

(* What a string owes is characters.                                       *)
LEMMA ShareType ==
  ASSUME NEW named \in Namings, NEW what, NEW frame \in Frame
  PROVE  ShareTo(named, what, frame) \in Seq(Chars)
BY MeaningType, EmptySeq DEF ShareTo, Frame

(* What is due, by the recursion that defines it.                          *)
LEMMA DueIs ==
  ASSUME NEW named \in Namings, NEW what
  PROVE  \A s \in Seq(Frame) :
           /\ DueTo(named, what)[s] \in Seq(Chars)
           /\ DueTo(named, what)[s] =
                IF s = <<>> THEN <<>>
                ELSE ShareTo(named, what, Peak(s)) \o DueTo(named, what)[Front(s)]
<1> DEFINE S == Seq(Frame)
           R == Seq(Chars)
           Own(x) == ShareTo(named, what, Peak(x))
           Body(x, g) == IF x = <<>> THEN <<>> ELSE Own(x) \o g[Front(x)]
           rank == [x \in S |-> Len(x)]
           D == [x \in S |-> [g \in [S -> R] |-> Body(x, g)]]
<1>1. \A x \in S \ {<<>>} : Front(x) \in S /\ Own(x) \in R /\ Len(Front(x)) < Len(x)
  BY FrontIs, ShareType
<1> HIDE DEF Own
<1>2. rank \in [S -> Nat]
  OBVIOUS
<1>3. ASSUME NEW x \in S, NEW y \in R PROVE (IF x = <<>> THEN <<>> ELSE Own(x) \o y) \in R
  <2>1. CASE x = <<>>
    BY <2>1, EmptySeq
  <2>2. CASE x # <<>>
    BY <1>1, <2>2, ConcatProperties
  <2>3. QED
    BY <2>1, <2>2
<1>4. D \in [S -> [[S -> R] -> R]]
  <2>1. \A x \in S, g \in [S -> R] : Body(x, g) \in R
    <3> TAKE x \in S, g \in [S -> R]
    <3>1. CASE x = <<>>
      BY <3>1, EmptySeq
    <3>2. CASE x # <<>>
      BY <1>1, <1>3, <3>2
    <3>3. QED
      BY <3>1, <3>2
  <2> HIDE DEF Body, S, R
  <2>2. QED
    BY <2>1
<1>5. ASSUME NEW x \in S, NEW g \in [S -> R], NEW h \in [S -> R],
             \A y \in S : rank[y] < rank[x] => g[y] = h[y]
      PROVE  D[x][g] = D[x][h]
  <2>1. x # <<>> => g[Front(x)] = h[Front(x)]
    BY <1>1, <1>5
  <2>2. Body(x, g) = Body(x, h)
    BY <2>1
  <2> HIDE DEF Body, S, R
  <2>3. QED
    BY <2>2
<1>6. R # {}
  BY EmptySeq
<1>7. PICK f \in [S -> R] : \A x \in S : f[x] = D[x][f]
  <2>1. \A x \in S : \A g, h \in [S -> R] :
          (\A y \in S : rank[y] < rank[x] => g[y] = h[y]) => D[x][g] = D[x][h]
    <3> HIDE DEF D
    <3>1. QED
      BY <1>5
  <2> HIDE DEF S, R, rank, D
  <2>2. Recursive(S, R, rank, D)
    BY <1>2, <1>4, <1>6, <2>1 DEF Recursive
  <2>3. QED
    BY <2>2, Recursion
<1>8. f = [x \in S |-> Body(x, f)]
  <2> HIDE DEF Body, S, R
  <2>1. \A x \in S : f[x] = Body(x, f)
    BY <1>7
  <2>2. QED
    BY <2>1
<1> DEFINE due == DueTo(named, what)
<1>9. due = [x \in S |-> Body(x, due)]
  BY <1>8, Zenon DEF DueTo, Own
<1> HIDE DEF due
<1>10. \A x \in S : due[x] = Body(x, due)
  <2> HIDE DEF S, Body
  <2>1. QED
    BY <1>9
<1>11. \A x \in S : due[x] \in R
  <2> DEFINE T == {x \in S : due[x] \in R}
  <2>1. ASSUME NEW x \in S, \A y \in S : rank[y] < rank[x] => y \in T
        PROVE  x \in T
    <3>1. CASE x = <<>>
      <4>1. due[x] = <<>>
        BY <1>10, <3>1
      <4>2. QED
        BY <4>1, EmptySeq
    <3>2. CASE x # <<>>
      <4>1. due[Front(x)] \in R
        BY <1>1, <2>1, <3>2
      <4>2. due[x] = Own(x) \o due[Front(x)]
        BY <1>10, <3>2
      <4>3. Own(x) \in R
        BY <1>1, <3>2
      <4>4. due[x] \in R
        <5> HIDE DEF S
        <5>1. QED
          BY <4>1, <4>2, <4>3, ConcatProperties
      <4>5. QED
        BY <4>4
    <3>3. QED
      BY <3>1, <3>2
  <2>2. S = T
    <3>1. T \subseteq S
      OBVIOUS
    <3>2. \A x \in S : (\A y \in S : rank[y] < rank[x] => y \in T) => x \in T
      <4> HIDE DEF T, rank, S
      <4>1. QED
        BY <2>1
    <3> HIDE DEF T, rank, S
    <3>3. QED
      BY <1>2, <3>1, <3>2, RankInduction
  <2>3. QED
    BY <2>2
<1>12. QED
  BY <1>10, <1>11 DEF due, Own

(* What is due once a string is put on top.                                *)
LEMMA DueAppend ==
  ASSUME NEW named \in Namings, NEW what, NEW s \in Seq(Frame), NEW f \in Frame
  PROVE  /\ Append(s, f) \in Seq(Frame) /\ Front(Append(s, f)) = s /\ Peak(Append(s, f)) = f
         /\ DueTo(named, what)[Append(s, f)] = ShareTo(named, what, f) \o DueTo(named, what)[s]
<1> DEFINE t == Append(s, f)
<1>1. /\ t \in Seq(Frame) /\ Len(t) = Len(s) + 1 /\ t[Len(s) + 1] = f
      /\ \A i \in 1..Len(s) : t[i] = s[i]
      /\ Len(s) \in Nat
  BY AppendProperties
<1> HIDE DEF t
<1>2. t # <<>>
  BY <1>1, EmptySeq
<1>3. /\ Front(t) \in Seq(Frame) /\ Len(Front(t)) = Len(t) - 1
      /\ \A k \in 1..(Len(t) - 1) : Front(t)[k] = t[k]
  BY <1>1, <1>2, FrontIs
<1>4. Len(Front(t)) = Len(s)
  BY <1>1, <1>3
<1>5. \A k \in 1..Len(s) : Front(t)[k] = s[k]
  BY <1>1, <1>3
<1>6. Front(t) = s
  BY <1>1, <1>3, <1>4, <1>5, SeqEqual
<1>7. Peak(t) = f
  BY <1>1 DEF Peak
<1>8. DueTo(named, what)[t] = ShareTo(named, what, Peak(t)) \o DueTo(named, what)[Front(t)]
  BY <1>1, <1>2, DueIs
<1>9. QED
  BY <1>1, <1>6, <1>7, <1>8 DEF t

(* A string without its next token.                                        *)
Onwards(frame) == [frame EXCEPT !.rest = Tail(@)]

(* Such a string remains a string under expansion.                         *)
LEMMA OnwardsIs ==
  ASSUME NEW f \in Frame, f.rest # <<>>
  PROVE  /\ Onwards(f) \in Frame /\ Onwards(f).rest = Tail(f.rest)
         /\ Onwards(f).withcmd = f.withcmd /\ Onwards(f).into = f.into
<1>1. f.rest \in String
  BY DEF Frame
<1>2. Tail(f.rest) \in String
  BY <1>1, StringTail
<1>3. QED
  BY <1>2 DEF Frame, Onwards

(* A stack whose next token is dealt with has another top only.            *)
LEMMA ShortenedFront ==
  ASSUME NEW s \in Seq(Frame), s # <<>>, Peak(s).rest # <<>>
  PROVE  /\ Shortened(s) \in Seq(Frame) /\ Shortened(s) # <<>>
         /\ Front(Shortened(s)) = Front(s) /\ Peak(Shortened(s)) = Onwards(Peak(s))
<1> DEFINE n == Len(s)
           e == Onwards(Peak(s))
           t == Shortened(s)
<1>1. Peak(s) \in Frame /\ Peak(s) = s[n] /\ n \in Nat \ {0}
  BY FrontIs
<1>2. t = [s EXCEPT ![n] = e] /\ e \in Frame
  BY <1>1, OnwardsIs DEF Shortened, Onwards
<1>3. /\ Front(s) \in Seq(Frame) /\ Len(Front(s)) = n - 1
      /\ \A k \in 1..(n - 1) : Front(s)[k] = s[k]
  BY FrontIs
<1>4. n \in 1..Len(s)
  BY <1>1
<1> HIDE DEF t, e
<1>5. /\ t \in Seq(Frame) /\ Len(t) = n
      /\ \A k \in 1..n : t[k] = IF k = n THEN e ELSE s[k]
  BY <1>2, <1>4, ExceptSeq
<1> HIDE DEF n
<1>6. t # <<>>
  BY <1>1, <1>5, EmptySeq
<1>7. /\ Front(t) \in Seq(Frame) /\ Len(Front(t)) = n - 1
      /\ \A k \in 1..(n - 1) : Front(t)[k] = t[k]
  BY <1>5, <1>6, FrontIs
<1>8. \A k \in 1..(n - 1) : Front(t)[k] = Front(s)[k]
  <2> TAKE k \in 1..(n - 1)
  <2>1. k \in 1..n /\ k # n
    BY <1>1
  <2>2. QED
    BY <1>3, <1>5, <1>7, <2>1
<1>9. Front(t) = Front(s)
  BY <1>3, <1>7, <1>8, SeqEqual
<1>10. Peak(t) = e
  BY <1>1, <1>5 DEF Peak
<1>11. QED
  BY <1>5, <1>6, <1>9, <1>10 DEF t, e

(* What is due once the next token is dealt with: what this token means    *)
(* less, or the same where it does not go.                                 *)
LEMMA DueShortened ==
  ASSUME NEW named \in Namings, NEW what, NEW s \in Seq(Frame), s # <<>>,
         Peak(s).rest # <<>>
  PROVE  DueTo(named, what)[s] =
           IF Peak(s).into = what
             THEN TokenMeaning(named, Peak(s).withcmd, Head(Peak(s).rest))
                    \o DueTo(named, what)[Shortened(s)]
             ELSE DueTo(named, what)[Shortened(s)]
<1> DEFINE f == Peak(s)
           e == Onwards(f)
           token == TokenMeaning(named, f.withcmd, Head(f.rest))
           Due(x) == DueTo(named, what)[x]
           t == Shortened(s)
           front == Front(s)
<1>1. f \in Frame /\ front \in Seq(Frame)
  BY FrontIs
<1>2. e \in Frame /\ e.rest = Tail(f.rest) /\ e.withcmd = f.withcmd /\ e.into = f.into
  BY <1>1, OnwardsIs
<1>3. t \in Seq(Frame) /\ t # <<>> /\ Front(t) = front /\ Peak(t) = e
  BY ShortenedFront
<1>4. Due(s) = ShareTo(named, what, f) \o Due(front)
  BY DueIs
<1> HIDE DEF f, e, t, front
<1>5. Due(t) = ShareTo(named, what, e) \o Due(front)
  BY <1>3, DueIs
<1>6. f.rest \in String /\ f.withcmd \in BOOLEAN /\ f.rest # <<>>
  BY <1>1 DEF Frame, f
<1>7. token \in Seq(Chars)
  BY <1>6, StringTail, TokenMeaningType
<1>8. Due(front) \in Seq(Chars)
  BY <1>1, DueIs
<1>9. ShareTo(named, what, e) \in Seq(Chars)
  BY <1>2, ShareType
<1>10. Meaning(named, f.withcmd)[f.rest] = token \o Meaning(named, f.withcmd)[Tail(f.rest)]
  BY <1>6, MeaningIs
<1> HIDE DEF Due, token
<1>11. CASE f.into = what
  <2>1. ShareTo(named, what, f) = token \o ShareTo(named, what, e)
    BY <1>2, <1>10, <1>11 DEF ShareTo
  <2>2. Due(s) = token \o Due(t)
    BY <1>4, <1>5, <1>7, <1>8, <1>9, <2>1, ConcatAssociative
  <2>3. QED
    BY <1>11, <2>2 DEF Due, token, t, f
<1>12. CASE f.into # what
  <2>1. ShareTo(named, what, f) = <<>> /\ ShareTo(named, what, e) = <<>>
    BY <1>2, <1>12 DEF ShareTo
  <2>2. Due(s) = Due(t)
    BY <1>4, <1>5, <2>1
  <2>3. QED
    BY <1>12, <2>2 DEF Due, token, t, f
<1>13. QED
  BY <1>11, <1>12

(* What has been written where.                                            *)
Out(what) == IF what = "buffer" THEN buffer ELSE line

(* What is written and what is due: a step of an expansion that is not     *)
(* about a command leaves both together as they were.                      *)
LEMMA DueStep ==
  ASSUME ExpandTypeOK, Stacked(frames), NEW size \in Nat, NEW node \in Contexts, NoLoop(node),
         NEW named, named = NameMeaning(node),
         PutChar(size) \/ GetDefault(node) \/ SkipCommand \/ ExpandReturns,
         answer' # "fail",
         NEW what \in {"buffer", "line"}
  PROVE  Out(what)' \o DueTo(named, what)[frames'] = Out(what) \o DueTo(named, what)[frames]
<1> DEFINE n == Len(frames)
           Due(x) == DueTo(named, what)[x]
<1>1. /\ frames \in Seq(Frame) /\ frames # <<>> /\ n \in Nat \ {0} /\ Top = frames[n]
      /\ Top = Peak(frames)
      /\ Top \in Frame /\ buffer \in Seq(Chars) /\ line \in Seq(Chars)
  <2>1. frames \in Seq(Frame) /\ frames # <<>> /\ Top = frames[n]
    BY DEF ExpandTypeOK, PutChar, GetDefault, SkipCommand, ExpandReturns, Running, Top
  <2>2. QED
    BY <2>1, FrontIs DEF ExpandTypeOK, Peak
<1>2. named \in Namings
        /\ \A name \in Names : named[name] = Meaning(named, FALSE)[Meant(name, node)]
  BY NameMeaningIs
<1>3. Top.rest \in String /\ Top.withcmd \in BOOLEAN /\ Top.into \in {"buffer", "line"}
  BY <1>1 DEF Frame
<1>4. Out(what) \in Seq(Chars)
  BY <1>1 DEF Out
<1>5. Top.rest # <<>> =>
        /\ Shortened(frames) \in Seq(Frame)
        /\ Top.into = what =>
             Due(frames) = TokenMeaning(named, Top.withcmd, First) \o Due(Shortened(frames))
        /\ Top.into # what => Due(frames) = Due(Shortened(frames))
        /\ Due(Shortened(frames)) \in Seq(Chars)
        /\ First \in Token
  <2> SUFFICES ASSUME Top.rest # <<>>
               PROVE  /\ Shortened(frames) \in Seq(Frame)
                      /\ Top.into = what =>
                           Due(frames) = TokenMeaning(named, Top.withcmd, First) \o Due(Shortened(frames))
                      /\ Top.into # what => Due(frames) = Due(Shortened(frames))
                      /\ Due(Shortened(frames)) \in Seq(Chars)
                      /\ First \in Token
    OBVIOUS
  <2>1. First \in Token
    BY <1>3, StringTail DEF First
  <2>2. /\ Shortened(frames) \in Seq(Frame)
        /\ Top.into = what =>
             Due(frames) = TokenMeaning(named, Top.withcmd, First) \o Due(Shortened(frames))
        /\ Top.into # what => Due(frames) = Due(Shortened(frames))
    <3>1. frames \in Seq(Frame) /\ frames # <<>> /\ Peak(frames).rest # <<>>
          /\ named \in Namings
      BY <1>1, <1>2
    <3>2. Shortened(frames) \in Seq(Frame)
      BY <3>1, ShortenedFront
    <3>3. DueTo(named, what)[frames] =
            IF Peak(frames).into = what
              THEN TokenMeaning(named, Peak(frames).withcmd, Head(Peak(frames).rest))
                    \o DueTo(named, what)[Shortened(frames)]
              ELSE DueTo(named, what)[Shortened(frames)]
      BY <3>1, DueShortened
    <3>4. QED
      BY <1>1, <3>2, <3>3 DEF First
  <2>3. Due(Shortened(frames)) \in Seq(Chars)
    BY <1>2, <2>2, DueIs
  <2>4. QED
    BY <2>1, <2>2, <2>3
<1> HIDE DEF Due, n
<1>6. CASE PutChar(size)
  <2>1. /\ Top.rest # <<>> /\ First \in Chars /\ frames' = Shortened(frames)
        /\ Top.into = "buffer" => buffer' = Append(buffer, First) /\ line' = line
        /\ Top.into = "line" => line' = Append(line, First) /\ buffer' = buffer
    BY <1>6 DEF PutChar, Refuse
  <2>2. TokenMeaning(named, Top.withcmd, First) = <<First>>
    BY <2>1 DEF TokenMeaning
  <2>3. CASE Top.into = what
    <3>1. Out(what)' = Append(Out(what), First)
      BY <1>3, <2>1, <2>3 DEF Out
    <3>2. Append(Out(what), First) = Out(what) \o <<First>>
      BY <1>4, <2>1, AppendIsConcat
    <3>3. <<First>> \in Seq(Chars)
      BY <2>1
    <3>4. Due(frames) = <<First>> \o Due(Shortened(frames)) /\ Due(Shortened(frames)) \in Seq(Chars)
      BY <1>5, <2>1, <2>2, <2>3
    <3>5. Out(what)' \o Due(Shortened(frames)) = Out(what) \o Due(frames)
      BY <1>4, <3>1, <3>2, <3>3, <3>4, ConcatAssociative
    <3>6. QED
      BY <2>1, <3>5 DEF Due
  <2>4. CASE Top.into # what
    <3>1. Out(what)' = Out(what)
      BY <1>3, <2>1, <2>4 DEF Out
    <3>2. Due(frames) = Due(Shortened(frames))
      BY <1>5, <2>1, <2>4
    <3>3. QED
      BY <2>1, <3>1, <3>2 DEF Due
  <2>5. QED
    BY <2>3, <2>4
<1>7. CASE GetDefault(node)
  <2> DEFINE g == Inner(Meant(First, node))
  <2>1. /\ Top.rest # <<>> /\ First \in Names /\ buffer' = buffer /\ line' = line
        /\ frames' = Append(Shortened(frames), g)
    BY <1>7 DEF GetDefault, Refuse
  <2>2. Meant(First, node) \in String
    BY <2>1, ExpandAssumption DEF Meant
  <2>3. /\ g \in Frame /\ g.into = Top.into /\ g.withcmd = FALSE /\ g.rest = Meant(First, node)
    BY <1>3, <2>2 DEF Inner, Frame
  <2> HIDE DEF g
  <2>4. Due(frames') = ShareTo(named, what, g) \o Due(Shortened(frames))
    BY <1>2, <1>5, <2>1, <2>3, DueAppend DEF Due
  <2>5. First \notin Chars /\ First \notin Commands
    BY <2>1, ExpandAssumption
  <2>6. Top.into = what => TokenMeaning(named, Top.withcmd, First) = ShareTo(named, what, g)
    BY <1>2, <2>1, <2>3, <2>5 DEF TokenMeaning, ShareTo
  <2>7. Top.into # what => ShareTo(named, what, g) = <<>>
    BY <2>3 DEF ShareTo
  <2>8. Due(frames') = Due(frames)
    BY <1>5, <2>1, <2>4, <2>6, <2>7, ConcatEmptySeq
  <2>9. QED
    BY <2>1, <2>8 DEF Out, Due
<1>8. CASE SkipCommand
  <2>1. /\ Top.rest # <<>> /\ First \in Commands /\ ~ Top.withcmd /\ frames' = Shortened(frames)
        /\ buffer' = buffer /\ line' = line
    BY <1>8 DEF SkipCommand
  <2>2. First \notin Chars
    BY <2>1, ExpandAssumption
  <2>3. TokenMeaning(named, Top.withcmd, First) = <<>>
    BY <2>1, <2>2 DEF TokenMeaning
  <2>4. Due(frames) = Due(Shortened(frames))
    BY <1>5, <2>1, <2>3, ConcatEmptySeq
  <2>5. QED
    BY <2>1, <2>4 DEF Out, Due
<1>9. CASE ExpandReturns
  <2>1. Top.rest = <<>> /\ frames' = Front(frames) /\ buffer' = buffer /\ line' = line
    BY <1>9 DEF ExpandReturns, Front, n
  <2>2. ShareTo(named, what, Top) = <<>>
    BY <1>2, <1>3, <2>1, MeaningType DEF ShareTo
  <2>3. Due(frames) = ShareTo(named, what, Top) \o Due(Front(frames))
    <3>1. DueTo(named, what)[frames]
            = ShareTo(named, what, Peak(frames)) \o DueTo(named, what)[Front(frames)]
      BY <1>1, <1>2, DueIs
    <3>2. QED
      BY <1>1, <3>1 DEF Due
  <2>4. Front(frames) \in Seq(Frame) /\ Due(Front(frames)) \in Seq(Chars)
    BY <1>1, <1>2, FrontIs, DueIs DEF Due
  <2>5. Due(frames) = Due(Front(frames))
    BY <2>2, <2>3, <2>4, ConcatEmptySeq
  <2>6. QED
    BY <2>1, <2>5 DEF Out, Due
<1>10. QED
  BY <1>6, <1>7, <1>8, <1>9

(* The names that do not fit, looked into once more.                       *)
LEMMA UnfitIntoIs ==
  ASSUME NEW node \in Contexts
  PROVE  \A n \in Nat :
           UnfitInto(node)[n] =
             {name \in Names :
                \/ name \in Table /\ Len(Meant(name, node)) >= Small
                \/ n > 0 /\ Held(Meant(name, node)) \cap UnfitInto(node)[n - 1] # {}}
<1> DEFINE R == SUBSET Names
           Body(n, g) == {name \in Names :
                            \/ name \in Table /\ Len(Meant(name, node)) >= Small
                            \/ n > 0 /\ Held(Meant(name, node)) \cap g[n - 1] # {}}
           rank == [n \in Nat |-> n]
           D == [n \in Nat |-> [g \in [Nat -> R] |-> Body(n, g)]]
<1>1. \A n \in Nat, g \in [Nat -> R] : Body(n, g) \in R
  OBVIOUS
<1>2. D \in [Nat -> [[Nat -> R] -> R]] /\ rank \in [Nat -> Nat]
  <2> HIDE DEF Body, R
  <2>1. QED
    BY <1>1
<1>3. ASSUME NEW n \in Nat, NEW g \in [Nat -> R], NEW h \in [Nat -> R],
             \A m \in Nat : rank[m] < rank[n] => g[m] = h[m]
      PROVE  D[n][g] = D[n][h]
  <2>1. n > 0 => n - 1 \in Nat /\ rank[n - 1] < rank[n]
    OBVIOUS
  <2>2. Body(n, g) = Body(n, h)
    <3>1. n > 0 => g[n - 1] = h[n - 1]
      BY <1>3, <2>1
    <3>2. QED
      BY <3>1
  <2> HIDE DEF Body, R
  <2>3. QED
    BY <2>2
<1>4. PICK f \in [Nat -> R] : \A n \in Nat : f[n] = D[n][f]
  <2>1. \A n \in Nat : \A g, h \in [Nat -> R] :
          (\A m \in Nat : rank[m] < rank[n] => g[m] = h[m]) => D[n][g] = D[n][h]
    <3> HIDE DEF D
    <3>1. QED
      BY <1>3
  <2>2. R # {}
    OBVIOUS
  <2> HIDE DEF R, rank, D
  <2>3. Recursive(Nat, R, rank, D)
    BY <1>2, <2>1, <2>2 DEF Recursive
  <2>4. QED
    BY <2>3, Recursion
<1>5. f = [n \in Nat |-> Body(n, f)]
  <2> HIDE DEF Body, R
  <2>1. \A n \in Nat : f[n] = Body(n, f)
    BY <1>4
  <2>2. QED
    BY <2>1
<1> DEFINE unfit == UnfitInto(node)
<1>6. unfit = [n \in Nat |-> Body(n, unfit)]
  BY <1>5, Zenon DEF UnfitInto
<1> HIDE DEF unfit
<1>7. \A n \in Nat : unfit[n] = Body(n, unfit)
  <2> HIDE DEF Body
  <2>1. QED
    BY <1>6
<1>8. QED
  BY <1>7 DEF unfit

(* If no name is defined by itself, a name does not fit if its value does  *)
(* not, or a name in it.                                                   *)
LEMMA UnfitIs ==
  ASSUME NEW node \in Contexts, NoLoop(node), NEW name \in Names,
         \/ name \in Table /\ Len(Meant(name, node)) >= Small
         \/ Held(Meant(name, node)) \cap Unfit(node) # {}
  PROVE  name \in Unfit(node)
<1> DEFINE unfit == UnfitInto(node)
           last == Cardinality(Names)
           Wide(x) == x \in Table /\ Len(Meant(x, node)) >= Small
           In(x) == Held(Meant(x, node))
<1>1. last \in Nat
  BY FS_CardinalityType, ExpandAssumption
<1>2. PICK rank \in [Names -> 1..last] :
        \A x \in Names : \A n \in Names \cap In(x) : rank[n] < rank[x]
  BY DEF NoLoop
<1>3. rank \in [Names -> Nat] /\ \A x \in Names : rank[x] \in 1..last
  BY <1>1, <1>2
<1>4. \A n \in Nat : unfit[n] = {x \in Names : Wide(x) \/ (n > 0 /\ In(x) \cap unfit[n - 1] # {})}
  BY UnfitIntoIs
<1> HIDE DEF unfit, last, In, Wide
<1> DEFINE Settled(x) ==
             \A m, n \in Nat : rank[x] <= m /\ rank[x] <= n => (x \in unfit[m] <=> x \in unfit[n])
           T == {x \in Names : Settled(x)}
<1>5. \A n \in Nat, x \in Names :
        x \in unfit[n] <=> (Wide(x) \/ (n > 0 /\ In(x) \cap unfit[n - 1] # {}))
  BY <1>4
<1>6. \A n \in Nat : unfit[n] \subseteq Names
  BY <1>4
<1>7. ASSUME NEW x \in Names, \A y \in Names : rank[y] < rank[x] => y \in T,
             NEW m \in Nat, NEW n \in Nat, rank[x] <= m, rank[x] <= n, x \in unfit[m]
      PROVE  x \in unfit[n]
  <2>1. m - 1 \in Nat /\ n - 1 \in Nat /\ m > 0 /\ n > 0
    BY <1>3, <1>7
  <2>2. CASE Wide(x)
    BY <1>5, <2>2
  <2>3. CASE In(x) \cap unfit[m - 1] # {}
    <3>1. PICK y \in In(x) : y \in unfit[m - 1]
      BY <2>3
    <3>2. y \in Names /\ rank[y] < rank[x] /\ rank[y] \in Nat /\ rank[x] \in Nat
      BY <1>2, <1>3, <1>6, <2>1, <3>1
    <3>3. Settled(y)
      BY <1>7, <3>2
    <3>4. rank[y] <= m - 1 /\ rank[y] <= n - 1
      BY <1>7, <3>2
    <3>5. y \in unfit[n - 1]
      BY <2>1, <3>1, <3>3, <3>4
    <3>6. In(x) \cap unfit[n - 1] # {}
      BY <3>1, <3>5
    <3>7. QED
      BY <1>5, <2>1, <3>6
  <2>4. QED
    BY <1>5, <1>7, <2>2, <2>3
<1>8. Names = T
  <2>1. \A x \in Names : (\A y \in Names : rank[y] < rank[x] => y \in T) => x \in T
    <3> SUFFICES ASSUME NEW x \in Names, \A y \in Names : rank[y] < rank[x] => y \in T
                 PROVE  Settled(x)
      OBVIOUS
    <3> HIDE DEF T
    <3>1. \A m, n \in Nat : rank[x] <= m /\ rank[x] <= n /\ x \in unfit[m] => x \in unfit[n]
      BY <1>7
    <3>2. QED
      BY <3>1
  <2>2. T \subseteq Names
    OBVIOUS
  <2> HIDE DEF T
  <2>3. QED
    BY <1>3, <2>1, <2>2, RankInduction
<1>9. CASE Wide(name)
  <2>1. name \in unfit[last]
    BY <1>1, <1>5, <1>9
  <2>2. QED
    BY <2>1 DEF Unfit, unfit, last
<1>10. CASE In(name) \cap unfit[last] # {}
  <2>1. last + 1 \in Nat /\ last + 1 > 0 /\ (last + 1) - 1 = last
        /\ rank[name] <= last /\ rank[name] <= last + 1
    BY <1>1, <1>3
  <2>2. name \in unfit[last + 1]
    BY <1>5, <1>10, <2>1
  <2>3. Settled(name)
    BY <1>8
  <2>4. name \in unfit[last]
    BY <1>1, <2>1, <2>2, <2>3
  <2>5. QED
    BY <2>4 DEF Unfit, unfit, last
<1>11. QED
  BY <1>9, <1>10 DEF Unfit, unfit, last, Wide, In

(* A string is too long, or a command in it that is run.                   *)
Unfits(string, withcmd, node) ==
  \/ TooLong(string, node)
  \/ withcmd /\ \E command \in Commands \cap Held(string) : TooLong(Text[command], node)

(* The strings under expansion are parts of the first one, of what names   *)
(* stand for, and of commands of the first one if they are run: no name in *)
(* them that does not fit but on account of the first.                     *)
Reads(stack, string, withcmd, node) ==
  \A k \in 1..Len(stack) :
    /\ k = 1 => Held(stack[k].rest) \subseteq Held(string)
    /\ stack[k].withcmd \/ stack[k].into = "line" => withcmd
    /\ TooLong(stack[k].rest, node) => Unfits(string, withcmd, node)

(* Reads once a token of the top is dealt with,                            *)
LEMMA ReadsShortened ==
  ASSUME NEW s \in Seq(Frame), s # <<>>, Peak(s).rest # <<>>,
         NEW string, NEW withcmd \in BOOLEAN, NEW node, Reads(s, string, withcmd, node)
  PROVE  Reads(Shortened(s), string, withcmd, node)
<1> DEFINE n == Len(s)
           e == [rest |-> Tail(s[n].rest), withcmd |-> s[n].withcmd, into |-> s[n].into]
           t == Shortened(s)
<1>1. s[n].rest # <<>> /\ s[n] \in Frame
  BY FrontIs DEF Peak
<1>2. /\ n \in Nat \ {0} /\ t \in Seq(Frame) /\ Len(t) = n
      /\ \A k \in 1..n : t[k] = IF k = n THEN e ELSE s[k]
  BY <1>1, ShortenedIs
<1>3. s[n].rest \in String
  BY <1>1 DEF Frame
<1>4. Held(Tail(s[n].rest)) \subseteq Held(s[n].rest)
  BY <1>1, <1>3, HeldTail
<1> HIDE DEF t
<1>5. ASSUME NEW k \in 1..n
      PROVE  /\ k = 1 => Held(t[k].rest) \subseteq Held(string)
             /\ t[k].withcmd \/ t[k].into = "line" => withcmd
             /\ TooLong(t[k].rest, node) => Unfits(string, withcmd, node)
  <2>1. /\ k = 1 => Held(s[k].rest) \subseteq Held(string)
        /\ s[k].withcmd \/ s[k].into = "line" => withcmd
        /\ TooLong(s[k].rest, node) => Unfits(string, withcmd, node)
    BY DEF Reads
  <2>2. CASE k # n
    <3>1. t[k] = s[k]
      BY <1>2, <2>2
    <3>2. QED
      BY <2>1, <3>1
  <2>3. CASE k = n
    <3>1. t[k].rest = Tail(s[k].rest) /\ t[k].withcmd = s[k].withcmd /\ t[k].into = s[k].into
      <4>1. t[k] = e
        BY <1>2, <2>3
      <4>2. e.rest = Tail(s[k].rest) /\ e.withcmd = s[k].withcmd /\ e.into = s[k].into
        BY <2>3
      <4> HIDE DEF e
      <4>3. QED
        BY <4>1, <4>2
    <3>2. Held(t[k].rest) \subseteq Held(s[k].rest)
      BY <1>4, <2>3, <3>1
    <3>3. TooLong(t[k].rest, node) => TooLong(s[k].rest, node)
      BY <3>2 DEF TooLong
    <3>4. QED
      BY <2>1, <3>1, <3>2, <3>3
  <2>4. QED
    BY <2>2, <2>3
<1>6. QED
  BY <1>2, <1>5 DEF Reads, t

(* once the top is expanded,                                               *)
LEMMA ReadsPopped ==
  ASSUME NEW s \in Seq(Frame), s # <<>>,
         NEW string, NEW withcmd, NEW node, Reads(s, string, withcmd, node)
  PROVE  Reads(Front(s), string, withcmd, node)
<1>1. Len(Front(s)) = Len(s) - 1 /\ Len(s) \in Nat \ {0}
      /\ \A k \in 1..(Len(s) - 1) : Front(s)[k] = s[k]
  BY FrontIs
<1>2. \A k \in 1..(Len(s) - 1) : k \in 1..Len(s)
  BY <1>1
<1>3. QED
  BY <1>1, <1>2 DEF Reads

(* and once another string is put on top, if that one does not fit only on *)
(* account of the first.                                                   *)
LEMMA ReadsPushed ==
  ASSUME NEW s \in Seq(Frame), s # <<>>, NEW f \in Frame,
         NEW string, NEW withcmd \in BOOLEAN, NEW node, Reads(s, string, withcmd, node),
         ~ f.withcmd, f.into = "line" => withcmd,
         TooLong(f.rest, node) => Unfits(string, withcmd, node)
  PROVE  Reads(Append(s, f), string, withcmd, node)
<1> DEFINE t == Append(s, f)
<1>1. /\ Len(t) = Len(s) + 1 /\ t[Len(s) + 1] = f
      /\ \A i \in 1..Len(s) : t[i] = s[i]
      /\ Len(s) \in Nat \ {0}
  BY AppendProperties, EmptySeq
<1> HIDE DEF t
<1>2. ASSUME NEW k \in 1..Len(t)
      PROVE  /\ k = 1 => Held(t[k].rest) \subseteq Held(string)
             /\ t[k].withcmd \/ t[k].into = "line" => withcmd
             /\ TooLong(t[k].rest, node) => Unfits(string, withcmd, node)
  <2>1. CASE k = Len(s) + 1
    <3>1. t[k] = f /\ k # 1
      BY <1>1, <2>1
    <3>2. QED
      BY <3>1
  <2>2. CASE k # Len(s) + 1
    <3>1. k \in 1..Len(s)
      BY <1>1, <2>2
    <3>2. t[k] = s[k]
      BY <1>1, <3>1
    <3>3. QED
      BY <3>1, <3>2 DEF Reads
  <2>3. QED
    BY <2>1, <2>2
<1>3. QED
  BY <1>2 DEF Reads, t

(* The innermost string, in a step of an expansion.                        *)
LEMMA Innermost ==
  ASSUME ExpandTypeOK, Running
  PROVE  /\ frames \in Seq(Frame) /\ frames # <<>> /\ Len(frames) \in Nat \ {0}
         /\ Top = Peak(frames) /\ Top = frames[Len(frames)] /\ Top \in Frame
         /\ Top.rest \in String /\ Top.withcmd \in BOOLEAN /\ Top.into \in {"buffer", "line"}
         /\ Top.rest # <<>> => First \in Held(Top.rest) /\ First \in Token
         /\ First = Head(Top.rest)
<1>1. frames \in Seq(Frame) /\ frames # <<>>
  BY DEF ExpandTypeOK, Running
<1>2. Top = Peak(frames) /\ Top = frames[Len(frames)]
  BY DEF Top, Peak
<1>3. Top \in Frame /\ Len(frames) \in Nat \ {0}
  BY <1>1, <1>2, FrontIs
<1>4. Top.rest \in String /\ Top.withcmd \in BOOLEAN /\ Top.into \in {"buffer", "line"}
  BY <1>3 DEF Frame
<1>5. Top.rest # <<>> => First \in Held(Top.rest) /\ First \in Token
  BY <1>4, HeldTail, StringTail DEF First
<1>6. QED
  BY <1>1, <1>2, <1>3, <1>4, <1>5 DEF First

(* A command that is read lies on the string that contains it, and nothing *)
(* below that.                                                             *)
LEMMA CommandUnder ==
  ASSUME ExpandTypeOK, Stacked(frames), CommandRead
  PROVE  /\ Running /\ Len(frames) = 2 /\ Top.into = "line" /\ Top.rest = <<>>
         /\ Front(frames) \in Seq(Frame) /\ Front(frames) # <<>> /\ Len(Front(frames)) = 1
         /\ Peak(Front(frames)) = frames[1] /\ frames[1] \in Frame
         /\ frames[1].withcmd /\ frames[1].into = "buffer" /\ frames[1].rest # <<>>
         /\ Head(frames[1].rest) \in Commands
         /\ Front(Front(frames)) = <<>>
<1> DEFINE n == Len(frames)
           below == Front(frames)
<1>1. Running /\ Top.into = "line" /\ Top.rest = <<>> /\ frames[n - 1].into = "buffer"
  BY DEF CommandRead
<1>2. frames \in Seq(Frame) /\ frames # <<>> /\ n \in Nat \ {0} /\ frames[n].into = "line"
  BY <1>1, Innermost
<1>3. /\ below \in Seq(Frame) /\ Len(below) = n - 1
      /\ \A k \in 1..(n - 1) : below[k] = frames[k]
  BY <1>2, FrontIs
<1>4. \A k \in 1..n :
        /\ frames[k].withcmd => k = 1
        /\ k = 1 => frames[k].into = "buffer"
        /\ k > 1 /\ frames[k].into = "line" /\ frames[k - 1].into = "buffer" =>
             /\ frames[k - 1].withcmd
             /\ frames[k - 1].rest # <<>> /\ Head(frames[k - 1].rest) \in Commands
  BY DEF Stacked
<1> HIDE DEF n, below
<1>5. n \in 1..n
  BY <1>2
<1>6. n # 1
  BY <1>2, <1>4, <1>5
<1>7. /\ frames[n - 1].withcmd
      /\ frames[n - 1].rest # <<>> /\ Head(frames[n - 1].rest) \in Commands
  BY <1>1, <1>2, <1>4, <1>5, <1>6
<1>8. n - 1 \in 1..n
  BY <1>2, <1>6
<1>9. n - 1 = 1
  BY <1>4, <1>7, <1>8
<1>10. n = 2 /\ 1 \in 1..(n - 1) /\ Len(below) = 1
  BY <1>2, <1>3, <1>9
<1>11. below[1] = frames[1] /\ below # <<>>
  BY <1>3, <1>10, EmptySeq
<1>12. Peak(below) = frames[1] /\ Peak(below) \in Frame
  BY <1>3, <1>10, <1>11, FrontIs DEF Peak
<1>13. Front(below) \in Seq(Frame) /\ Len(Front(below)) = 0
  BY <1>3, <1>10, <1>11, FrontIs
<1>14. Front(below) = <<>>
  BY <1>13, EmptySeq
<1>15. QED
  BY <1>1, <1>3, <1>7, <1>9, <1>10, <1>11, <1>12, <1>14 DEF n, below

(* A step of an expansion keeps what is said of the strings.               *)
LEMMA ReadsStep ==
  ASSUME ExpandTypeOK, Stacked(frames), NEW size, NEW node \in Contexts, NoLoop(node),
         NEW string \in String, NEW withcmd \in BOOLEAN, Reads(frames, string, withcmd, node),
         ExpandStep(node, size) \/ CommandFails
  PROVE  Reads(frames', string, withcmd, node)
<1> DEFINE R(stack) == Reads(stack, string, withcmd, node)
<1>1. Running
  BY DEF ExpandStep, PutChar, GetDefault, SkipCommand, ReadCommand, RunCommand,
         ExpandReturns, CommandFails, CommandRead
<1>2. Top.rest # <<>> => R(Shortened(frames)) /\ Shortened(frames) \in Seq(Frame)
                         /\ Shortened(frames) # <<>>
  BY <1>1, Innermost, ReadsShortened, ShortenedFront
<1>3. R(Front(frames)) /\ Front(frames) \in Seq(Frame)
  BY <1>1, Innermost, ReadsPopped, FrontIs
<1>4. R(<<>>)
  BY EmptySeq DEF Reads
<1>5. /\ Top.withcmd \/ Top.into = "line" => withcmd
      /\ TooLong(Top.rest, node) => Unfits(string, withcmd, node)
      /\ Len(frames) = 1 => Held(Top.rest) \subseteq Held(string)
  <2>1. Len(frames) \in 1..Len(frames) /\ Top = frames[Len(frames)]
    BY <1>1, Innermost
  <2>2. QED
    BY <2>1 DEF Reads
<1>6. Top.withcmd => Len(frames) = 1
  <2>1. Len(frames) \in 1..Len(frames) /\ Top = frames[Len(frames)]
    BY <1>1, Innermost
  <2>2. QED
    BY <2>1 DEF Stacked
<1> HIDE DEF R
<1>7. CASE answer' = "fail" /\ frames' = <<>>
  BY <1>4, <1>7 DEF R
<1>8. CASE Top.rest # <<>> /\ frames' = Shortened(frames)
  BY <1>2, <1>8 DEF R
<1>9. CASE frames' = Front(frames)
  BY <1>3, <1>9 DEF R
<1>10. CASE GetDefault(node)
  <2>1. Top.rest # <<>> /\ First \in Names
    BY <1>10 DEF GetDefault
  <2> DEFINE f == Inner(Meant(First, node))
  <2>2. CASE frames' = Append(Shortened(frames), f)
    <3>1. Meant(First, node) \in String
      BY <2>1, ExpandAssumption DEF Meant
    <3>2. f \in Frame /\ ~ f.withcmd /\ f.into = Top.into /\ f.rest = Meant(First, node)
      BY <1>1, <3>1, Innermost DEF Inner, Frame
    <3>3. TooLong(Meant(First, node), node) => TooLong(Top.rest, node)
      <4>1. First \in Held(Top.rest)
        BY <1>1, <2>1, Innermost
      <4>2. TooLong(Meant(First, node), node) => First \in Unfit(node)
        BY <2>1, UnfitIs DEF TooLong
      <4>3. QED
        BY <4>1, <4>2 DEF TooLong
    <3> HIDE DEF f
    <3>4. R(Append(Shortened(frames), f))
      BY <1>2, <1>5, <2>1, <3>2, <3>3, ReadsPushed DEF R
    <3>5. QED
      BY <2>2, <3>4 DEF R
  <2>3. CASE Refuse
    BY <1>4, <2>3 DEF Refuse, R
  <2>4. QED
    BY <1>10, <2>2, <2>3 DEF GetDefault
<1>11. CASE ReadCommand
  <2> DEFINE f == [rest |-> Text[First], withcmd |-> FALSE, into |-> "line"]
  <2>1. Top.rest # <<>> /\ First \in Commands /\ Top.withcmd /\ frames' = Append(frames, f)
    BY <1>11 DEF ReadCommand
  <2>2. f \in Frame /\ ~ f.withcmd /\ f.rest = Text[First]
    BY <2>1, ExpandAssumption DEF Frame
  <2>3. TooLong(Text[First], node) => Unfits(string, withcmd, node)
    <3>1. First \in Held(string)
      BY <1>1, <1>5, <1>6, <2>1, Innermost
    <3>2. QED
      BY <1>5, <2>1, <3>1 DEF Unfits
  <2> HIDE DEF f
  <2>4. R(Append(frames, f))
    BY <1>1, <1>5, <2>1, <2>2, <2>3, Innermost, ReadsPushed DEF R
  <2>5. QED
    BY <2>1, <2>4 DEF R
<1>12. CASE RunCommand(size)
  <2> DEFINE below == Front(frames)
  <2>1. CASE frames' = Shortened(below)
    <3>1. below \in Seq(Frame) /\ below # <<>> /\ Peak(below).rest # <<>>
      BY <1>12, CommandUnder DEF RunCommand
    <3>2. R(Shortened(below))
      BY <1>3, <3>1, ReadsShortened DEF R
    <3>3. QED
      BY <2>1, <3>2 DEF R
  <2>2. CASE Refuse
    BY <1>4, <2>2 DEF Refuse, R
  <2>3. QED
    BY <1>12, <2>1, <2>2 DEF RunCommand, Front
<1>13. QED
  <2>1. PutChar(size) => (frames' = Shortened(frames) /\ Top.rest # <<>>) \/ Refuse
    BY DEF PutChar
  <2>2. SkipCommand => frames' = Shortened(frames) /\ Top.rest # <<>>
    BY DEF SkipCommand
  <2>3. ExpandReturns => frames' = Front(frames)
    BY DEF ExpandReturns, Front
  <2>4. CommandFails => Refuse
    BY DEF CommandFails
  <2>5. QED
    BY <1>7, <1>8, <1>9, <1>10, <1>11, <1>12, <2>1, <2>2, <2>3, <2>4 DEF ExpandStep, Refuse

(* What is due to the buffer when a command is read: what it prints first. *)
LEMMA DueRead ==
  ASSUME ExpandTypeOK, Stacked(frames), CommandRead, NEW named \in Namings
  PROVE  LET prints == Prints[Head(frames[1].rest)]
             rest == DueTo(named, "buffer")[Shortened(Front(frames))]
         IN /\ prints \in Seq(Chars) /\ rest \in Seq(Chars)
            /\ DueTo(named, "buffer")[frames] = prints \o rest
<1> DEFINE below == Front(frames)
           prints == Prints[Head(frames[1].rest)]
           rest == DueTo(named, "buffer")[Shortened(below)]
<1>1. /\ below \in Seq(Frame) /\ below # <<>> /\ Peak(below) = frames[1]
      /\ frames[1].withcmd /\ frames[1].into = "buffer" /\ frames[1].rest # <<>>
      /\ Head(frames[1].rest) \in Commands /\ Top.into = "line" /\ Running
  BY CommandUnder
<1>2. Head(frames[1].rest) \notin Chars /\ prints \in Seq(Chars)
  BY <1>1, ExpandAssumption
<1>3. TokenMeaning(named, Peak(below).withcmd, Head(Peak(below).rest)) = prints
  BY <1>1, <1>2 DEF TokenMeaning
<1>4. DueTo(named, "buffer")[below] = prints \o rest
  <2>1. Peak(below).rest # <<>> /\ Peak(below).into = "buffer"
    BY <1>1
  <2>2. DueTo(named, "buffer")[below]
          = IF Peak(below).into = "buffer"
              THEN TokenMeaning(named, Peak(below).withcmd, Head(Peak(below).rest)) \o rest
              ELSE rest
    BY <1>1, <2>1, DueShortened
  <2>3. QED
    BY <1>3, <2>1, <2>2
<1>5. rest \in Seq(Chars)
  BY <1>1, ShortenedFront, DueIs
<1>6. DueTo(named, "buffer")[frames] = DueTo(named, "buffer")[below]
  <2>1. frames \in Seq(Frame) /\ frames # <<>> /\ Top = Peak(frames)
    BY <1>1, Innermost
  <2>2. DueTo(named, "buffer")[frames] = ShareTo(named, "buffer", Peak(frames))
                                           \o DueTo(named, "buffer")[Front(frames)]
    BY <2>1, DueIs
  <2>3. ShareTo(named, "buffer", Top) = <<>>
    BY <1>1 DEF ShareTo
  <2>4. DueTo(named, "buffer")[below] \in Seq(Chars)
    BY <1>1, DueIs
  <2>5. QED
    BY <2>1, <2>2, <2>3, <2>4, ConcatEmptySeq
<1>7. QED
  BY <1>2, <1>4, <1>5, <1>6

(* What is written to the buffer and what is due to it, when a command is  *)
(* met, and when it is run.                                                *)
LEMMA DueCommand ==
  ASSUME ExpandTypeOK, Stacked(frames), NEW size, NEW named \in Namings,
         ReadCommand \/ RunCommand(size), answer' # "fail"
  PROVE  buffer' \o DueTo(named, "buffer")[frames'] = buffer \o DueTo(named, "buffer")[frames]
<1> DEFINE Due(x) == DueTo(named, "buffer")[x]
<1>1. Running
  BY DEF ReadCommand, RunCommand, CommandRead
<1>2. /\ frames \in Seq(Frame) /\ frames # <<>> /\ Top = Peak(frames) /\ Top \in Frame
      /\ buffer \in Seq(Chars)
  BY <1>1, Innermost DEF ExpandTypeOK
<1>3. CASE ReadCommand
  <2> DEFINE f == [rest |-> Text[First], withcmd |-> FALSE, into |-> "line"]
  <2>1. First \in Commands /\ frames' = Append(frames, f) /\ buffer' = buffer
    BY <1>3 DEF ReadCommand
  <2>2. f \in Frame /\ f.into = "line"
    BY <2>1, ExpandAssumption DEF Frame
  <2> HIDE DEF f
  <2>3. Due(frames') = ShareTo(named, "buffer", f) \o Due(frames)
    BY <1>2, <2>1, <2>2, DueAppend
  <2>4. ShareTo(named, "buffer", f) = <<>> /\ Due(frames) \in Seq(Chars)
    BY <1>2, <2>2, DueIs DEF ShareTo
  <2>5. Due(frames') = Due(frames)
    BY <2>3, <2>4, ConcatEmptySeq
  <2>6. QED
    BY <2>1, <2>5
<1>4. CASE RunCommand(size)
  <2> DEFINE below == Front(frames)
             prints == Prints[Head(frames[1].rest)]
             rest == Due(Shortened(below))
  <2>1. below[1] = frames[1] /\ Len(below) = 1
    BY <1>4, CommandUnder DEF RunCommand, Peak
  <2>2. buffer' = buffer \o prints /\ frames' = Shortened(below)
    BY <1>4, <2>1 DEF RunCommand, Refuse, Front
  <2>3. prints \in Seq(Chars) /\ rest \in Seq(Chars) /\ Due(frames) = prints \o rest
    BY <1>4, DueRead DEF RunCommand
  <2> HIDE DEF prints, rest
  <2>4. (buffer \o prints) \o rest = buffer \o (prints \o rest)
    BY <1>2, <2>3, ConcatAssociative
  <2>5. buffer' \o rest = buffer \o Due(frames)
    BY ONLY <2>2, <2>3, <2>4
  <2>6. rest = Due(frames')
    BY <2>2 DEF rest
  <2>7. QED
    BY <2>5, <2>6
<1>5. QED
  BY <1>3, <1>4

(* What is read of the command under expansion, and what is still to be    *)
(* read, is what it means.                                                 *)
CommandReads(stack, written, node) ==
  (\E k \in 1..Len(stack) : stack[k].into = "line") =>
    /\ Len(stack) >= 2 /\ stack[2].into = "line"
    /\ written \o DueTo(NameMeaning(node), "line")[stack]
         = Means(Text[Head(stack[1].rest)], node, FALSE)

(* A token that is dealt with changes neither where the strings go nor the *)
(* strings below.                                                          *)
LEMMA ShortenedInto ==
  ASSUME NEW s \in Seq(Frame), s # <<>>, Peak(s).rest # <<>>
  PROVE  /\ Len(Shortened(s)) = Len(s) /\ Len(s) \in Nat \ {0}
         /\ \A k \in 1..Len(s) : /\ Shortened(s)[k].into = s[k].into
                                 /\ k # Len(s) => Shortened(s)[k] = s[k]
<1> DEFINE n == Len(s)
           e == [rest |-> Tail(s[n].rest), withcmd |-> s[n].withcmd, into |-> s[n].into]
           t == Shortened(s)
<1>1. s[n].rest # <<>>
  BY DEF Peak
<1>2. /\ n \in Nat \ {0} /\ Len(t) = n
      /\ \A k \in 1..n : t[k] = IF k = n THEN e ELSE s[k]
  BY <1>1, ShortenedIs
<1>3. e.into = s[n].into
  OBVIOUS
<1> HIDE DEF e, t
<1>4. \A k \in 1..n : t[k].into = s[k].into /\ (k # n => t[k] = s[k])
  BY <1>2, <1>3
<1>5. QED
  BY <1>2, <1>4 DEF t

(* CommandReads through a step of the expansion.                           *)
LEMMA CommandReadsStep ==
  ASSUME ExpandTypeOK, Stacked(frames), NEW size \in Nat, NEW node \in Contexts, NoLoop(node),
         CommandReads(frames, line, node), ExpandStep(node, size), answer' # "fail"
  PROVE  CommandReads(frames', line', node)
<1> DEFINE named == NameMeaning(node)
           Due(x) == DueTo(named, "line")[x]
           n == Len(frames)
           Lined(x) == \E k \in 1..Len(x) : x[k].into = "line"
<1>1. Running
  BY DEF ExpandStep, PutChar, GetDefault, SkipCommand, ReadCommand, RunCommand,
         ExpandReturns, CommandRead
<1>2. /\ frames \in Seq(Frame) /\ frames # <<>> /\ n \in Nat \ {0}
      /\ Top = Peak(frames) /\ Top = frames[n] /\ Top \in Frame
  BY <1>1, Innermost
<1>3. named \in Namings
  BY NameMeaningIs
<1>4. frames[1].into = "buffer" /\ (Top.withcmd => n = 1)
  <2>1. \A k \in 1..n : (frames[k].withcmd => k = 1) /\ (k = 1 => frames[k].into = "buffer")
    BY DEF Stacked
  <2> HIDE DEF n
  <2>2. 1 \in 1..n /\ n \in 1..n
    BY <1>2
  <2>3. QED
    BY <1>2, <2>1, <2>2
<1>5. Top.rest # <<>> =>
        /\ Len(Shortened(frames)) = n
        /\ \A k \in 1..n : /\ Shortened(frames)[k].into = frames[k].into
                           /\ k # n => Shortened(frames)[k] = frames[k]
  BY <1>2, ShortenedInto
<1>6. Lined(frames) =>
        /\ n >= 2 /\ frames[2].into = "line"
        /\ line \o Due(frames) = Means(Text[Head(frames[1].rest)], node, FALSE)
  BY DEF CommandReads
<1>7. PutChar(size) \/ GetDefault(node) \/ SkipCommand \/ ExpandReturns =>
        line' \o Due(frames') = line \o Due(frames)
  BY DueStep DEF Out
<1> SUFFICES ASSUME Lined(frames')
             PROVE  /\ Len(frames') >= 2 /\ frames'[2].into = "line"
                    /\ line' \o Due(frames') = Means(Text[Head(frames'[1].rest)], node, FALSE)
  BY DEF CommandReads
<1>8. /\ Lined(frames) <=> \E k \in 1..n : frames[k].into = "line"
      /\ \E k \in 1..Len(frames') : frames'[k].into = "line"
  OBVIOUS
<1> HIDE DEF Due, named, n, Lined
<1>9. ASSUME PutChar(size) \/ GetDefault(node) \/ SkipCommand \/ ExpandReturns,
             Lined(frames), Len(frames') >= 2, frames'[2].into = frames[2].into,
             frames'[1] = frames[1]
      PROVE  /\ Len(frames') >= 2 /\ frames'[2].into = "line"
             /\ line' \o Due(frames') = Means(Text[Head(frames'[1].rest)], node, FALSE)
  BY <1>6, <1>7, <1>9
<1>10. CASE (PutChar(size) \/ SkipCommand) /\ Top.rest # <<>> /\ frames' = Shortened(frames)
  <2>1. Lined(frames)
    BY <1>5, <1>8, <1>10
  <2>2. n >= 2 /\ 1 \in 1..n /\ 2 \in 1..n
    BY <1>2, <1>6, <2>1
  <2>3. Len(frames') >= 2 /\ frames'[2].into = frames[2].into
    BY <1>5, <1>10, <2>2
  <2>4. frames'[1] = frames[1]
    BY <1>5, <1>10, <2>2
  <2>5. QED
    BY <1>9, <1>10, <2>1, <2>3, <2>4
<1>11. CASE GetDefault(node)
  <2> DEFINE f == Inner(Meant(First, node))
             t == Shortened(frames)
  <2>1. Top.rest # <<>> /\ First \in Names /\ frames' = Append(t, f)
    BY <1>11 DEF GetDefault, Refuse
  <2>2. f.into = Top.into
    BY DEF Inner
  <2>3. t \in Seq(Frame) /\ Len(t) = n
    BY <1>2, <1>5, <2>1, ShortenedFront
  <2> HIDE DEF f, t
  <2>4. /\ Len(frames') = n + 1 /\ frames'[n + 1] = f
        /\ \A k \in 1..n : frames'[k] = t[k]
    BY <2>1, <2>3, AppendProperties
  <2>5. Lined(frames)
    <3>1. PICK k \in 1..Len(frames') : frames'[k].into = "line"
      BY <1>8
    <3>2. CASE k = n + 1
      <4>1. frames[n].into = "line" /\ n \in 1..n
        BY <1>2, <2>2, <2>4, <3>1, <3>2
      <4>2. QED
        BY <1>8, <4>1
    <3>3. CASE k # n + 1
      <4>1. k \in 1..n
        BY <1>2, <2>4, <3>3
      <4>2. frames[k].into = "line"
        BY <1>5, <2>1, <2>4, <3>1, <4>1 DEF t
      <4>3. QED
        BY <1>8, <4>1, <4>2
    <3>4. QED
      BY <3>2, <3>3
  <2>6. n >= 2 /\ 1 \in 1..n /\ 2 \in 1..n
    BY <1>2, <1>6, <2>5
  <2>7. Len(frames') >= 2 /\ frames'[2].into = frames[2].into
    BY <1>2, <1>5, <2>1, <2>4, <2>6 DEF t
  <2>8. frames'[1] = frames[1]
    BY <1>2, <1>5, <2>1, <2>4, <2>6 DEF t
  <2>9. QED
    BY <1>9, <1>11, <2>5, <2>7, <2>8
<1>12. CASE ExpandReturns
  <2>1. frames' = Front(frames)
    BY <1>12 DEF ExpandReturns, Front
  <2>2. /\ Len(frames') = n - 1 /\ \A k \in 1..(n - 1) : frames'[k] = frames[k]
    BY <1>2, <2>1, FrontIs DEF n
  <2>3. PICK k \in 1..(n - 1) : frames[k].into = "line"
    BY <1>8, <2>2
  <2>4. k \in 1..n /\ k # 1
    BY <1>2, <1>4, <2>3
  <2>5. Lined(frames) /\ n - 1 >= 2
    BY <1>2, <1>8, <2>3, <2>4
  <2>6. 1 \in 1..(n - 1) /\ 2 \in 1..(n - 1)
    BY <1>2, <2>5
  <2>7. QED
    BY <1>9, <1>12, <2>2, <2>5, <2>6
<1>13. CASE ReadCommand
  <2> DEFINE f == [rest |-> Text[First], withcmd |-> FALSE, into |-> "line"]
  <2>1. First \in Commands /\ Top.withcmd /\ frames' = Append(frames, f) /\ line' = <<>>
    BY <1>13 DEF ReadCommand
  <2>2. f \in Frame /\ f.into = "line" /\ f.rest = Text[First] /\ f.withcmd = FALSE
    BY <2>1, ExpandAssumption DEF Frame
  <2> HIDE DEF f
  <2>3. n = 1
    BY <1>4, <2>1
  <2>4. /\ Len(frames') = 2 /\ frames'[2] = f /\ frames'[1] = frames[1]
    <3>1. /\ Len(frames') = n + 1 /\ frames'[n + 1] = f
          /\ \A k \in 1..n : frames'[k] = frames[k]
      BY <1>2, <2>1, <2>2, AppendProperties DEF n
    <3>2. QED
      BY <2>3, <3>1
  <2>5. Due(frames') = ShareTo(named, "line", f) \o Due(frames)
    BY <1>2, <1>3, <2>1, <2>2, DueAppend DEF Due
  <2>6. Due(frames) = <<>>
    <3>1. DueTo(named, "line")[frames] = ShareTo(named, "line", Peak(frames))
                                           \o DueTo(named, "line")[Front(frames)]
      BY <1>2, <1>3, DueIs
    <3>2. ShareTo(named, "line", Peak(frames)) = <<>>
      BY <1>2, <1>4, <2>3 DEF ShareTo
    <3>3. Front(frames) = <<>>
      <4>1. Front(frames) \in Seq(Frame) /\ Len(Front(frames)) = 0
        BY <1>2, <2>3, FrontIs DEF n
      <4>2. QED
        BY <4>1, EmptySeq
    <3>4. DueTo(named, "line")[Front(frames)] = <<>>
      BY <1>3, <3>3, DueIs, EmptySeq
    <3>5. QED
      BY <3>1, <3>2, <3>4, ConcatEmptySeq, EmptySeq DEF Due
  <2>7. ShareTo(named, "line", f) = Means(Text[First], node, FALSE)
    BY <2>2 DEF ShareTo, Means, named
  <2>8. ShareTo(named, "line", f) \in Seq(Chars)
    BY <1>3, <2>2, ShareType
  <2>9. line' \o Due(frames') = Means(Text[First], node, FALSE)
    BY <2>1, <2>5, <2>6, <2>7, <2>8, ConcatEmptySeq
  <2>10. First = Head(frames'[1].rest)
    BY <1>2, <2>3, <2>4 DEF First
  <2>11. QED
    BY <2>2, <2>4, <2>9, <2>10
<1>14. CASE RunCommand(size)
  <2> DEFINE below == Front(frames)
  <2>1. frames' = Shortened(below)
    BY <1>14 DEF RunCommand, Refuse, Front
  <2>2. /\ below \in Seq(Frame) /\ below # <<>> /\ Peak(below).rest # <<>> /\ Len(below) = 1
        /\ Peak(below) = frames[1] /\ n = 2
    BY <1>14, CommandUnder DEF RunCommand, n
  <2>3. below[1] = frames[1]
    BY <2>2 DEF Peak
  <2>4. Len(frames') = 1 /\ frames'[1].into = frames[1].into
    BY <2>1, <2>2, <2>3, ShortenedInto
  <2>5. QED
    BY <1>4, <1>8, <2>4
<1>15. QED
  <2>1. PutChar(size) \/ SkipCommand => Top.rest # <<>> /\ frames' = Shortened(frames)
    BY DEF PutChar, SkipCommand, Refuse
  <2>2. QED
    BY <1>10, <1>11, <1>12, <1>13, <1>14, <2>1 DEF ExpandStep

(* What a string has said, and what it is still to say, is what it means.  *)
Expanding(string, withcmd, begun, node) ==
  /\ answer = "ok" => frames = <<>>
  /\ Reads(frames, string, withcmd, node)
  /\ answer # "fail" =>
       /\ buffer \o DueTo(NameMeaning(node), "buffer")[frames] = begun \o Means(string, node, withcmd)
       /\ CommandReads(frames, line, node)

(* What a string means consists of characters.                             *)
LEMMA MeansType ==
  ASSUME NEW node \in Contexts, NoLoop(node), NEW string \in String, NEW withcmd \in BOOLEAN
  PROVE  Means(string, node, withcmd) \in Seq(Chars)
BY NameMeaningIs, MeaningType DEF Means

(* Expanding through a step of the expansion: what is written grows by     *)
(* what is no longer due.                                                  *)
LEMMA ExpandingStep ==
  ASSUME ExpandTypeOK, Stacked(frames), NEW size \in Nat, NEW node \in Contexts, NoLoop(node),
         NEW string \in String, NEW withcmd \in BOOLEAN, NEW begun,
         Expanding(string, withcmd, begun, node), ExpandStep(node, size) \/ CommandFails
  PROVE  Expanding(string, withcmd, begun, node)'
<1> DEFINE named == NameMeaning(node)
           Due(x) == DueTo(named, "buffer")[x]
           Meant0 == begun \o Means(string, node, withcmd)
<1>1. Running
  BY DEF ExpandStep, PutChar, GetDefault, SkipCommand, ReadCommand, RunCommand,
         ExpandReturns, CommandFails, CommandRead
<1>2. answer = "run"
  BY <1>1 DEF Running
<1>3. Reads(frames', string, withcmd, node)
  BY ReadsStep DEF Expanding
<1>4. answer' = "ok" => frames' = <<>>
  <2>1. CASE ExpandReturns
    <3>1. frames \in Seq(Frame) /\ frames # <<>>
      BY <1>1, Innermost
    <3>2. Front(frames) \in Seq(Frame) /\ Len(Front(frames)) = Len(frames) - 1
      BY <3>1, FrontIs
    <3>3. Len(frames) = 1 => Front(frames) = <<>>
      BY <3>2, EmptySeq
    <3>4. QED
      BY <2>1, <3>3 DEF ExpandReturns, Front
  <2>2. CASE ~ ExpandReturns
    <3>1. answer' \in {"run", "fail"}
      BY <1>2, <2>2 DEF ExpandStep, PutChar, GetDefault, SkipCommand, ReadCommand, RunCommand,
         CommandFails, Refuse
    <3>2. QED
      BY <3>1
  <2>3. QED
    BY <2>1, <2>2
<1>5. ASSUME answer' # "fail"
      PROVE  buffer' \o Due(frames') = Meant0 /\ CommandReads(frames', line', node)
  <2>1. ExpandStep(node, size)
    BY <1>5 DEF CommandFails, Refuse
  <2>2. buffer \o Due(frames) = Meant0 /\ CommandReads(frames, line, node)
    BY <1>2 DEF Expanding
  <2>3. CommandReads(frames', line', node)
    BY <1>5, <2>1, <2>2, CommandReadsStep
  <2>4. named \in Namings
    BY NameMeaningIs
  <2> HIDE DEF Meant0
  <2>5. buffer' \o Due(frames') = buffer \o Due(frames)
    <3>1. CASE ReadCommand \/ RunCommand(size)
      <4> HIDE DEF named
      <4>1. QED
        BY <1>5, <2>4, <3>1, DueCommand
    <3>2. CASE PutChar(size) \/ GetDefault(node) \/ SkipCommand \/ ExpandReturns
      <4>1. Out("buffer")' \o DueTo(named, "buffer")[frames']
              = Out("buffer") \o DueTo(named, "buffer")[frames]
        BY <1>5, <3>2, DueStep
      <4>2. QED
        BY <4>1 DEF Out
    <3>3. QED
      BY <2>1, <3>1, <3>2 DEF ExpandStep
  <2>6. QED
    BY <2>2, <2>3, <2>5
<1>6. QED
  BY <1>3, <1>4, <1>5 DEF Expanding

(* It holds when an expansion is started.                                  *)
LEMMA ExpandingStart ==
  ASSUME NEW node \in Contexts, NoLoop(node), NEW string \in String, NEW withcmd \in BOOLEAN,
         NEW begun \in Seq(Chars), ExpandStart(string, withcmd, begun)
  PROVE  Expanding(string, withcmd, begun, node)'
<1> DEFINE f == [rest |-> string, withcmd |-> withcmd, into |-> "buffer"]
           named == NameMeaning(node)
<1>1. f \in Frame /\ f.into = "buffer" /\ f.rest = string /\ f.withcmd = withcmd
  BY DEF Frame
<1>2. frames' = <<f>> /\ buffer' = begun /\ answer' = "run"
  BY DEF ExpandStart
<1>3. named \in Namings
  BY NameMeaningIs
<1> HIDE DEF f
<1>4. <<f>> = Append(<<>>, f) /\ <<>> \in Seq(Frame) /\ Len(<<f>>) = 1 /\ <<f>>[1] = f
  OBVIOUS
<1>5. Reads(<<f>>, string, withcmd, node)
  <2>1. TooLong(string, node) => Unfits(string, withcmd, node)
    BY DEF Unfits
  <2>2. QED
    BY <1>1, <1>4, <2>1 DEF Reads
<1>6. CommandReads(<<f>>, line', node)
  BY <1>1, <1>4 DEF CommandReads
<1>7. DueTo(named, "buffer")[<<f>>] = Means(string, node, withcmd)
  <2>1. DueTo(named, "buffer")[Append(<<>>, f)]
          = ShareTo(named, "buffer", f) \o DueTo(named, "buffer")[<<>>]
    BY <1>1, <1>3, <1>4, DueAppend
  <2>2. ShareTo(named, "buffer", f) = Means(string, node, withcmd)
    BY <1>1 DEF ShareTo, Means
  <2>3. DueTo(named, "buffer")[<<>>] = <<>>
    BY <1>3, <1>4, DueIs
  <2>4. Means(string, node, withcmd) \in Seq(Chars)
    BY MeansType
  <2>5. QED
    BY <1>4, <2>1, <2>2, <2>3, <2>4, ConcatEmptySeq
<1>8. QED
  BY <1>2, <1>5, <1>6, <1>7 DEF Expanding

(* An expansion has a reason to fail: what it says is too long for the     *)
(* buffer, or a value or a command it needs for theirs, or a command       *)
(* prints nothing.                                                         *)
Reason(string, withcmd, begun, node, size) ==
  \/ Len(begun \o Means(string, node, withcmd)) > size
  \/ withcmd /\ Len(begun \o Means(string, node, withcmd)) >= size
  \/ Unfits(string, withcmd, node)
  \/ withcmd /\ \E command \in Commands \cap Held(string) :
       Prints[command] = <<>> \/ Len(Means(Text[command], node, FALSE)) > Small

(* An expansion that is refused has such a reason.                         *)
LEMMA FailsForAReasonStep ==
  ASSUME ExpandTypeOK, Stacked(frames), NEW size \in Nat, NEW node \in Contexts, NoLoop(node),
         NEW string \in String, NEW withcmd \in BOOLEAN, NEW begun \in Seq(Chars),
         Expanding(string, withcmd, begun, node), ExpandStep(node, size), answer' = "fail"
  PROVE  Reason(string, withcmd, begun, node, size)
<1> DEFINE named == NameMeaning(node)
           Due(x) == DueTo(named, "buffer")[x]
           all == begun \o Means(string, node, withcmd)
           n == Len(frames)
<1>1. Running
  BY DEF ExpandStep, PutChar, GetDefault, SkipCommand, ReadCommand, RunCommand,
         ExpandReturns, CommandRead
<1>2. /\ frames \in Seq(Frame) /\ frames # <<>> /\ Top = Peak(frames) /\ Top \in Frame
      /\ buffer \in Seq(Chars) /\ line \in Seq(Chars) /\ answer = "run"
      /\ n \in Nat \ {0} /\ Top = frames[n]
  BY <1>1, Innermost DEF ExpandTypeOK, Running
<1>3. named \in Namings /\ all \in Seq(Chars)
  BY NameMeaningIs, MeansType, ConcatProperties
<1>4. buffer \o Due(frames) = all /\ CommandReads(frames, line, node)
      /\ Reads(frames, string, withcmd, node)
  BY <1>2 DEF Expanding
<1>5. 1 \in 1..n /\ n \in 1..n
  <2> HIDE DEF n
  <2>1. QED
    BY <1>2
<1>6. CASE PutChar(size)
  <2>1. Top.rest # <<>> /\ First \in Chars
        /\ Len(IF Top.into = "buffer" THEN buffer ELSE line)
             = IF Top.into = "buffer" THEN size ELSE Small
    BY <1>2, <1>6 DEF PutChar
  <2>2. TokenMeaning(named, Top.withcmd, First) = <<First>>
    BY <2>1 DEF TokenMeaning
  <2>3. \A what \in {"buffer", "line"} : Top.into = what =>
          Len(Out(what) \o DueTo(named, what)[frames]) > Len(Out(what))
    <3> TAKE what \in {"buffer", "line"}
    <3> HAVE Top.into = what
    <3> DEFINE rest == DueTo(named, what)[Shortened(frames)]
               out == Out(what)
    <3>1. DueTo(named, what)[frames] = <<First>> \o rest
      <4>1. Peak(frames).rest # <<>>
        BY <1>2, <2>1
      <4>2. DueTo(named, what)[frames] =
              IF Peak(frames).into = what
                THEN TokenMeaning(named, Peak(frames).withcmd, Head(Peak(frames).rest)) \o rest
                ELSE rest
        BY <1>2, <1>3, <4>1, DueShortened
      <4>3. QED
        BY <1>2, <2>2, <4>2 DEF First
    <3>2. rest \in Seq(Chars)
      BY <1>2, <1>3, <2>1, ShortenedFront, DueIs
    <3>3. out \in Seq(Chars)
      BY <1>2 DEF Out
    <3> HIDE DEF rest, out
    <3>4. Len(<<First>> \o rest) > 0 /\ <<First>> \o rest \in Seq(Chars)
      BY <2>1, <3>2
    <3>5. Len(out \o (<<First>> \o rest)) = Len(out) + Len(<<First>> \o rest)
      BY <3>3, <3>4, ConcatProperties
    <3>6. Len(out) \in Nat /\ Len(<<First>> \o rest) \in Nat
      BY <3>3, <3>4, LenProperties
    <3>7. Len(out \o (<<First>> \o rest)) > Len(out)
      BY <3>4, <3>5, <3>6
    <3>8. QED
      BY <3>1, <3>7 DEF out
  <2>4. CASE Top.into = "buffer"
    BY <1>4, <2>1, <2>3, <2>4 DEF Out, Reason
  <2>5. CASE Top.into # "buffer"
    <3>1. Top.into = "line"
      BY <1>1, <2>5, Innermost
    <3>2. /\ n >= 2 /\ frames[2].into = "line"
          /\ line \o DueTo(named, "line")[frames] = Means(Text[Head(frames[1].rest)], node, FALSE)
      BY <1>2, <1>4, <1>5, <3>1 DEF CommandReads
    <3>3. frames[1].withcmd /\ frames[1].rest # <<>> /\ Head(frames[1].rest) \in Commands
      <4>1. /\ \A k \in 1..n :
                 /\ k = 1 => frames[k].into = "buffer"
                 /\ k > 1 /\ frames[k].into = "line" /\ frames[k - 1].into = "buffer" =>
                      /\ frames[k - 1].withcmd
                      /\ frames[k - 1].rest # <<>> /\ Head(frames[k - 1].rest) \in Commands
        BY DEF Stacked
      <4> HIDE DEF n
      <4>2. 2 \in 1..n /\ 2 > 1 /\ 2 - 1 = 1
        BY <1>2, <3>2
      <4>3. frames[1].into = "buffer"
        BY <1>5, <4>1
      <4>4. QED
        BY <3>2, <4>1, <4>2, <4>3
    <3> DEFINE command == Head(frames[1].rest)
    <3>4. withcmd /\ command \in Held(string)
      <4>1. frames[1] \in Frame
        BY <1>2, <1>5, ElementOfSeq
      <4>2. command \in Held(frames[1].rest)
        BY <3>3, <4>1, HeldTail DEF Frame
      <4>3. QED
        BY <1>4, <1>5, <3>3, <4>2 DEF Reads
    <3>5. Len(Means(Text[command], node, FALSE)) > Small
      BY <2>1, <2>3, <2>5, <3>1, <3>2 DEF Out
    <3>6. QED
      BY <3>3, <3>4, <3>5 DEF Reason
  <2>6. QED
    BY <2>4, <2>5
<1>7. CASE GetDefault(node)
  <2>1. Top.rest # <<>> /\ First \in Names /\ First \in Table /\ Len(Meant(First, node)) >= Small
    BY <1>2, <1>7 DEF GetDefault
  <2>2. First \in Unfit(node)
    BY <2>1, UnfitIs
  <2>3. TooLong(Top.rest, node)
    BY <1>1, <2>1, <2>2, Innermost DEF TooLong
  <2>4. Unfits(string, withcmd, node)
    BY <1>2, <1>4, <1>5, <2>3 DEF Reads
  <2>5. QED
    BY <2>4 DEF Reason
<1>8. CASE RunCommand(size)
  <2> DEFINE below == Front(frames)
             command == Head(frames[1].rest)
             prints == Prints[command]
             rest == Due(Shortened(below))
  <2>1. /\ below \in Seq(Frame) /\ below # <<>> /\ Peak(below) = frames[1]
        /\ frames[1].withcmd /\ frames[1].into = "buffer" /\ frames[1].rest # <<>>
        /\ command \in Commands /\ Top.into = "line" /\ Len(below) = 1 /\ frames[1] \in Frame
    BY <1>8, CommandUnder DEF RunCommand
  <2>2. below[1] = frames[1]
    BY <2>1 DEF Peak
  <2>3. ~ Printed(command, size - Len(buffer))
    BY <1>2, <1>8, <2>1, <2>2 DEF RunCommand, Front
  <2>4. withcmd /\ command \in Held(string)
    <3>1. command \in Held(frames[1].rest)
      BY <2>1, HeldTail DEF Frame
    <3>2. QED
      BY <1>4, <1>5, <2>1, <3>1 DEF Reads
  <2>5. CASE prints = <<>>
    BY <2>1, <2>4, <2>5 DEF Reason
  <2>6. CASE prints # <<>>
    <3>1. Len(prints) >= size - Len(buffer)
      <4>1. prints \in Seq(Chars)
        BY <2>1, ExpandAssumption
      <4>2. Len(prints) \in Nat /\ Len(buffer) \in Nat
        BY <1>2, <4>1, LenProperties
      <4>3. ~ (Len(prints) < size - Len(buffer))
        BY <2>3, <2>6 DEF Printed
      <4> HIDE DEF prints
      <4>4. QED
        BY <4>2, <4>3
    <3>2. prints \in Seq(Chars) /\ rest \in Seq(Chars) /\ Due(frames) = prints \o rest
      BY <1>3, <1>8, DueRead DEF RunCommand
    <3> HIDE DEF rest, prints, Due, all, below
    <3>3. all = buffer \o (prints \o rest)
      BY <1>4, <3>2
    <3>4. prints \o rest \in Seq(Chars) /\ Len(prints \o rest) = Len(prints) + Len(rest)
      BY <3>2, ConcatProperties
    <3>5. Len(all) = Len(buffer) + Len(prints \o rest)
      BY <1>2, <3>3, <3>4, ConcatProperties
    <3>6. Len(buffer) \in Nat /\ Len(prints) \in Nat /\ Len(rest) \in Nat
      BY <1>2, <3>2, LenProperties
    <3>7. Len(all) >= size
      BY <3>1, <3>4, <3>5, <3>6
    <3>8. QED
      BY <2>4, <3>7 DEF Reason, all
  <2>7. QED
    BY <2>5, <2>6
<1>9. QED
  <2>1. ~ SkipCommand /\ ~ ReadCommand /\ ~ ExpandReturns
    BY <1>2 DEF SkipCommand, ReadCommand, ExpandReturns
  <2>2. QED
    BY <1>6, <1>7, <1>8, <2>1 DEF ExpandStep

(* What the configurations say of a path before one of them, with a colon  *)
(* behind each.                                                            *)
LengthTo(name, p) ==
  LengthBefore(name)[p[1]] + (IF p[2] = 0 THEN PathLength(name, <<p[1], 1>>) ELSE 0)

(* LengthBefore, by the recursion that defines it.                         *)
LEMMA LengthBeforeIs ==
  ASSUME NEW name, \A p \in Where : PathLength(name, p) \in Nat
  PROVE  /\ \A d \in 0..Nodes : LengthBefore(name)[d] \in Nat
         /\ LengthBefore(name)[0] = 0
         /\ \A d \in 0..(Nodes - 1) :
              LengthBefore(name)[d + 1] =
                LengthBefore(name)[d] + PathLength(name, <<d, 1>>) + PathLength(name, <<d, 0>>)
<1> DEFINE S == 0..Nodes
           own == [d \in 0..(Nodes - 1) |-> PathLength(name, <<d, 1>>) + PathLength(name, <<d, 0>>)]
           Body(d, g) == IF d = 0 THEN 0
                         ELSE g[d - 1] + PathLength(name, <<d - 1, 1>>) + PathLength(name, <<d - 1, 0>>)
           rank == [d \in S |-> d]
           D == [d \in S |-> [g \in [S -> Nat] |-> Body(d, g)]]
<1>1. Nodes \in Nat /\ S \subseteq Nat /\ 0 \in S
  BY EnvironmentAssumption
<1>2. \A d \in S : d # 0 => /\ d - 1 \in S /\ d - 1 \in Nat /\ d - 1 < d
                            /\ PathLength(name, <<d - 1, 1>>) \in Nat
                            /\ PathLength(name, <<d - 1, 0>>) \in Nat
  <2> TAKE d \in S
  <2>1. d # 0 => d - 1 \in 0..(Nodes - 1)
    BY <1>1
  <2>2. d # 0 => <<d - 1, 1>> \in Where /\ <<d - 1, 0>> \in Where
    BY <2>1 DEF Where
  <2>3. QED
    BY <1>1, <2>1, <2>2
<1>3. \A d \in S, g \in [S -> Nat] : Body(d, g) \in Nat
  BY <1>2
<1>4. D \in [S -> [[S -> Nat] -> Nat]] /\ rank \in [S -> Nat]
  <2> HIDE DEF Body
  <2>1. QED
    BY <1>1, <1>3
<1>5. ASSUME NEW d \in S, NEW g \in [S -> Nat], NEW h \in [S -> Nat],
             \A m \in S : rank[m] < rank[d] => g[m] = h[m]
      PROVE  D[d][g] = D[d][h]
  <2>1. d # 0 => d - 1 \in S /\ rank[d - 1] < rank[d]
    BY <1>2
  <2>2. Body(d, g) = Body(d, h)
    BY <1>5, <2>1
  <2> HIDE DEF Body
  <2>3. QED
    BY <2>2
<1>6. PICK f \in [S -> Nat] : \A d \in S : f[d] = D[d][f]
  <2>1. \A d \in S : \A g, h \in [S -> Nat] :
          (\A m \in S : rank[m] < rank[d] => g[m] = h[m]) => D[d][g] = D[d][h]
    <3> HIDE DEF D
    <3>1. QED
      BY <1>5
  <2> HIDE DEF rank, D, S
  <2>2. Recursive(S, Nat, rank, D)
    BY <1>4, <2>1 DEF Recursive
  <2>3. QED
    BY <2>2, Recursion
<1>7. f = [d \in S |-> Body(d, f)]
  <2> HIDE DEF Body
  <2>1. \A d \in S : f[d] = Body(d, f)
    BY <1>6
  <2>2. QED
    BY <2>1
<1> DEFINE before == LengthBefore(name)
<1>8. before = [d \in S |-> Body(d, before)]
  BY <1>7, Zenon DEF LengthBefore
<1> HIDE DEF before
<1>9. \A d \in S : before[d] = Body(d, before)
  <2> HIDE DEF Body
  <2>1. QED
    BY <1>8
<1>10. \A d \in S : before[d] \in Nat
  <2> DEFINE T == {d \in S : before[d] \in Nat}
  <2>1. ASSUME NEW d \in S, \A m \in S : rank[m] < rank[d] => m \in T
        PROVE  d \in T
    <3>1. d # 0 => d - 1 \in S /\ rank[d - 1] < rank[d]
      BY <1>2
    <3>2. before[d] = Body(d, before)
      BY <1>9
    <3>3. QED
      BY <1>2, <2>1, <3>1, <3>2
  <2>2. S = T
    <3>1. T \subseteq S
      OBVIOUS
    <3> HIDE DEF T, rank, S
    <3>2. QED
      BY <1>4, <2>1, <3>1, RankInduction
  <2>3. QED
    BY <2>2
<1>11. before[0] = 0
  BY <1>1, <1>9
<1>12. ASSUME NEW d \in 0..(Nodes - 1)
       PROVE  before[d + 1] = before[d] + PathLength(name, <<d, 1>>) + PathLength(name, <<d, 0>>)
  <2>1. d + 1 \in S /\ d + 1 # 0 /\ (d + 1) - 1 = d
    BY <1>1
  <2>2. before[d + 1] = Body(d + 1, before)
    BY <1>9, <2>1
  <2>3. QED
    BY <2>1, <2>2
<1>13. QED
  BY <1>10, <1>11, <1>12 DEF before

(* What they say before one of them is no more than what all say.          *)
LEMMA LengthGrows ==
  ASSUME NEW name, \A p \in Where : PathLength(name, p) \in Nat
  PROVE  \A d \in 0..Nodes : LengthBefore(name)[d] <= LengthBefore(name)[Nodes]
<1> DEFINE S == 0..Nodes
           before == LengthBefore(name)
           rank == [d \in S |-> Nodes - d]
           T == {d \in S : before[d] <= before[Nodes]}
<1>1. Nodes \in Nat /\ Nodes \in S /\ S \subseteq Nat
  BY EnvironmentAssumption
<1>2. \A d \in S : before[d] \in Nat
  BY LengthBeforeIs
<1>3. \A d \in 0..(Nodes - 1) : before[d] <= before[d + 1]
  <2> TAKE d \in 0..(Nodes - 1)
  <2>1. <<d, 1>> \in Where /\ <<d, 0>> \in Where
    BY DEF Where
  <2>2. PathLength(name, <<d, 1>>) \in Nat /\ PathLength(name, <<d, 0>>) \in Nat
    BY <2>1
  <2>3. before[d + 1] = before[d] + PathLength(name, <<d, 1>>) + PathLength(name, <<d, 0>>)
    BY LengthBeforeIs
  <2>4. d \in S
    BY <1>1
  <2> HIDE DEF before
  <2>5. QED
    BY <1>2, <2>2, <2>3, <2>4
<1> HIDE DEF before
<1>4. ASSUME NEW d \in S, \A m \in S : rank[m] < rank[d] => m \in T
      PROVE  d \in T
  <2>1. CASE d = Nodes
    BY <1>1, <1>2, <2>1
  <2>2. CASE d # Nodes
    <3>1. d \in 0..(Nodes - 1) /\ d + 1 \in S /\ rank[d + 1] < rank[d]
      BY <1>1, <2>2
    <3>2. before[d + 1] <= before[Nodes]
      BY <1>4, <3>1
    <3>3. QED
      BY <1>1, <1>2, <1>3, <3>1, <3>2
  <2>3. QED
    BY <2>1, <2>2
<1>5. rank \in [S -> Nat] /\ T \subseteq S
  BY <1>1
<1>6. S = T
  <2> HIDE DEF S, T, rank
  <2>1. QED
    BY <1>4, <1>5, RankInduction
<1>7. QED
  BY <1>6 DEF before

(* What is said before a configuration, and behind it.                     *)
LEMMA LengthToIs ==
  ASSUME NEW name, \A p \in Where : PathLength(name, p) \in Nat,
         place \in Where
  PROVE  /\ LengthTo(name, place) \in Nat
         /\ LengthTo(name, PlaceAfter) = LengthTo(name, place) + PathLength(name, place)
         /\ LengthTo(name, place) + PathLength(name, place) <= LengthBefore(name)[Nodes]
         /\ LengthBefore(name)[Nodes] \in Nat
<1> DEFINE before == LengthBefore(name)
           Own(a) == PathLength(name, <<place[1], a>>)
<1>1. PICK d \in 0..(Nodes - 1), a \in {0, 1} : place = <<d, a>>
  BY DEF Where
<1>2. place[1] = d /\ place[2] = a /\ <<d, 1>> \in Where /\ <<d, 0>> \in Where
  BY <1>1 DEF Where
<1>3. Nodes \in Nat /\ d \in 0..Nodes /\ d + 1 \in 0..Nodes /\ Nodes \in 0..Nodes
  BY EnvironmentAssumption
<1>4. /\ before[d] \in Nat /\ before[d + 1] \in Nat /\ before[Nodes] \in Nat
      /\ before[d + 1] = before[d] + PathLength(name, <<d, 1>>) + PathLength(name, <<d, 0>>)
  BY <1>3, LengthBeforeIs
<1>5. before[d + 1] <= before[Nodes]
  BY <1>3, LengthGrows
<1>6. PathLength(name, <<d, 1>>) \in Nat /\ PathLength(name, <<d, 0>>) \in Nat
  BY <1>2
<1> HIDE DEF before
<1>7. CASE a = 1
  <2>1. PlaceAfter = <<d, 0>>
    BY <1>2, <1>7 DEF PlaceAfter
  <2>2. LengthTo(name, place) = before[d]
    BY <1>2, <1>4, <1>7 DEF LengthTo, before
  <2>3. LengthTo(name, PlaceAfter) = before[d] + PathLength(name, <<d, 1>>)
    BY <2>1 DEF LengthTo, before
  <2>4. place = <<d, 1>>
    BY <1>1, <1>7
  <2>5. QED
    BY <1>4, <1>5, <1>6, <2>2, <2>3, <2>4 DEF before
<1>8. CASE a = 0
  <2>1. PlaceAfter = <<d + 1, 1>>
    BY <1>2, <1>8 DEF PlaceAfter
  <2>2. LengthTo(name, place) = before[d] + PathLength(name, <<d, 1>>)
    BY <1>2, <1>8 DEF LengthTo, before
  <2>3. LengthTo(name, PlaceAfter) = before[d + 1]
    BY <1>4, <2>1 DEF LengthTo, before
  <2>4. place = <<d, 0>>
    BY <1>1, <1>8
  <2>5. QED
    BY <1>4, <1>5, <1>6, <2>2, <2>3, <2>4 DEF before
<1>9. QED
  BY <1>7, <1>8

(* What the configurations say does not change.                            *)
LEMMA SaidKept ==
  ASSUME wish' = wish
  PROVE  /\ \A name : OwnPath(name)' = OwnPath(name)
         /\ \A name, p : LengthTo(name, p)' = LengthTo(name, p)
         /\ \A name : BadPath(name)' = BadPath(name)
<1>1. \A name, p : PathLength(name, p)' = PathLength(name, p)
  BY DEF PathLength
<1>2. \A name : LengthBefore(name)' = LengthBefore(name)
  BY <1>1, Zenon DEF LengthBefore
<1>3. \A name, p : PathElements(name, p)' = PathElements(name, p)
  BY DEF PathElements
<1>4. \A name : OwnPath(name)' = OwnPath(name)
  BY <1>3 DEF OwnPath
<1>5. \A name, p : LengthTo(name, p)' = LengthTo(name, p)
  BY <1>1, <1>2 DEF LengthTo
<1>6. \A name : BadPath(name)' = BadPath(name)
  BY <1>2 DEF BadPath
<1>7. QED
  BY <1>4, <1>5, <1>6

(* The path that is next, of the variable that is next.                    *)
LEMMA HereIs ==
  ASSUME EnvTypes, AtPlace, \A node \in Contexts : NoLoop(node)
  PROVE  /\ place \in Where /\ place[1] \in Contexts /\ index \in 1..Len(Searched)
         /\ Searched[index] \in VarNames
         /\ \A p \in Where : PathLength(Searched[index], p) \in Nat
         /\ PathHere = wish.paths[Searched[index]][place]
         /\ PathHere = Missing => PathLength(Searched[index], place) = 0
         /\ PathHere # Missing =>
              /\ PathHere \in String
              /\ Means(PathHere, place[1], FALSE) \in Seq(Chars)
              /\ PathLength(Searched[index], place) = Len(Means(PathHere, place[1], FALSE)) + 1
              /\ ~ OwnPath(Searched[index]) => Elements[Means(PathHere, place[1], FALSE)] = <<>>
<1>1. index \in 1..Len(Searched)
  BY EnvironmentAssumption DEF EnvTypes, EnvironmentTypeOK, Expands, AtPlace
<1>2. /\ place \in Where /\ place[1] \in Contexts /\ Searched[index] \in VarNames
      /\ PathHere \in String \cup {Missing}
  BY PathHereType DEF EnvTypes, Expands
<1>3. wish.paths \in [{Searched[n] : n \in 1..Len(Searched)} -> [Where -> String \cup {Missing}]]
  BY DEF EnvTypes, EnvironmentTypeOK, Wish, SearchedNames
<1>4. ASSUME NEW p \in Where
      PROVE  PathLength(Searched[index], p) \in Nat
  <2>1. wish.paths[Searched[index]][p] \in String \cup {Missing}
    BY <1>1, <1>3
  <2>2. p[1] \in Contexts
    BY EnvironmentAssumption DEF Where
  <2>3. wish.paths[Searched[index]][p] # Missing =>
          Means(wish.paths[Searched[index]][p], p[1], FALSE) \in Seq(Chars)
    BY <2>1, <2>2, MeansType
  <2>4. CASE wish.paths[Searched[index]][p] = Missing
    BY <2>4 DEF PathLength
  <2>5. CASE wish.paths[Searched[index]][p] # Missing
    <3>1. PICK m \in Seq(Chars) : m = Means(wish.paths[Searched[index]][p], p[1], FALSE)
      BY <2>3, <2>5
    <3>2. PathLength(Searched[index], p) = Len(m) + 1
      BY <2>5, <3>1 DEF PathLength
    <3>3. Len(m) \in Nat
      BY LenProperties
    <3>4. QED
      BY <3>2, <3>3
  <2>6. QED
    BY <2>4, <2>5
<1>5. PathHere = wish.paths[Searched[index]][place]
  BY DEF PathHere
<1>6. PathHere = Missing => PathLength(Searched[index], place) = 0
  BY <1>5 DEF PathLength
<1>7. ASSUME PathHere # Missing
      PROVE  /\ PathHere \in String
             /\ Means(PathHere, place[1], FALSE) \in Seq(Chars)
             /\ PathLength(Searched[index], place) = Len(Means(PathHere, place[1], FALSE)) + 1
             /\ ~ OwnPath(Searched[index]) => Elements[Means(PathHere, place[1], FALSE)] = <<>>
  <2>1. PathHere \in String
    BY <1>2, <1>7
  <2>2. Means(PathHere, place[1], FALSE) \in Seq(Chars)
    BY <1>2, <2>1, MeansType
  <2>3. PathLength(Searched[index], place) = Len(Means(PathHere, place[1], FALSE)) + 1
    BY <1>5, <1>7 DEF PathLength
  <2>4. ~ OwnPath(Searched[index]) => Elements[Means(PathHere, place[1], FALSE)] = <<>>
    <3>1. PathElements(Searched[index], place) = Elements[Means(PathHere, place[1], FALSE)]
      BY <1>5, <1>7 DEF PathElements
    <3>2. Searched[index] \in SearchedNames
      BY <1>1 DEF SearchedNames
    <3>3. QED
      BY <1>2, <3>1, <3>2 DEF OwnPath
  <2>5. QED
    BY <2>1, <2>2, <2>3, <2>4
<1>8. QED
  BY <1>1, <1>2, <1>4, <1>5, <1>6, <1>7

(* The variables that are done with are as they were asked for, but the    *)
(* paths that the configurations speak of are another matter.              *)
Wholes ==
  ~ null => \A n \in 1..Len(wish.variables) :
    (part = "variables" => n < index) /\ (part # "variables" => ~ OwnPath(wish.variables[n].name))
      => AsAsked(wish.variables[n])

(* What is in the buffer comes of what is expanded, and of a path so far,  *)
(* which is no longer than what the configurations up to here say.         *)
Saying ==
  /\ part = "variables" /\ expanding => Expanding(Current.value, TRUE, <<>>, Current.node)
  /\ part = "paths" /\ expanding =>
       \E begun \in Seq(Chars) :
         /\ Expanding(PathHere, FALSE, begun, place[1])
         /\ Len(begun) <= LengthTo(Searched[index], place)
         /\ ~ OwnPath(Searched[index]) => begun = <<>>
  /\ part = "paths" /\ ~ expanding /\ index <= Len(Searched) =>
       /\ buffer # <<>> => Len(buffer) + 1 <= LengthTo(Searched[index], place)
       /\ ~ OwnPath(Searched[index]) => buffer = <<>>

(* A whole expansion has written what its string means.                    *)
LEMMA ExpandedWhole ==
  ASSUME ExpandTypeOK, NEW node \in Contexts, NoLoop(node), NEW string, NEW withcmd, NEW begun,
         Expanding(string, withcmd, begun, node), answer = "ok"
  PROVE  buffer = begun \o Means(string, node, withcmd)
<1>1. frames = <<>> /\ buffer \in Seq(Chars)
  BY DEF Expanding, ExpandTypeOK
<1>2. DueTo(NameMeaning(node), "buffer")[<<>>] = <<>>
  BY NameMeaningIs, DueIs, EmptySeq
<1>3. QED
  BY <1>1, <1>2, ConcatEmptySeq DEF Expanding

(* A variable is as asked for if it was so and its setting is the same.    *)
LEMMA AsAskedKept ==
  ASSUME NEW v \in Variable, AsAsked(v), setting'[v.name] = setting[v.name]
  PROVE  AsAsked(v)'
<1>1. v.mode \in {"Static", "Execfd", "Default", "Remove", "Inherit"}
  BY DEF Variable
<1>2. CASE v.mode = "Default"
  BY <1>2 DEF AsAsked
<1>3. CASE v.mode = "Static"
  BY <1>3 DEF AsAsked
<1>4. CASE v.mode = "Remove"
  BY <1>4 DEF AsAsked
<1>5. CASE v.mode = "Inherit"
  BY <1>5 DEF AsAsked
<1>6. CASE v.mode = "Execfd"
  BY <1>6 DEF AsAsked
<1>7. QED
  BY <1>1, <1>2, <1>3, <1>4, <1>5, <1>6

(* The variable that is next is set to value: it is done with.             *)
LEMMA GivenWhole ==
  ASSUME EnvTypes, Wholes, part = "variables", index \in 1..Len(wish.variables),
         NEW value, Give(Current.name, value),
         NEW w \in Variable, w = Current, ~ null => AsAsked(w)',
         UNCHANGED <<wish, part, null>>, index' = index + 1
  PROVE  Wholes'
<1>1. wish.variables \in Variables /\ setting \in [VarNames -> Setting] /\ index \in Nat
  BY DEF EnvTypes, EnvironmentTypeOK, Wish
<1>2. /\ wish.variables \in Seq(Variable)
      /\ \A m, n \in 1..Len(wish.variables) :
           wish.variables[m].name = wish.variables[n].name => m = n
  BY <1>1 DEF Variables
<1>3. SUFFICES ASSUME ~ null, NEW n \in 1..Len(wish.variables), n < index + 1
               PROVE  AsAsked(wish.variables[n])'
  BY DEF Wholes
<1>4. PICK v \in Variable : v = wish.variables[n]
  BY <1>2, <1>3, ElementOfSeq
<1>5. v.name \in VarNames
  BY <1>4 DEF Variable
<1>6. AsAsked(v)'
  <2>1. CASE n = index
    <3>1. v = w
      BY <1>4, <2>1 DEF Current
    <3>2. AsAsked(w)'
      BY <1>3
    <3>3. QED
      BY <3>1, <3>2
  <2>2. CASE n # index
    <3>1. AsAsked(v)
      BY <1>1, <1>3, <1>4, <2>2 DEF Wholes
    <3>2. v.name # Current.name
      BY <1>2, <1>3, <1>4, <2>2 DEF Current
    <3>3. setting'[v.name] = setting[v.name]
      BY <1>1, <1>3, <1>5, <3>2 DEF Give
    <3>4. QED
      BY <3>1, <3>3, AsAskedKept
  <2>3. QED
    BY <2>1, <2>2
<1>7. QED
  BY <1>4, <1>6

(* The steps that set the variables keep Wholes and Saying.                *)
LEMMA VariableWholeStep ==
  ASSUME EnvTypes, \A node \in Contexts : NoLoop(node), Wholes, Saying,
         part = "variables", VariableStep \/ VariableFailure
  PROVE  Wholes' /\ Saying'
<1>1. /\ wish.variables \in Seq(Variable) /\ Len(wish.variables) \in Nat
      /\ index \in Nat /\ index >= 1 /\ ExpandTypeOK /\ Stacked(frames) /\ Small \in Nat
      /\ setting \in [VarNames -> Setting]
  BY ExpandAssumption DEF EnvTypes, EnvironmentTypeOK, Expands, Wish, Variables
<1>2. CASE SetStatic \/ SetRemove \/ SetInherit \/ SetExecfd \/ ExecfdFails
  <2>1. AtVariable /\ index' = index + 1 /\ UNCHANGED <<wish, part, null, expanding>>
    BY <1>2 DEF SetStatic, SetRemove, SetInherit, SetExecfd, ExecfdFails, Advance
  <2>2. index \in 1..Len(wish.variables) /\ ~ expanding
    BY <1>1, <2>1 DEF AtVariable
  <2>3. PICK w \in Variable : w = Current
    BY <2>2, CurrentType DEF EnvTypes
  <2>4. w.name \in VarNames
    BY <2>3 DEF Variable
  <2>5. PICK value : Give(Current.name, value) /\ (~ null => AsAsked(w)')
    <3>1. CASE SetStatic
      <4>1. Give(w.name, SetTo(w.value)) /\ w.mode = "Static"
        BY <2>3, <3>1 DEF SetStatic
      <4>2. ~ null => setting'[w.name] = SetTo(w.value)
        BY <1>1, <2>4, <4>1 DEF Give
      <4>3. ~ null => AsAsked(w)'
        BY <4>1, <4>2 DEF AsAsked
      <4>4. QED
        BY <2>3, <4>1, <4>3
    <3>2. CASE SetRemove
      <4> DEFINE value == [how |-> "removed", value |-> <<>>]
      <4>1. Give(w.name, value) /\ w.mode = "Remove" /\ value.how = "removed"
        BY <2>3, <3>2 DEF SetRemove
      <4> HIDE DEF value
      <4>2. ~ null => setting'[w.name] = value
        BY <1>1, <2>4, <4>1 DEF Give
      <4>3. ~ null => AsAsked(w)'
        BY <4>1, <4>2 DEF AsAsked
      <4>4. QED
        BY <2>3, <4>1, <4>3
    <3>3. CASE SetInherit
      <4>1. Give(w.name, SetTo(Inherited[w.name])) /\ w.mode = "Inherit"
        BY <2>3, <3>3 DEF SetInherit
      <4>2. ~ null => setting'[w.name] = SetTo(Inherited[w.name])
        BY <1>1, <2>4, <4>1 DEF Give
      <4>3. ~ null => AsAsked(w)'
        BY <4>1, <4>2 DEF AsAsked
      <4>4. QED
        BY <2>3, <4>1, <4>3
    <3>4. CASE SetExecfd \/ ExecfdFails
      <4>1. w.mode = "Execfd"
            /\ \E value \in {SetTo(Prints[Head(w.value)]), Garbage} : Give(w.name, value)
        BY <2>3, <3>4 DEF SetExecfd, ExecfdFails
      <4>2. PICK value \in {SetTo(Prints[Head(w.value)]), Garbage} : Give(w.name, value)
        BY <4>1
      <4>3. ~ null => setting'[w.name] = value
        BY <1>1, <2>4, <4>2 DEF Give
      <4>4. ~ null => AsAsked(w)'
        BY <4>1, <4>2, <4>3 DEF AsAsked
      <4>5. QED
        BY <2>3, <4>2, <4>4
    <3>5. QED
      BY <1>2, <3>1, <3>2, <3>3, <3>4
  <2>6. Wholes'
    BY <2>1, <2>2, <2>3, <2>5, GivenWhole
  <2>7. Saying'
    BY <2>1, <2>2 DEF Saying
  <2>8. QED
    BY <2>6, <2>7
<1>3. CASE StartDefault
  <2>1. /\ AtVariable /\ ExpandStart(Current.value, TRUE, <<>>)
        /\ UNCHANGED <<wish, part, index, setting, null>>
    BY <1>3 DEF StartDefault
  <2>2. PICK w \in Variable : w = Current
    <3>1. index \in 1..Len(wish.variables)
      BY <1>1, <2>1 DEF AtVariable
    <3>2. QED
      BY <3>1, CurrentType DEF EnvTypes
  <2>3. Current' = w
    BY <2>1, <2>2 DEF Current
  <2>4. w.value \in String /\ w.node \in Contexts
    BY <2>2 DEF Variable
  <2>5. Expanding(w.value, TRUE, <<>>, w.node)'
    <3>1. <<>> \in Seq(Chars) /\ ExpandStart(w.value, TRUE, <<>>) /\ NoLoop(w.node)
      BY <2>1, <2>2, <2>4, EmptySeq
    <3>2. QED
      BY <2>4, <3>1, ExpandingStart
  <2>6. Saying'
    BY <2>1, <2>3, <2>5 DEF Saying
  <2>7. Wholes'
    <3>1. \A v : AsAsked(v)' = AsAsked(v)
      BY <2>1 DEF AsAsked
    <3>2. \A name : OwnPath(name)' = OwnPath(name)
      BY <2>1, SaidKept
    <3>3. QED
      BY <2>1, <3>1, <3>2 DEF Wholes
  <2>8. QED
    BY <2>6, <2>7
<1>4. CASE SetDefault
  <2>1. /\ expanding /\ ~ expanding' /\ index' = index + 1 /\ UNCHANGED <<wish, part>>
        /\ \/ answer = "ok" /\ Give(Current.name, SetTo(buffer)) /\ UNCHANGED null
           \/ null'
    BY <1>4 DEF SetDefault
  <2>2. index \in 1..Len(wish.variables) /\ Current.mode = "Default"
    BY <1>1, <2>1 DEF EnvTypes, Expands
  <2>3. PICK w \in Variable : w = Current
    BY <2>2, CurrentType DEF EnvTypes
  <2>4. w.name \in VarNames /\ w.value \in String /\ w.node \in Contexts
    BY <2>3 DEF Variable
  <2>5. CASE answer = "ok" /\ Give(Current.name, SetTo(buffer)) /\ UNCHANGED null
    <3>1. Expanding(w.value, TRUE, <<>>, w.node)
      BY <2>1, <2>3 DEF Saying
    <3>2. buffer = <<>> \o Means(w.value, w.node, TRUE)
      BY <1>1, <2>4, <2>5, <3>1, ExpandedWhole
    <3>3. Means(w.value, w.node, TRUE) \in Seq(Chars)
      BY <2>4, MeansType
    <3>4. buffer = Means(w.value, w.node, TRUE)
      BY <3>2, <3>3, ConcatEmptySeq
    <3>5. ~ null => setting'[w.name] = SetTo(Means(w.value, w.node, TRUE))
      BY <1>1, <2>3, <2>4, <2>5, <3>4 DEF Give
    <3>6. ~ null => AsAsked(w)'
      BY <2>2, <2>3, <3>5 DEF AsAsked
    <3>7. Wholes'
      BY <2>1, <2>2, <2>3, <2>5, <3>6, GivenWhole
    <3>8. QED
      BY <2>1, <3>7 DEF Saying
  <2>6. CASE null'
    BY <2>1, <2>6 DEF Saying, Wholes
  <2>7. QED
    BY <2>1, <2>5, <2>6
<1>5. CASE VariablesSet
  <2>1. /\ index > Len(wish.variables) /\ part' = "paths" /\ buffer' = <<>> /\ ~ expanding
        /\ UNCHANGED <<wish, expanding, setting, null>>
    BY <1>5 DEF VariablesSet
  <2>2. \A v : AsAsked(v)' = AsAsked(v)
    BY <2>1 DEF AsAsked
  <2>3. ASSUME ~ null, NEW n \in 1..Len(wish.variables)
        PROVE  AsAsked(wish.variables[n])
    BY <1>1, <2>1, <2>3 DEF Wholes
  <2>4. Wholes'
    BY <2>1, <2>2, <2>3 DEF Wholes
  <2>5. Saying'
    BY <2>1 DEF Saying
  <2>6. QED
    BY <2>4, <2>5
<1>6. CASE expanding /\ (ExpandStep(Context, Size) \/ CommandFails) /\ UNCHANGED ownVars
  <2>1. UNCHANGED <<wish, part, index, expanding, setting, null>>
    BY <1>6 DEF ownVars
  <2>2. PICK w \in Variable : w = Current
    <3>1. index \in 1..Len(wish.variables)
      BY <1>1, <1>6 DEF EnvTypes, Expands
    <3>2. QED
      BY <3>1, CurrentType DEF EnvTypes
  <2>3. Current' = w
    BY <2>1, <2>2 DEF Current
  <2>4. w.value \in String /\ w.node \in Contexts
    BY <2>2 DEF Variable
  <2>5. Expanding(w.value, TRUE, <<>>, w.node)
    BY <1>6, <2>2 DEF Saying
  <2>6. ExpandStep(w.node, Small) \/ CommandFails
    BY <1>6, <2>2 DEF Context, Size
  <2>7. Expanding(w.value, TRUE, <<>>, w.node)'
    BY <1>1, <2>4, <2>5, <2>6, ExpandingStep
  <2>8. Saying'
    BY <2>1, <2>3, <2>7 DEF Saying
  <2>9. Wholes'
    <3>1. \A v : AsAsked(v)' = AsAsked(v)
      BY <2>1 DEF AsAsked
    <3>2. \A name : OwnPath(name)' = OwnPath(name)
      BY <2>1, SaidKept
    <3>3. QED
      BY <2>1, <3>1, <3>2 DEF Wholes
  <2>10. QED
    BY <2>8, <2>9
<1>7. QED
  BY <1>2, <1>3, <1>4, <1>5, <1>6 DEF VariableStep, VariableFailure, ExpandOnward

(* The steps that make the paths keep Saying.                              *)
LEMMA PathSayingStep ==
  ASSUME EnvTypes, \A node \in Contexts : NoLoop(node), Saying, part = "paths", PathStep
  PROVE  Saying'
<1>1. /\ index \in Nat /\ index >= 1 /\ ExpandTypeOK /\ Stacked(frames) /\ Large \in Nat \ {0}
      /\ buffer \in Seq(Chars)
  BY EnvironmentAssumption DEF EnvTypes, EnvironmentTypeOK, Expands, ExpandTypeOK
<1> DEFINE name == Searched[index]
           before == LengthTo(name, place)
           here == PathLength(name, place)
<1>2. AtPlace =>
        /\ place \in Where /\ place[1] \in Contexts
        /\ before \in Nat /\ here \in Nat
        /\ LengthTo(name, PlaceAfter) = before + here
        /\ PathHere = Missing => here = 0
        /\ PathHere # Missing => PathHere \in String
  BY HereIs, LengthToIs
<1> HIDE DEF before, here
<1>3. ASSUME AtPlace, UNCHANGED <<wish, part, index>>, place' = PlaceAfter, ~ expanding',
             buffer' # <<>> => Len(buffer') + 1 <= before + here,
             ~ OwnPath(name) => buffer' = <<>>
      PROVE  Saying'
  <2>1. PICK q : q = PlaceAfter
    OBVIOUS
  <2>2. PICK m : m = name
    OBVIOUS
  <2>3. Searched[index]' = m /\ place' = q
    BY <1>3, <2>1, <2>2
  <2>4. LengthTo(m, q)' = before + here /\ OwnPath(m)' = OwnPath(m)
    BY <1>2, <1>3, <2>1, <2>2, SaidKept
  <2>5. QED
    BY <1>3, <2>2, <2>3, <2>4 DEF Saying
<1>4. CASE SkipPlace
  <2>1. /\ AtPlace /\ ~ expanding /\ PathHere = Missing /\ place' = PlaceAfter
        /\ UNCHANGED <<wish, part, index, expanding, buffer>>
    BY <1>4 DEF SkipPlace, expandVars
  <2>2. (buffer # <<>> => Len(buffer) + 1 <= before) /\ (~ OwnPath(name) => buffer = <<>>)
    BY <2>1 DEF Saying, AtPlace, before
  <2>3. QED
    BY <1>2, <1>3, <2>1, <2>2
<1>5. CASE StartPath
  <2>1. AtPlace /\ ~ expanding /\ PathHere # Missing /\ UNCHANGED <<wish, index, place>>
    BY <1>5 DEF StartPath
  <2>2. (buffer # <<>> => Len(buffer) + 1 <= before) /\ (~ OwnPath(name) => buffer = <<>>)
    BY <2>1 DEF Saying, AtPlace, before
  <2> DEFINE begun == IF buffer = <<>> THEN <<>> ELSE Append(buffer, Colon)
  <2>3. CASE ExpandStart(PathHere, FALSE, begun) /\ expanding' = TRUE /\ UNCHANGED part
    <3>1. begun \in Seq(Chars) /\ (~ OwnPath(name) => begun = <<>>)
      BY <1>1, <2>2, EmptySeq, AppendProperties, EnvironmentAssumption
    <3>2. Len(begun) <= before
      <4>1. CASE buffer = <<>>
        BY <1>2, <2>1, <4>1
      <4>2. CASE buffer # <<>>
        <5>1. Len(Append(buffer, Colon)) = Len(buffer) + 1
          BY <1>1, AppendProperties, EnvironmentAssumption
        <5>2. QED
          BY <2>2, <4>2, <5>1
      <4>3. QED
        BY <4>1, <4>2
    <3>3. PICK b \in Seq(Chars) : b = begun
      BY <3>1
    <3>4. PICK string \in String : string = PathHere
      BY <1>2, <2>1
    <3>5. PICK node \in Contexts : node = place[1]
      BY <1>2, <2>1
    <3>6. PICK m, p : m = name /\ p = place
      OBVIOUS
    <3> HIDE DEF begun
    <3>7. ExpandStart(string, FALSE, b) /\ NoLoop(node)
      BY <2>3, <3>3, <3>4
    <3>8. Expanding(string, FALSE, b, node)'
      BY <3>7, ExpandingStart
    <3>9. PathHere' = string /\ place[1]' = node /\ Searched[index]' = m /\ place' = p
      BY <2>1, <3>4, <3>5, <3>6 DEF PathHere
    <3>10. LengthTo(m, p)' = before /\ OwnPath(m)' = OwnPath(m)
      BY <2>1, <3>6, SaidKept DEF before
    <3>11. /\ Expanding(string, FALSE, b, node)'
           /\ Len(b) <= LengthTo(m, p)'
           /\ ~ OwnPath(m)' => b = <<>>
      BY <3>1, <3>2, <3>3, <3>6, <3>8, <3>10
    <3>12. QED
      BY <2>3, <3>3, <3>9, <3>11 DEF Saying
  <2>4. CASE part' = "refused"
    BY <2>4 DEF Saying
  <2>5. QED
    BY <1>5, <2>3, <2>4 DEF StartPath
<1>6. ASSUME expanding
      PROVE  AtPlace /\ PathHere # Missing
  BY <1>6 DEF EnvTypes, Expands
<1>7. CASE AppendPath
  <2>1. /\ expanding /\ answer = "ok" /\ buffer' = Clean(buffer) /\ ~ expanding' /\ place' = PlaceAfter
        /\ UNCHANGED <<wish, part, index>>
    BY <1>7 DEF AppendPath
  <2>2. AtPlace /\ PathHere # Missing
    BY <1>6, <2>1
  <2>3. PICK begun \in Seq(Chars) :
          /\ Expanding(PathHere, FALSE, begun, place[1])
          /\ Len(begun) <= before
          /\ ~ OwnPath(name) => begun = <<>>
    BY <2>1 DEF Saying, before
  <2> DEFINE means == Means(PathHere, place[1], FALSE)
  <2>4. /\ means \in Seq(Chars) /\ here = Len(means) + 1
        /\ ~ OwnPath(name) => Elements[means] = <<>>
    BY <2>2, HereIs DEF here
  <2>5. buffer = begun \o means
    BY <1>1, <1>2, <2>1, <2>2, <2>3, ExpandedWhole
  <2> HIDE DEF means
  <2>6. Len(buffer) = Len(begun) + Len(means) /\ Len(begun) \in Nat /\ Len(means) \in Nat
    BY <2>3, <2>4, <2>5, ConcatProperties, LenProperties
  <2>7. Clean(buffer) \in Seq(Chars) /\ Len(Clean(buffer)) <= Len(buffer)
    BY <1>1, CleanShortens
  <2>8. Len(Clean(buffer)) \in Nat
    BY <2>7, LenProperties
  <2>9. Len(buffer') + 1 <= before + here
    BY <1>2, <2>1, <2>2, <2>3, <2>4, <2>6, <2>7, <2>8
  <2>10. ~ OwnPath(name) => buffer' = <<>>
    <3>1. SUFFICES ASSUME ~ OwnPath(name)
                   PROVE  Clean(buffer) = <<>>
      BY <2>1
    <3>2. buffer = means
      BY <2>3, <2>4, <2>5, <3>1, ConcatEmptySeq
    <3>3. Joined[<<>>] = <<>>
      BY JoinedAre, EmptySeq
    <3>4. QED
      BY <2>4, <3>1, <3>2, <3>3 DEF Clean
  <2>11. QED
    BY <1>3, <2>1, <2>2, <2>9, <2>10
<1>8. CASE PathFails
  BY <1>8 DEF PathFails, Saying
<1>9. CASE SetPath
  <2>1. part' = part /\ expanding' = expanding /\ buffer' = <<>> /\ place[1] = Nodes
    BY <1>9 DEF SetPath
  <2>2. ~ expanding
    BY <1>6, <2>1, EnvironmentAssumption DEF AtPlace
  <2>3. QED
    BY <2>1, <2>2 DEF Saying
<1>10. CASE PathsSet
  BY <1>10 DEF PathsSet, Saying
<1>11. CASE ExpandOnward
  <2>1. expanding /\ ExpandStep(place[1], Large) /\ UNCHANGED <<wish, part, index, place, expanding>>
    BY <1>11 DEF ExpandOnward, Context, Size, ownVars
  <2>2. AtPlace /\ PathHere # Missing
    BY <1>6, <2>1
  <2>3. PICK begun \in Seq(Chars) :
          /\ Expanding(PathHere, FALSE, begun, place[1])
          /\ Len(begun) <= before
          /\ ~ OwnPath(name) => begun = <<>>
    BY <2>1 DEF Saying, before
  <2>4. PICK string \in String : string = PathHere
    BY <1>2, <2>2
  <2>5. PICK node \in Contexts : node = place[1]
    BY <1>2, <2>2
  <2>6. PICK m, p : m = name /\ p = place
    OBVIOUS
  <2>7. Expanding(string, FALSE, begun, node)'
    <3>1. ExpandStep(node, Large) /\ NoLoop(node) /\ Expanding(string, FALSE, begun, node)
      BY <2>1, <2>3, <2>4, <2>5
    <3>2. QED
      BY <1>1, <3>1, ExpandingStep
  <2>8. PathHere' = string /\ place[1]' = node /\ Searched[index]' = m /\ place' = p
    BY <2>1, <2>4, <2>5, <2>6 DEF PathHere
  <2>9. LengthTo(m, p)' = before /\ OwnPath(m)' = OwnPath(m)
    BY <2>1, <2>6, SaidKept DEF before
  <2>10. /\ Expanding(string, FALSE, begun, node)'
         /\ Len(begun) <= LengthTo(m, p)'
         /\ ~ OwnPath(m)' => begun = <<>>
    BY <2>3, <2>6, <2>7, <2>9
  <2>11. QED
    BY <2>1, <2>8, <2>10 DEF Saying
<1>12. QED
  BY <1>4, <1>5, <1>7, <1>8, <1>9, <1>10, <1>11 DEF PathStep

(* They keep Wholes: what is set is a path that the configurations have.   *)
LEMMA PathWholeStep ==
  ASSUME EnvTypes, Wholes, Saying, part = "paths", PathStep
  PROVE  Wholes'
<1>1. /\ index \in Nat /\ setting \in [VarNames -> Setting] /\ wish.variables \in Seq(Variable)
      /\ index >= 1
  BY DEF EnvTypes, EnvironmentTypeOK, Expands, Wish, Variables
<1>2. UNCHANGED <<wish, null>> /\ part' # "variables"
  BY DEF PathStep, SkipPlace, StartPath, AppendPath, PathFails, SetPath, PathsSet, ExpandOnward, ownVars
<1>3. \A name : OwnPath(name)' = OwnPath(name)
  BY <1>2, SaidKept
<1>4. SUFFICES ASSUME ~ null, NEW n \in 1..Len(wish.variables), ~ OwnPath(wish.variables[n].name)
               PROVE  AsAsked(wish.variables[n])'
  BY <1>2, <1>3 DEF Wholes
<1>5. PICK v \in Variable : v = wish.variables[n]
  BY <1>1, <1>4, ElementOfSeq
<1>6. AsAsked(v)
  BY <1>4, <1>5 DEF Wholes
<1>7. setting'[v.name] = setting[v.name]
  <2>1. CASE SetPath
    <3>1. CASE buffer = <<>>
      BY <2>1, <3>1 DEF SetPath
    <3>2. CASE buffer # <<>>
      <4>1. Give(Searched[index], SetTo(buffer)) /\ index <= Len(Searched) /\ place[1] = Nodes
        BY <2>1, <3>2 DEF SetPath
      <4>2. ~ expanding
        BY <4>1, EnvironmentAssumption DEF EnvTypes, Expands, AtPlace
      <4>3. v.name # Searched[index]
        BY <1>4, <1>5, <3>2, <4>1, <4>2 DEF Saying
      <4>4. v.name \in VarNames
        BY DEF Variable
      <4>5. QED
        BY <1>1, <4>1, <4>3, <4>4 DEF Give
    <3>3. QED
      BY <3>1, <3>2
  <2>2. CASE ~ SetPath
    BY <2>2 DEF PathStep, SkipPlace, StartPath, AppendPath, PathFails, PathsSet, ExpandOnward, ownVars
  <2>3. QED
    BY <2>1, <2>2
<1>8. AsAsked(v)'
  BY <1>6, <1>7, AsAskedKept
<1>9. QED
  BY <1>2, <1>5, <1>8

(* The reasons of a variable.                                              *)
LEMMA VariableReason ==
  ASSUME NEW v \in Variable, v.mode = "Default", NoLoop(v.node), 
         Reason(v.value, TRUE, <<>>, v.node, Small)
  PROVE  BadVariable(v)
<1> DEFINE m == Means(v.value, v.node, TRUE)
<1>1. v.value \in String /\ v.node \in Contexts
  BY DEF Variable
<1>2. m \in Seq(Chars)
  BY <1>1, MeansType
<1>3. <<>> \o m = m
  BY <1>2, ConcatEmptySeq
<1>4. Len(m) \in Nat /\ Small \in Nat
  BY <1>2, LenProperties, ExpandAssumption
<1> HIDE DEF m
<1>5. Len(<<>> \o m) > Small => Len(m) >= Small
  BY <1>3, <1>4
<1>6. Len(<<>> \o m) >= Small => Len(m) >= Small
  BY <1>3
<1>7. QED
  BY <1>5, <1>6 DEF Reason, BadVariable, Unfits, m

(* The reasons of a path.                                                  *)
LEMMA PathReason ==
  ASSUME EnvTypes, AtPlace, PathHere # Missing, \A node \in Contexts : NoLoop(node),
         NEW begun \in Seq(Chars), Len(begun) <= LengthTo(Searched[index], place),
         \/ Reason(PathHere, FALSE, begun, place[1], Large)
         \/ Len(begun) > Large
  PROVE  BadPath(Searched[index])
<1> DEFINE m == Means(PathHere, place[1], FALSE)
           name == Searched[index]
           before == LengthTo(name, place)
           here == PathLength(name, place)
           all == LengthBefore(name)[Nodes]
<1>1. /\ place \in Where /\ m \in Seq(Chars) /\ here = Len(m) + 1
      /\ wish.paths[name][place] # Missing /\ PathHere = wish.paths[name][place]
      /\ \A p \in Where : PathLength(name, p) \in Nat
  BY HereIs
<1>2. before \in Nat /\ before + here <= all /\ all \in Nat
  BY <1>1, LengthToIs
<1>3. Len(begun \o m) = Len(begun) + Len(m) /\ Len(begun) \in Nat /\ Len(m) \in Nat /\ Large \in Nat
  BY <1>1, ConcatProperties, LenProperties, EnvironmentAssumption
<1>4. TooLong(PathHere, place[1]) => BadPath(name)
  BY <1>1 DEF BadPath
<1>5. Len(begun) <= before
  OBVIOUS
<1>6. Len(begun \o m) > Large \/ Len(begun) > Large => all > Large + 1
  <2> HIDE DEF m, before, here, all
  <2>1. QED
    BY <1>1, <1>2, <1>3, <1>5
<1>7. all > Large + 1 => BadPath(name)
  BY DEF BadPath
<1>8. QED
  BY <1>4, <1>6, <1>7 DEF Reason, Unfits

-----------------------------------------------------------------------------
(* The order of a path.                                                    *)

(* The last colon is where there is one and none behind it.                *)
LEMMA LastColonAt ==
  ASSUME NEW path \in Seq(Chars), NEW n \in 0..Len(path), n = 0 \/ path[n] = Colon,
         \A m \in (n + 1)..Len(path) : path[m] # Colon
  PROVE  LastColon(path) = n
<1> DEFINE c == LastColon(path)
<1>1. c \in 0..Len(path) /\ (c = 0 \/ path[c] = Colon) /\ \A m \in (c + 1)..Len(path) : path[m] # Colon
  BY LastColonIs
<1> HIDE DEF c
<1>2. Len(path) \in Nat
  BY LenProperties
<1>3. ~ (c < n)
  BY <1>1, <1>2
<1>4. ~ (n < c)
  BY <1>1, <1>2
<1>5. c = n
  BY <1>1, <1>2, <1>3, <1>4
<1>6. QED
  BY <1>5 DEF c

(* What is an element of a path: something, without a colon.               *)
Element == {e \in Seq(Chars) : e # <<>> /\ \A m \in 1..Len(e) : e[m] # Colon}

(* It is the only element of itself.                                       *)
LEMMA Alone ==
  ASSUME NEW e \in Element
  PROVE  Elements[e] = <<e>>
<1>1. e \in Seq(Chars) /\ e # <<>> /\ (\A m \in 1..Len(e) : e[m] # Colon) /\ Len(e) \in Nat \ {0}
  BY EmptySeq, LenProperties DEF Element
<1>2. LastColon(e) = 0
  BY <1>1, LastColonAt
<1>3. /\ SubSeq(e, 1, LastColon(e) - 1) = <<>>
      /\ SubSeq(e, LastColon(e) + 1, Len(e)) = e
  <2>1. /\ SubSeq(e, 1, LastColon(e) - 1) \in Seq(Chars)
        /\ Len(SubSeq(e, 1, LastColon(e) - 1)) = 0
        /\ SubSeq(e, LastColon(e) + 1, Len(e)) \in Seq(Chars)
        /\ Len(SubSeq(e, LastColon(e) + 1, Len(e))) = Len(e)
        /\ \A m \in 1..Len(e) : SubSeq(e, LastColon(e) + 1, Len(e))[m] = e[m]
    <3>1. Len(e) - 0 = Len(e) /\ \A m \in 1..Len(e) : 0 + m = m
      BY <1>1
    <3>2. QED
      BY <1>1, <1>2, <3>1, BeforeColon
  <2>2. SubSeq(e, 1, LastColon(e) - 1) = <<>>
    BY <2>1, EmptySeq
  <2>3. SubSeq(e, LastColon(e) + 1, Len(e)) = e
    BY <1>1, <2>1, SeqEqual
  <2>4. QED
    BY <2>2, <2>3
<1>4. Elements[<<>>] = <<>>
  BY ElementsAre, EmptySeq
<1>5. Elements[e] = <<>> \o <<e>>
  <2>1. Elements[e] = Elements[SubSeq(e, 1, LastColon(e) - 1)]
                        \o (IF LastColon(e) = Len(e) THEN <<>>
                            ELSE <<SubSeq(e, LastColon(e) + 1, Len(e))>>)
    BY <1>1, ElementsAre
  <2>2. LastColon(e) # Len(e)
    BY <1>1, <1>2
  <2>3. QED
    BY <1>3, <1>4, <2>1, <2>2
<1>6. <<e>> \in Seq(Seq(Chars))
  BY <1>1
<1>7. QED
  BY <1>5, <1>6, ConcatEmptySeq

(* The elements of a path are such.                                        *)
LEMMA ElementsWhole == \A path \in Seq(Chars) : Elements[path] \in Seq(Element)
<1> DEFINE S == Seq(Chars)
           T == {path \in S : Elements[path] \in Seq(Element)}
           rank == [path \in S |-> Len(path)]
<1>1. ASSUME NEW path \in S, \A y \in S : rank[y] < rank[path] => y \in T
      PROVE  path \in T
  <2>1. CASE path = <<>>
    <3>1. Elements[path] = <<>>
      BY <2>1, ElementsAre
    <3>2. QED
      BY <3>1, EmptySeq
  <2>2. CASE path # <<>>
    <3> DEFINE rest == SubSeq(path, 1, LastColon(path) - 1)
               tail == SubSeq(path, LastColon(path) + 1, Len(path))
               own == IF LastColon(path) = Len(path) THEN <<>> ELSE <<tail>>
    <3>1. Elements[path] = Elements[rest] \o own
      BY <2>2, ElementsAre
    <3>2. rest \in S /\ Len(rest) < Len(path)
      BY <2>2, BeforeColon
    <3>3. own \in Seq(Element)
      <4>1. CASE LastColon(path) = Len(path)
        BY <4>1, EmptySeq
      <4>2. CASE LastColon(path) # Len(path)
        <5>1. /\ tail \in Seq(Chars) /\ Len(tail) = Len(path) - LastColon(path)
              /\ \A m \in 1..(Len(path) - LastColon(path)) : tail[m] = path[LastColon(path) + m]
              /\ Len(path) \in Nat
          BY <2>2, BeforeColon
        <5>2. /\ LastColon(path) \in 0..Len(path)
              /\ \A m \in (LastColon(path) + 1)..Len(path) : path[m] # Colon
          BY LastColonIs
        <5> HIDE DEF tail
        <5>3. tail # <<>>
          <6>1. Len(tail) # 0
            BY <4>2, <5>1, <5>2
          <6>2. QED
            BY <6>1, EmptySeq
        <5>4. \A m \in 1..Len(tail) : tail[m] # Colon
          BY <5>1, <5>2
        <5>5. tail \in Element
          BY <5>1, <5>3, <5>4 DEF Element
        <5>6. QED
          BY <4>2, <5>5
      <4>3. QED
        BY <4>1, <4>2
    <3>4. Elements[rest] \in Seq(Element)
      <4> HIDE DEF rest
      <4>1. QED
        BY <1>1, <3>2
    <3> HIDE DEF rest, own
    <3>5. QED
      BY <3>1, <3>3, <3>4, ConcatProperties
  <2>3. QED
    BY <2>1, <2>2
<1>2. rank \in [S -> Nat] /\ T \subseteq S
  OBVIOUS
<1>3. S = T
  <2> HIDE DEF S, T, rank
  <2>1. QED
    BY <1>1, <1>2, RankInduction
<1>4. QED
  BY <1>3

(* Behind a colon a path goes on with the elements of another.             *)
LEMMA ElementsBehind ==
  ASSUME NEW b \in Seq(Chars)
  PROVE  \A m \in Seq(Chars) : Elements[Append(b, Colon) \o m] = Elements[b] \o Elements[m]
<1> DEFINE S == Seq(Chars)
           a == Append(b, Colon)
           T == {m \in S : Elements[a \o m] = Elements[b] \o Elements[m]}
           rank == [m \in S |-> Len(m)]
<1>1. /\ a \in Seq(Chars) /\ Len(a) = Len(b) + 1 /\ a[Len(a)] = Colon /\ Len(b) \in Nat
      /\ \A i \in 1..Len(b) : a[i] = b[i]
  BY EnvironmentAssumption, AppendProperties, LenProperties
<1>2. Elements[b] \in Seq(Seq(Chars))
  BY ElementsType
<1>3. Elements[<<>>] = <<>> /\ <<>> \in S
  BY ElementsAre, EmptySeq
<1>4. SubSeq(a, 1, Len(a) - 1) = b
  BY FrontAppended, EnvironmentAssumption
<1> HIDE DEF a
<1>5. ASSUME NEW m \in S, \A y \in S : rank[y] < rank[m] => y \in T
      PROVE  m \in T
  <2> DEFINE path == a \o m
             c == LastColon(m)
             rest == SubSeq(m, 1, LastColon(m) - 1)
             tail == SubSeq(m, LastColon(m) + 1, Len(m))
             own == IF c = Len(m) THEN <<>> ELSE <<tail>>
  <2>1. /\ path \in S /\ Len(path) = Len(a) + Len(m) /\ Len(m) \in Nat
        /\ \A i \in 1..Len(a) : path[i] = a[i]
        /\ \A i \in 1..Len(m) : path[Len(a) + i] = m[i]
    <3>1. m \in Seq(Chars) /\ Len(m) \in Nat /\ a \in Seq(Chars) /\ Len(a) \in Nat
      BY <1>1, LenProperties
    <3>2. path \in Seq(Chars) /\ Len(path) = Len(a) + Len(m)
      BY <3>1, ConcatProperties
    <3>3. \A i \in 1..Len(path) : path[i] = IF i <= Len(a) THEN a[i] ELSE m[i - Len(a)]
      BY <3>1, ConcatProperties
    <3> HIDE DEF path
    <3>4. \A i \in 1..Len(a) : path[i] = a[i]
      BY <3>1, <3>2, <3>3
    <3>5. ASSUME NEW i \in 1..Len(m)
          PROVE  path[Len(a) + i] = m[i]
      <4>1. Len(a) + i \in 1..Len(path) /\ ~ (Len(a) + i <= Len(a)) /\ (Len(a) + i) - Len(a) = i
        BY <3>1, <3>2
      <4>2. QED
        BY <3>3, <4>1
    <3>6. QED
      BY <3>1, <3>2, <3>4, <3>5
  <2>2. c \in 0..Len(m) /\ (c = 0 \/ m[c] = Colon) /\ \A i \in (c + 1)..Len(m) : m[i] # Colon
    BY LastColonIs
  <2> HIDE DEF path, c
  <2>3. LastColon(path) = Len(a) + c
    <3>1. Len(a) + c \in 0..Len(path)
      BY <1>1, <2>1, <2>2
    <3>2. path[Len(a) + c] = Colon
      <4>1. CASE c = 0
        BY <1>1, <2>1, <4>1
      <4>2. CASE c # 0
        BY <2>1, <2>2, <4>2
      <4>3. QED
        BY <4>1, <4>2
    <3>3. ASSUME NEW i \in (Len(a) + c + 1)..Len(path)
          PROVE  path[i] # Colon
      <4>1. i - Len(a) \in (c + 1)..Len(m) /\ i - Len(a) \in 1..Len(m) /\ Len(a) + (i - Len(a)) = i
        BY <1>1, <2>1, <2>2
      <4>2. path[Len(a) + (i - Len(a))] = m[i - Len(a)]
        BY <2>1, <4>1
      <4>3. QED
        BY <2>2, <4>1, <4>2
    <3>4. QED
      BY <2>1, <3>1, <3>2, <3>3, LastColonAt
  <2>4. path # <<>>
    BY <1>1, <2>1, EmptySeq
  <2> DEFINE Early(n) == Elements[SubSeq(path, 1, n - 1)]
             Late(n) == IF n = Len(path) THEN <<>> ELSE <<SubSeq(path, n + 1, Len(path))>>
  <2>5. Elements[path] = Early(LastColon(path)) \o Late(LastColon(path))
    BY <2>1, <2>4, ElementsAre
  <2> HIDE DEF Early, Late
  <2>6. Elements[path] = Early(Len(a) + c) \o Late(Len(a) + c)
    BY <2>3, <2>5
  <2>7. CASE m = <<>>
    <3>1. path = a /\ c = 0 /\ Len(m) = 0
      BY <1>1, <2>1, <2>2, <2>7, ConcatEmptySeq, EmptySeq DEF path
    <3>2. Elements[path] = Elements[b] \o <<>>
      <4>1. Len(a) + c = Len(path) /\ (Len(a) + c) - 1 = Len(a) - 1
        BY <1>1, <2>1, <3>1
      <4>2. QED
        BY <1>4, <2>6, <3>1, <4>1 DEF Early, Late
    <3>3. Elements[path] = Elements[b] \o Elements[m]
      BY <1>3, <2>7, <3>2
    <3>4. QED
      BY <3>3 DEF path
  <2>8. CASE m # <<>>
    <3>1. /\ Elements[m] = Elements[rest] \o own
          /\ rest \in S /\ Len(rest) = (IF c = 0 THEN 0 ELSE c - 1) /\ Len(rest) < Len(m)
          /\ tail \in Seq(Chars) /\ Len(tail) = Len(m) - c
          /\ \A i \in 1..(Len(m) - c) : tail[i] = m[c + i]
      BY <2>8, BeforeColon, ElementsAre DEF c
    <3>2. c # 0 => rest = SubSeq(m, 1, c - 1)
      BY DEF c
    <3>3. tail = SubSeq(m, c + 1, Len(m))
      BY DEF c
    <3> HIDE DEF rest, tail
    <3>4. Late(Len(a) + c) = own
      <4>1. (Len(a) + c = Len(path)) <=> (c = Len(m))
        <5>1. PICK j, k, l \in Nat : j = Len(a) /\ k = Len(m) /\ l = c
          BY <1>1, <2>1, <2>2
        <5>2. Len(path) = j + k
          BY <2>1, <5>1
        <5>3. (j + l = j + k) <=> (l = k)
          OBVIOUS
        <5>4. QED
          BY <5>1, <5>2, <5>3
      <4>2. CASE c # Len(m)
        <5>1. \A i \in (Len(a) + c + 1)..Len(path) : path[i] \in Chars
          BY <1>1, <2>1, <2>2
        <5>2. Len(a) + c + 1 \in 1..Len(path) /\ Len(path) \in Nat
          BY <1>1, <2>1, <2>2, <4>2
        <5> DEFINE k == Len(a) + c + 1
                   t == SubSeq(path, k, Len(path))
        <5> HIDE DEF k
        <5>3. /\ t \in Seq(Chars) /\ Len(t) = Len(path) - k + 1
              /\ \A i \in 1..(Len(path) - k + 1) : t[i] = path[k + i - 1]
          BY <5>1, <5>2, SubSeqProperties DEF k
        <5> HIDE DEF t
        <5>4. Len(t) = Len(tail)
          BY <1>1, <2>1, <2>2, <3>1, <5>3 DEF k
        <5>5. ASSUME NEW i \in 1..Len(tail)
              PROVE  t[i] = tail[i]
          <6>1. i \in 1..(Len(path) - k + 1) /\ i \in 1..(Len(m) - c) /\ k + i - 1 = Len(a) + (c + i)
                /\ c + i \in 1..Len(m)
            BY <1>1, <2>1, <2>2, <3>1, <5>5 DEF k
          <6>2. t[i] = path[Len(a) + (c + i)] /\ tail[i] = m[c + i]
            BY <3>1, <5>3, <6>1
          <6>3. QED
            BY <2>1, <6>1, <6>2
        <5>6. t = tail
          BY <3>1, <5>3, <5>4, <5>5, SeqEqual
        <5>7. QED
          BY <4>1, <4>2, <5>6 DEF t, k, Late
      <4>3. QED
        BY <4>1, <4>2 DEF Late
    <3>5. own \in Seq(Seq(Chars)) /\ Elements[rest] \in Seq(Seq(Chars))
      <4>1. <<tail>> \in Seq(Seq(Chars)) /\ <<>> \in Seq(Seq(Chars))
        BY <3>1
      <4>2. QED
        BY <3>1, <4>1, ElementsType
    <3> HIDE DEF own
    <3>6. Early(Len(a) + c) = Elements[b] \o Elements[rest]
      <4>1. CASE c = 0
        <5>1. rest = <<>>
          BY <3>1, <4>1, EmptySeq
        <5>2. SubSeq(path, 1, (Len(a) + c) - 1) = b
          <6>1. (Len(a) + c) - 1 = Len(b) /\ \A i \in 1..Len(b) : path[i] = b[i]
            BY <1>1, <2>1, <4>1
          <6>2. Len(b) <= Len(path) /\ Len(path) \in Nat /\ \A i \in 1..Len(b) : b[i] \in Chars
            BY <1>1, <2>1
          <6> DEFINE t == SubSeq(path, 1, Len(b))
          <6>3. t \in Seq(Chars) /\ Len(t) = Len(b) /\ \A i \in 1..Len(b) : t[i] = path[i]
            BY <1>1, <6>1, <6>2, SubSeqProperties
          <6>4. t = b
            BY <6>1, <6>3, SeqEqual
          <6>5. QED
            BY <6>1, <6>4
        <5>3. QED
          BY <1>2, <1>3, <5>1, <5>2, ConcatEmptySeq DEF Early
      <4>2. CASE c # 0
        <5>1. SubSeq(path, 1, (Len(a) + c) - 1) = a \o rest
          <6> DEFINE k == (Len(a) + c) - 1
                     t == SubSeq(path, 1, k)
          <6>1. k \in 1..Len(path) /\ k = Len(a) + Len(rest) /\ Len(rest) = c - 1
            BY <1>1, <2>1, <2>2, <3>1, <4>2
          <6>2. \A i \in 1..k : path[i] \in Chars
            BY <2>1, <6>1
          <6> HIDE DEF k
          <6>3. t \in Seq(Chars) /\ Len(t) = k /\ \A i \in 1..k : t[i] = path[i]
            BY <2>1, <6>1, <6>2, SubSeqProperties
          <6> HIDE DEF t
          <6>4. /\ a \o rest \in Seq(Chars) /\ Len(a \o rest) = k
                /\ \A i \in 1..Len(a) : (a \o rest)[i] = a[i]
                /\ \A i \in 1..Len(rest) : (a \o rest)[Len(a) + i] = rest[i]
            <7> DEFINE u == a \o rest
            <7>1. rest \in Seq(Chars) /\ Len(rest) \in Nat /\ Len(a) \in Nat
              BY <1>1, <3>1, LenProperties
            <7>2. u \in Seq(Chars) /\ Len(u) = Len(a) + Len(rest)
              BY <1>1, <7>1, ConcatProperties
            <7>3. \A i \in 1..Len(u) : u[i] = IF i <= Len(a) THEN a[i] ELSE rest[i - Len(a)]
              BY <1>1, <7>1, ConcatProperties
            <7> HIDE DEF u
            <7>4. \A i \in 1..Len(a) : u[i] = a[i]
              BY <7>1, <7>2, <7>3
            <7>5. ASSUME NEW i \in 1..Len(rest)
                  PROVE  u[Len(a) + i] = rest[i]
              <8>1. Len(a) + i \in 1..Len(u) /\ ~ (Len(a) + i <= Len(a)) /\ (Len(a) + i) - Len(a) = i
                BY <7>1, <7>2
              <8>2. QED
                BY <7>3, <8>1
            <7>6. QED
              BY <6>1, <7>2, <7>4, <7>5 DEF u
          <6>5. \A i \in 1..(c - 1) : rest[i] = m[i]
            <7>1. \A i \in 1..(c - 1) : m[i] \in Chars
              BY <2>1, <2>2
            <7>2. \A i \in 1..((c - 1) - 1 + 1) : SubSeq(m, 1, c - 1)[i] = m[1 + i - 1]
              BY <2>1, <2>2, <4>2, <7>1, SubSeqProperties
            <7>3. \A i \in 1..(c - 1) : i \in 1..((c - 1) - 1 + 1) /\ 1 + i - 1 = i
              BY <2>2
            <7>4. QED
              BY <3>2, <4>2, <7>2, <7>3
          <6>6. ASSUME NEW i \in 1..k
                PROVE  t[i] = (a \o rest)[i]
            <7>1. CASE i <= Len(a)
              BY <1>1, <2>1, <6>1, <6>3, <6>4, <7>1
            <7>2. CASE ~ (i <= Len(a))
              <8>1. i - Len(a) \in 1..Len(rest) /\ i - Len(a) \in 1..(c - 1) /\ i - Len(a) \in 1..Len(m)
                    /\ Len(a) + (i - Len(a)) = i
                BY <1>1, <2>1, <2>2, <6>1, <7>2
              <8>2. (a \o rest)[i] = rest[i - Len(a)] /\ path[i] = m[i - Len(a)]
                BY <2>1, <6>4, <8>1
              <8>3. QED
                BY <6>3, <6>5, <8>1, <8>2
            <7>3. QED
              BY <7>1, <7>2
          <6>7. t = a \o rest
            BY <6>3, <6>4, <6>6, SeqEqual
          <6>8. QED
            BY <6>7 DEF t, k
        <5>2. Elements[a \o rest] = Elements[b] \o Elements[rest]
          BY <1>5, <3>1
        <5>3. QED
          BY <5>1, <5>2 DEF Early
      <4>3. QED
        BY <4>1, <4>2
    <3>7. Elements[path] = (Elements[b] \o Elements[rest]) \o own
      BY <2>6, <3>4, <3>6
    <3>8. (Elements[b] \o Elements[rest]) \o own = Elements[b] \o (Elements[rest] \o own)
      <4>1. \A x, y, z \in Seq(Seq(Chars)) : (x \o y) \o z = x \o (y \o z)
        BY ConcatAssociative
      <4>2. QED
        BY <1>2, <3>5, <4>1
    <3>9. Elements[path] = Elements[b] \o Elements[m]
      BY <3>1, <3>7, <3>8
    <3>10. QED
      BY <3>9 DEF path
  <2>9. QED
    BY <2>7, <2>8
<1>6. rank \in [S -> Nat] /\ T \subseteq S
  <2>1. \A m \in S : Len(m) \in Nat
    BY LenProperties
  <2> HIDE DEF S
  <2>2. QED
    BY <2>1
<1>7. S = T
  <2> HIDE DEF S, T, rank
  <2>1. QED
    BY <1>5, <1>6, RankInduction
<1>8. QED
  BY <1>7 DEF a

(* The place where a value comes first in a sequence.                      *)
FirstAt(s, a, x) == a \in 1..Len(s) /\ s[a] = x /\ \A c \in 1..(a - 1) : s[c] # x

(* r has what s has, each once, in the order in which it comes first.      *)
Nubbed(s, r) ==
  /\ \A a \in 1..Len(s) : s[a] \in Held(r)
  /\ \A i \in 1..Len(r) : \E a \in 1..Len(s) : FirstAt(s, a, r[i])
  /\ \A i, j \in 1..Len(r) : i < j =>
       \E a, b \in 1..Len(s) : FirstAt(s, a, r[i]) /\ FirstAt(s, b, r[j]) /\ a < b

(* What is appended is where it was not before, or it comes again.         *)
LEMMA NubbedAgain ==
  ASSUME NEW S, NEW s \in Seq(S), NEW e \in S, NEW r, Nubbed(s, r),
         NEW m \in 1..Len(s), s[m] = e
  PROVE  Nubbed(Append(s, e), r)
<1> DEFINE t == Append(s, e)
<1>1. Len(t) = Len(s) + 1 /\ t[Len(s) + 1] = e /\ Len(s) \in Nat /\ \A a \in 1..Len(s) : t[a] = s[a]
  BY AppendProperties, LenProperties
<1> HIDE DEF t
<1>2. ASSUME NEW a \in 1..Len(t)
      PROVE  t[a] \in Held(r)
  <2>1. CASE a \in 1..Len(s)
    BY <1>1, <2>1 DEF Nubbed
  <2>2. CASE a = Len(s) + 1
    BY <1>1, <2>2 DEF Nubbed
  <2>3. QED
    BY <1>1, <2>1, <2>2
<1>3. ASSUME NEW a \in 1..Len(s), NEW x, FirstAt(s, a, x)
      PROVE  a \in 1..Len(t) /\ FirstAt(t, a, x)
  <2>1. a \in 1..Len(t) /\ \A c \in 1..(a - 1) : c \in 1..Len(s)
    BY <1>1
  <2>2. QED
    BY <1>1, <1>3, <2>1 DEF FirstAt
<1>4. \A i \in 1..Len(r) : \E a \in 1..Len(t) : FirstAt(t, a, r[i])
  BY <1>3 DEF Nubbed
<1>5. \A i, j \in 1..Len(r) : i < j =>
        \E a, b \in 1..Len(t) : FirstAt(t, a, r[i]) /\ FirstAt(t, b, r[j]) /\ a < b
  BY <1>3 DEF Nubbed
<1>6. Nubbed(t, r)
  BY <1>2, <1>4, <1>5 DEF Nubbed
<1>7. QED
  BY <1>6 DEF t

(* Both sequences grow by an element that is new.                          *)
LEMMA NubbedOnward ==
  ASSUME NEW S, NEW s \in Seq(S), NEW e \in S, NEW r \in Seq(S), Nubbed(s, r),
         \A m \in 1..Len(s) : s[m] # e
  PROVE  Nubbed(Append(s, e), Append(r, e))
<1> DEFINE t == Append(s, e)
           q == Append(r, e)
<1>1. Len(t) = Len(s) + 1 /\ t[Len(s) + 1] = e /\ Len(s) \in Nat /\ \A a \in 1..Len(s) : t[a] = s[a]
  BY AppendProperties, LenProperties
<1>2. Len(q) = Len(r) + 1 /\ q[Len(r) + 1] = e /\ Len(r) \in Nat /\ \A a \in 1..Len(r) : q[a] = r[a]
  BY AppendProperties, LenProperties
<1> HIDE DEF t, q
<1>3. \A i \in 1..Len(q) : i \in 1..Len(r) \/ i = Len(r) + 1
  BY <1>2
<1>4. ASSUME NEW a \in 1..Len(t)
      PROVE  t[a] \in Held(q)
  <2>1. CASE a \in 1..Len(s)
    <3>1. PICK i \in 1..Len(r) : s[a] = r[i]
      BY <2>1 DEF Nubbed, Held
    <3>2. i \in 1..Len(q) /\ q[i] = t[a]
      BY <1>1, <1>2, <2>1, <3>1
    <3>3. QED
      BY <3>2 DEF Held
  <2>2. CASE a = Len(s) + 1
    <3>1. Len(r) + 1 \in 1..Len(q) /\ q[Len(r) + 1] = t[a]
      BY <1>1, <1>2, <2>2
    <3>2. QED
      BY <3>1 DEF Held
  <2>3. QED
    BY <1>1, <2>1, <2>2
<1>5. ASSUME NEW a \in 1..Len(s), NEW x, FirstAt(s, a, x)
      PROVE  a \in 1..Len(t) /\ a < Len(s) + 1 /\ FirstAt(t, a, x)
  <2>1. a \in 1..Len(t) /\ a < Len(s) + 1 /\ \A c \in 1..(a - 1) : c \in 1..Len(s)
    BY <1>1
  <2>2. QED
    BY <1>1, <1>5, <2>1 DEF FirstAt
<1>6. Len(s) + 1 \in 1..Len(t) /\ FirstAt(t, Len(s) + 1, e)
  <2>1. Len(s) + 1 \in 1..Len(t) /\ \A c \in 1..((Len(s) + 1) - 1) : c \in 1..Len(s)
    BY <1>1
  <2>2. QED
    BY <1>1, <2>1 DEF FirstAt
<1>7. ASSUME NEW i \in 1..Len(q)
      PROVE  \E a \in 1..Len(t) : FirstAt(t, a, q[i])
  <2>1. CASE i \in 1..Len(r)
    <3>1. PICK a \in 1..Len(s) : FirstAt(s, a, r[i])
      BY <2>1 DEF Nubbed
    <3>2. QED
      BY <1>2, <1>5, <2>1, <3>1
  <2>2. CASE i = Len(r) + 1
    BY <1>2, <1>6, <2>2
  <2>3. QED
    BY <1>3, <2>1, <2>2
<1>8. ASSUME NEW i \in 1..Len(q), NEW j \in 1..Len(q), i < j
      PROVE  \E a, b \in 1..Len(t) : FirstAt(t, a, q[i]) /\ FirstAt(t, b, q[j]) /\ a < b
  <2>1. CASE j \in 1..Len(r)
    <3>1. i \in 1..Len(r)
      BY <1>2, <1>8, <2>1
    <3>2. PICK a, b \in 1..Len(s) : FirstAt(s, a, r[i]) /\ FirstAt(s, b, r[j]) /\ a < b
      BY <1>8, <2>1, <3>1 DEF Nubbed
    <3>3. FirstAt(t, a, q[i]) /\ FirstAt(t, b, q[j]) /\ a \in 1..Len(t) /\ b \in 1..Len(t)
      BY <1>2, <1>5, <2>1, <3>1, <3>2
    <3>4. QED
      BY <3>2, <3>3
  <2>2. CASE j = Len(r) + 1
    <3>1. i \in 1..Len(r)
      BY <1>2, <1>8, <2>2
    <3>2. PICK a \in 1..Len(s) : FirstAt(s, a, r[i])
      BY <3>1 DEF Nubbed
    <3>3. FirstAt(t, a, q[i]) /\ a \in 1..Len(t) /\ a < Len(s) + 1
      BY <1>2, <1>5, <3>1, <3>2
    <3>4. FirstAt(t, Len(s) + 1, q[j])
      BY <1>2, <1>6, <2>2
    <3>5. QED
      BY <1>6, <3>3, <3>4
  <2>3. QED
    BY <1>3, <2>1, <2>2
<1>9. Nubbed(t, q)
  BY <1>4, <1>7, <1>8 DEF Nubbed
<1>10. QED
  BY <1>9 DEF t, q

(* The elements of what is joined are those that are joined, once each.    *)
LEMMA JoinedNubs ==
  \A s \in Seq(Element) : Joined[s] \in Seq(Chars) /\ Nubbed(s, Elements[Joined[s]])
<1> DEFINE S == Seq(Element)
           T == {s \in S : Joined[s] \in Seq(Chars) /\ Nubbed(s, Elements[Joined[s]])}
           rank == [s \in S |-> Len(s)]
<1>0. Element \subseteq Seq(Chars) /\ S \subseteq Seq(Seq(Chars))
  BY DEF Element
<1>1. ASSUME NEW s \in S, \A y \in S : rank[y] < rank[s] => y \in T
      PROVE  s \in T
  <2>1. s \in Seq(Seq(Chars)) /\ s \in Seq(Element)
    BY <1>0
  <2>2. CASE s = <<>>
    <3>1. Joined[s] = <<>> /\ <<>> \in Seq(Chars) /\ Elements[<<>>] = <<>>
      BY <2>1, <2>2, JoinedAre, ElementsAre, EmptySeq
    <3>2. Len(s) = 0 /\ Len(Elements[Joined[s]]) = 0
      BY <2>2, <3>1
    <3>3. Nubbed(s, Elements[Joined[s]])
      BY <3>2 DEF Nubbed
    <3>4. QED
      BY <3>1, <3>3
  <2>3. CASE s # <<>>
    <3> DEFINE n == Len(s)
               t == SubSeq(s, 1, n - 1)
               e == s[n]
               r == Elements[Joined[t]]
    <3>1. n \in Nat \ {0} /\ \A i \in 1..n : s[i] \in Element
      BY <2>1, <2>3, EmptySeq, ElementOfSeq, LenProperties
    <3>2. t \in S /\ Len(t) = n - 1 /\ \A i \in 1..(n - 1) : t[i] = s[i]
      <4>1. \A i \in 1..(n - 1) : s[i] \in Element
        BY <3>1
      <4> HIDE DEF n
      <4>2. /\ t \in Seq(Element) /\ Len(t) = (IF 1 <= n - 1 THEN (n - 1) - 1 + 1 ELSE 0)
            /\ \A i \in 1..((n - 1) - 1 + 1) : t[i] = s[1 + i - 1]
        BY <3>1, <4>1, SubSeqProperties
      <4> HIDE DEF t
      <4>3. \A i \in 1..(n - 1) : i \in 1..((n - 1) - 1 + 1) /\ 1 + i - 1 = i
        BY <3>1
      <4>4. QED
        BY <3>1, <4>2, <4>3
    <3>3. e \in Element /\ e \in Seq(Chars)
      BY <1>0, <3>1
    <3>4. s = Append(t, e)
      <4>1. /\ Append(t, e) \in Seq(Element) /\ Len(Append(t, e)) = n
            /\ \A i \in 1..n : Append(t, e)[i] = s[i]
        <5> HIDE DEF t, e
        <5>1. /\ Append(t, e) \in Seq(Element) /\ Len(Append(t, e)) = Len(t) + 1
              /\ Append(t, e)[Len(t) + 1] = e /\ \A i \in 1..Len(t) : Append(t, e)[i] = t[i]
          BY <3>2, <3>3, AppendProperties
        <5>2. \A i \in 1..n : i \in 1..(n - 1) \/ i = (n - 1) + 1
          BY <3>1
        <5>3. s[n] = e /\ (n - 1) + 1 = n
          BY <3>1 DEF e
        <5> HIDE DEF n
        <5>4. QED
          BY <3>2, <5>1, <5>2, <5>3
      <4> HIDE DEF t, e
      <4>2. QED
        BY <2>1, <4>1, SeqEqual
    <3>5. t \in T
      <4>1. rank[t] < rank[s]
        BY <3>1, <3>2
      <4> HIDE DEF T, rank, t
      <4>2. QED
        BY <1>1, <3>2, <4>1
    <3>6. Joined[t] \in Seq(Chars) /\ Nubbed(t, r) /\ t \in Seq(Element)
      BY <3>5
    <3>7. Joined[s] = IF \E m \in 1..(n - 1) : s[m] = e THEN Joined[t]
                      ELSE IF Joined[t] = <<>> THEN e ELSE Joined[t] \o <<Colon>> \o e
      BY <2>1, <2>3, JoinedAre
    <3>8. r \in Seq(Element)
      BY <3>6, ElementsWhole
    <3> HIDE DEF n, t, e
    <3>9. CASE \E m \in 1..(n - 1) : s[m] = e
      <4>1. PICK m \in 1..Len(t) : t[m] = e
        BY <3>2, <3>9
      <4> HIDE DEF r
      <4>2. Nubbed(Append(t, e), r)
        BY <3>3, <3>6, <4>1, NubbedAgain
      <4>3. Joined[s] = Joined[t]
        BY <3>7, <3>9
      <4>4. QED
        BY <3>4, <3>6, <4>2, <4>3 DEF r
    <3>10. CASE ~ \E m \in 1..(n - 1) : s[m] = e
      <4>1. \A m \in 1..Len(t) : t[m] # e
        BY <3>2, <3>10
      <4>2. Nubbed(Append(t, e), Append(r, e))
        <5> HIDE DEF r
        <5>1. QED
          BY <3>3, <3>6, <3>8, <4>1, NubbedOnward
      <4>3. Joined[s] \in Seq(Chars) /\ Elements[Joined[s]] = r \o <<e>>
        <5>1. Elements[e] = <<e>> /\ <<e>> \in Seq(Element)
          BY <3>3, Alone
        <5>2. CASE Joined[t] = <<>>
          <6>1. Joined[s] = e
            BY <3>7, <3>10, <5>2
          <6>2. r = <<>>
            BY <5>2, ElementsAre, EmptySeq
          <6>3. r \o <<e>> = <<e>>
            BY <5>1, <6>2, ConcatEmptySeq
          <6>4. QED
            BY <3>3, <5>1, <6>1, <6>3
        <5>3. CASE Joined[t] # <<>>
          <6>1. Joined[s] = Joined[t] \o <<Colon>> \o e
            BY <3>7, <3>10, <5>3
          <6>2. Joined[t] \o <<Colon>> = Append(Joined[t], Colon)
            BY <3>6, EnvironmentAssumption, AppendIsConcat
          <6>3. Joined[s] = Append(Joined[t], Colon) \o e
            BY <6>1, <6>2
          <6>4. Append(Joined[t], Colon) \in Seq(Chars)
            BY <3>6, EnvironmentAssumption, AppendProperties
          <6>5. Joined[s] \in Seq(Chars)
            BY <3>3, <6>3, <6>4, ConcatProperties
          <6>6. Elements[Append(Joined[t], Colon) \o e] = Elements[Joined[t]] \o Elements[e]
            BY <3>3, <3>6, ElementsBehind
          <6>7. QED
            BY <5>1, <6>3, <6>5, <6>6
        <5>4. QED
          BY <5>2, <5>3
      <4> HIDE DEF r
      <4>4. r \o <<e>> = Append(r, e)
        BY <3>3, <3>8, AppendIsConcat
      <4>5. QED
        BY <3>4, <4>2, <4>3, <4>4
    <3>11. QED
      BY <3>9, <3>10
  <2>4. QED
    BY <2>2, <2>3
<1>2. rank \in [S -> Nat] /\ T \subseteq S
  <2>1. \A s \in S : Len(s) \in Nat
    BY LenProperties
  <2> HIDE DEF S
  <2>2. QED
    BY <2>1
<1>3. S = T
  <2> HIDE DEF S, T, rank
  <2>1. QED
    BY <1>1, <1>2, RankInduction
<1>4. QED
  BY <1>3

(* So are those of a path that is cleaned.                                 *)
LEMMA CleanNubs ==
  ASSUME NEW path \in Seq(Chars)
  PROVE  Clean(path) \in Seq(Chars) /\ Nubbed(Elements[path], Elements[Clean(path)])
BY ElementsWhole, JoinedNubs DEF Clean

(* The configuration at p is read before the one at q.                     *)
ReadBefore(p, q) == p[1] < q[1] \/ (p[1] = q[1] /\ p[2] > q[2])

(* The items are those of the configurations that are read before q, in    *)
(* the order in which they are said first.                                 *)
ListsTo(items, name, q) ==
  /\ \A p \in Where : ReadBefore(p, q) =>
       \A m \in 1..Len(PathElements(name, p)) : PathElements(name, p)[m] \in Held(items)
  /\ \A i \in 1..Len(items) : \E p \in Where : \E m \in 1..Len(PathElements(name, p)) :
       ReadBefore(p, q) /\ FirstSaid(name, items[i], p, m)
  /\ \A i, j \in 1..Len(items) : i < j => Precedes(name, items[i], items[j])

(* What a sequence and a second one behind it consist of.                  *)
LEMMA ConcatIs ==
  ASSUME NEW S, NEW s \in Seq(S), NEW t \in Seq(S)
  PROVE  /\ s \o t \in Seq(S) /\ Len(s \o t) = Len(s) + Len(t) /\ Len(s) \in Nat /\ Len(t) \in Nat
         /\ \A i \in 1..Len(s) : (s \o t)[i] = s[i]
         /\ \A i \in 1..Len(t) : (s \o t)[Len(s) + i] = t[i]
<1> DEFINE u == s \o t
<1>1. Len(s) \in Nat /\ Len(t) \in Nat /\ u \in Seq(S) /\ Len(u) = Len(s) + Len(t)
  BY ConcatProperties, LenProperties
<1>2. \A i \in 1..Len(u) : u[i] = IF i <= Len(s) THEN s[i] ELSE t[i - Len(s)]
  BY ConcatProperties
<1> HIDE DEF u
<1>3. \A i \in 1..Len(s) : u[i] = s[i]
  BY <1>1, <1>2
<1>4. ASSUME NEW i \in 1..Len(t)
      PROVE  u[Len(s) + i] = t[i]
  <2>1. Len(s) + i \in 1..Len(u) /\ ~ (Len(s) + i <= Len(s)) /\ (Len(s) + i) - Len(s) = i
    BY <1>1
  <2>2. QED
    BY <1>2, <2>1
<1>5. QED
  BY <1>1, <1>3, <1>4 DEF u

(* With what the next configuration says, and once each, they are those of *)
(* one configuration more.                                                 *)
LEMMA ListsOnward ==
  ASSUME NEW S, NEW items \in Seq(S), NEW name, NEW q \in Where, PathElements(name, q) \in Seq(S),
         NEW r \in Seq(S), NEW onward, ListsTo(items, name, q),
         Nubbed(items \o PathElements(name, q), r),
         \A p \in Where : ReadBefore(p, onward) <=> ReadBefore(p, q) \/ p = q
  PROVE  ListsTo(r, name, onward)
<1> DEFINE said == PathElements(name, q)
           s == items \o said
           n == Len(items)
<1>1. /\ Len(s) = n + Len(said) /\ n \in Nat /\ Len(said) \in Nat
      /\ \A i \in 1..n : s[i] = items[i]
      /\ \A i \in 1..Len(said) : s[n + i] = said[i]
  BY ConcatIs
<1>2. Nubbed(s, r)
  OBVIOUS
<1> HIDE DEF s, said, n
<1>3. ASSUME NEW a \in 1..Len(s), NEW x, FirstAt(s, a, x), ~ (a <= n)
      PROVE  a - n \in 1..Len(said) /\ FirstSaid(name, x, q, a - n)
  <2> DEFINE k == a - n
  <2>1. k \in 1..Len(said) /\ n + k = a
    BY <1>1, <1>3
  <2> HIDE DEF k
  <2>2. said[k] = x
    BY <1>1, <1>3, <2>1 DEF FirstAt
  <2>3. ASSUME NEW p \in Where, NEW m \in 1..Len(PathElements(name, p)), PathElements(name, p)[m] = x,
               Ahead(p, m, q, k)
        PROVE  FALSE
    <3>1. CASE ReadBefore(p, q)
      <4>1. x \in Held(items)
        BY <2>3, <3>1 DEF ListsTo
      <4>2. PICK c \in 1..n : items[c] = x
        BY <4>1 DEF Held, n
      <4>3. c \in 1..(a - 1)
        BY <1>1, <1>3
      <4>4. s[c] = x
        BY <1>1, <4>2
      <4>5. QED
        BY <1>3, <4>3, <4>4 DEF FirstAt
    <3>2. CASE p = q /\ m < k
      <4>1. m \in 1..Len(said) /\ said[m] = x
        BY <2>3, <3>2 DEF said
      <4>2. n + m \in 1..(a - 1)
        BY <1>1, <1>3, <2>1, <3>2, <4>1
      <4>3. s[n + m] = x
        BY <1>1, <4>1
      <4>4. QED
        BY <1>3, <4>2, <4>3 DEF FirstAt
    <3>3. QED
      BY <2>3, <3>1, <3>2 DEF Ahead, ReadBefore
  <2>4. FirstSaid(name, x, q, k)
    BY <2>1, <2>2, <2>3 DEF FirstSaid, said
  <2>5. QED
    BY <2>1, <2>4 DEF k
<1>4. ASSUME NEW a \in 1..Len(s), NEW x, FirstAt(s, a, x), a <= n
      PROVE  a \in 1..n /\ items[a] = x
  <2>1. a \in 1..n
    BY <1>1, <1>4
  <2>2. QED
    BY <1>1, <1>4, <2>1 DEF FirstAt
<1>5. ASSUME NEW p \in Where, ReadBefore(p, onward), NEW m \in 1..Len(PathElements(name, p))
      PROVE  PathElements(name, p)[m] \in Held(r)
  <2>1. CASE ReadBefore(p, q)
    <3>1. PICK c \in 1..n : items[c] = PathElements(name, p)[m]
      BY <2>1 DEF ListsTo, Held, n
    <3>2. c \in 1..Len(s) /\ s[c] = items[c]
      BY <1>1
    <3>3. QED
      BY <1>2, <3>1, <3>2 DEF Nubbed
  <2>2. CASE p = q
    <3>1. m \in 1..Len(said) /\ said[m] = PathElements(name, p)[m]
      BY <2>2 DEF said
    <3>2. n + m \in 1..Len(s) /\ s[n + m] = said[m]
      BY <1>1, <3>1
    <3>3. QED
      BY <1>2, <3>1, <3>2 DEF Nubbed
  <2>3. QED
    BY <1>5, <2>1, <2>2
<1>6. ASSUME NEW i \in 1..Len(r)
      PROVE  \E p \in Where : \E m \in 1..Len(PathElements(name, p)) :
               ReadBefore(p, onward) /\ FirstSaid(name, r[i], p, m)
  <2>1. PICK a \in 1..Len(s) : FirstAt(s, a, r[i])
    BY <1>2 DEF Nubbed
  <2>2. CASE a <= n
    <3>1. a \in 1..n /\ items[a] = r[i]
      BY <1>4, <2>1, <2>2
    <3>2. QED
      BY <3>1 DEF ListsTo, n
  <2>3. CASE ~ (a <= n)
    BY <1>3, <2>1, <2>3 DEF said
  <2>4. QED
    BY <2>2, <2>3
<1>7. ASSUME NEW i \in 1..Len(r), NEW j \in 1..Len(r), i < j
      PROVE  Precedes(name, r[i], r[j])
  <2>1. PICK a, b \in 1..Len(s) : FirstAt(s, a, r[i]) /\ FirstAt(s, b, r[j]) /\ a < b
    BY <1>2, <1>7 DEF Nubbed
  <2>2. CASE b <= n
    <3>1. a <= n
      BY <1>1, <2>1, <2>2
    <3>2. a \in 1..n /\ items[a] = r[i] /\ b \in 1..n /\ items[b] = r[j]
      BY <1>4, <2>1, <2>2, <3>1
    <3>3. QED
      BY <2>1, <3>2 DEF ListsTo, n
  <2>3. CASE ~ (b <= n)
    <3>1. b - n \in 1..Len(said) /\ FirstSaid(name, r[j], q, b - n)
      BY <1>3, <2>1, <2>3
    <3>2. CASE a <= n
      <4>1. a \in 1..n /\ items[a] = r[i]
        BY <1>4, <2>1, <3>2
      <4>2. PICK p \in Where : \E m \in 1..Len(PathElements(name, p)) :
              ReadBefore(p, q) /\ FirstSaid(name, r[i], p, m)
        BY <4>1 DEF ListsTo, n
      <4>3. PICK m \in 1..Len(PathElements(name, p)) :
              ReadBefore(p, q) /\ FirstSaid(name, r[i], p, m)
        BY <4>2
      <4>4. Ahead(p, m, q, b - n)
        BY <4>3 DEF Ahead, ReadBefore
      <4>5. QED
        BY <3>1, <4>3, <4>4 DEF Precedes, said
    <3>3. CASE ~ (a <= n)
      <4>1. a - n \in 1..Len(said) /\ FirstSaid(name, r[i], q, a - n)
        BY <1>3, <2>1, <3>3
      <4>2. a - n < b - n
        BY <1>1, <2>1
      <4>3. Ahead(q, a - n, q, b - n)
        BY <4>2 DEF Ahead
      <4>4. QED
        BY <3>1, <4>1, <4>3 DEF Precedes, said
    <3>4. QED
      BY <3>2, <3>3
  <2>4. QED
    BY <2>2, <2>3
<1>8. QED
  BY <1>5, <1>6, <1>7 DEF ListsTo

(* The buffer, with a colon behind it if there is something in it.         *)
Behind(before) == IF before = <<>> THEN <<>> ELSE Append(before, Colon)

(* With what comes next behind it, it has the elements of both.            *)
LEMMA BehindElements ==
  ASSUME NEW before \in Seq(Chars), NEW m \in Seq(Chars)
  PROVE  /\ Behind(before) \in Seq(Chars) /\ Behind(before) \o m \in Seq(Chars)
         /\ Elements[Behind(before) \o m] = Elements[before] \o Elements[m]
<1>1. CASE before = <<>>
  <2>1. Behind(before) = <<>> /\ <<>> \o m = m /\ <<>> \in Seq(Chars)
    BY <1>1, ConcatEmptySeq, EmptySeq DEF Behind
  <2>2. Elements[before] = <<>>
    BY <1>1, ElementsAre, EmptySeq
  <2>3. Elements[m] \in Seq(Seq(Chars))
    BY ElementsType
  <2>4. <<>> \o Elements[m] = Elements[m]
    BY <2>3, ConcatEmptySeq
  <2>5. QED
    BY <2>1, <2>2, <2>4
<1>2. CASE before # <<>>
  <2>1. Behind(before) = Append(before, Colon)
    BY <1>2 DEF Behind
  <2>2. Append(before, Colon) \in Seq(Chars)
    BY EnvironmentAssumption, AppendProperties
  <2>3. QED
    BY <2>1, <2>2, ElementsBehind, ConcatProperties
<1>3. QED
  BY <1>1, <1>2

(* The elements of what a configuration says.                              *)
LEMMA PathElementsType ==
  ASSUME EnvironmentTypeOK, \A node \in Contexts : NoLoop(node), NEW name \in SearchedNames,
         NEW p \in Where
  PROVE  PathElements(name, p) \in Seq(Seq(Chars))
<1>1. wish.paths[name][p] \in String \cup {Missing}
  BY DEF EnvironmentTypeOK, Wish
<1>2. p[1] \in Contexts
  BY EnvironmentAssumption DEF Where
<1>3. wish.paths[name][p] # Missing => Means(wish.paths[name][p], p[1], FALSE) \in Seq(Chars)
  BY <1>1, <1>2, MeansType
<1>4. <<>> \in Seq(Seq(Chars))
  BY EmptySeq
<1>5. QED
  BY <1>3, <1>4, ElementsType DEF PathElements

(* The order of what is said does not change.                              *)
LEMMA OrderKept ==
  ASSUME wish' = wish
  PROVE  /\ \A items, name, q : ListsTo(items, name, q)' = ListsTo(items, name, q)
         /\ \A items, name : Lists(items, name)' = Lists(items, name)
<1>1. \A name, p : PathElements(name, p)' = PathElements(name, p)
  BY DEF PathElements
<1>2. \A name, x, p, m : FirstSaid(name, x, p, m)' = FirstSaid(name, x, p, m)
  BY <1>1 DEF FirstSaid
<1>3. \A name, x, y : Precedes(name, x, y)' = Precedes(name, x, y)
  BY <1>1, <1>2 DEF Precedes
<1>4. \A items, name, q : ListsTo(items, name, q)' = ListsTo(items, name, q)
  BY <1>1, <1>2, <1>3 DEF ListsTo
<1>5. \A items, name : Lists(items, name)' = Lists(items, name)
  BY <1>1, <1>3 DEF Lists
<1>6. QED
  BY <1>4, <1>5

(* Nothing is read before the first place, and everything before the last. *)
LEMMA NothingYet ==
  ASSUME NEW name
  PROVE  ListsTo(<<>>, name, <<0, 1>>)
<1>1. \A p \in Where : ~ ReadBefore(p, <<0, 1>>)
  BY EnvironmentAssumption DEF Where, ReadBefore
<1>2. Len(<<>>) = 0
  OBVIOUS
<1>3. QED
  BY <1>1, <1>2 DEF ListsTo

(* When the nodes are exhausted, everything said is listed.                *)
LEMMA AllListed ==
  ASSUME NEW items, NEW name, NEW q, q[1] = Nodes, ListsTo(items, name, q)
  PROVE  Lists(items, name)
<1>1. \A p \in Where : ReadBefore(p, q)
  BY EnvironmentAssumption DEF Where, ReadBefore
<1>2. ASSUME NEW x \in Held(items)
      PROVE  \E p \in Where : x \in Held(PathElements(name, p))
  <2>1. PICK i \in 1..Len(items) : x = items[i]
    BY DEF Held
  <2>2. PICK p \in Where : \E m \in 1..Len(PathElements(name, p)) : FirstSaid(name, x, p, m)
    BY <2>1 DEF ListsTo
  <2>3. QED
    BY <2>2 DEF FirstSaid, Held
<1>3. ASSUME NEW p \in Where, NEW x \in Held(PathElements(name, p))
      PROVE  x \in Held(items)
  <2>1. PICK m \in 1..Len(PathElements(name, p)) : x = PathElements(name, p)[m]
    BY DEF Held
  <2>2. QED
    BY <1>1, <2>1 DEF ListsTo
<1>4. Held(items) = UNION {Held(PathElements(name, p)) : p \in Where}
  BY <1>2, <1>3
<1>5. QED
  BY <1>4 DEF ListsTo, Lists

(* The configurations are read one after the other.                        *)
LEMMA ReadInTurn ==
  ASSUME place \in Where
  PROVE  \A p \in Where : ReadBefore(p, PlaceAfter) <=> ReadBefore(p, place) \/ p = place
<1> SUFFICES ASSUME NEW p \in Where
             PROVE  ReadBefore(p, PlaceAfter) <=> ReadBefore(p, place) \/ p = place
  OBVIOUS
<1>1. PICK d \in 0..(Nodes - 1), a \in {0, 1} : place = <<d, a>>
  BY DEF Where
<1>2. PICK e \in 0..(Nodes - 1), b \in {0, 1} : p = <<e, b>>
  BY DEF Where
<1>3. d \in Int /\ e \in Int
  BY EnvironmentAssumption
<1>4. PlaceAfter = IF a = 1 THEN <<d, 0>> ELSE <<d + 1, 1>>
  BY <1>1 DEF PlaceAfter
<1>5. ReadBefore(p, place) <=> (e < d \/ (e = d /\ b > a))
  BY <1>1, <1>2 DEF ReadBefore
<1>6. p = place <=> (e = d /\ b = a)
  BY <1>1, <1>2
<1>7. CASE a = 1
  <2>1. ReadBefore(p, PlaceAfter) <=> (e < d \/ (e = d /\ b > 0))
    BY <1>2, <1>4, <1>7 DEF ReadBefore
  <2>2. QED
    BY <1>3, <1>5, <1>6, <1>7, <2>1
<1>8. CASE a = 0
  <2>1. ReadBefore(p, PlaceAfter) <=> (e < d + 1 \/ (e = d + 1 /\ b > 1))
    BY <1>2, <1>4, <1>8 DEF ReadBefore
  <2>2. QED
    BY <1>3, <1>5, <1>6, <1>8, <2>1
<1>9. QED
  BY <1>7, <1>8

(* What the buffer has of a path is what the configurations up to here     *)
(* say, in their order, and so are the paths that are set.                 *)
Ordered ==
  /\ part = "variables" => place = <<0, 1>>
  /\ part = "paths" /\ expanding =>
       \E before \in Seq(Chars) :
         /\ Expanding(PathHere, FALSE, Behind(before), place[1])
         /\ ListsTo(Elements[before], Searched[index], place)
  /\ part = "paths" /\ ~ expanding /\ index <= Len(Searched) =>
       ListsTo(Elements[buffer], Searched[index], place)
  /\ part \in {"paths", "set"} /\ ~ null =>
       \A k \in 1..Len(Searched) :
         (part = "paths" => k < index) /\ OwnPath(Searched[k]) =>
           Lists(Elements[setting[Searched[k]].value], Searched[k])

(* The steps that set the variables keep it.                               *)
LEMMA VariableOrderStep ==
  ASSUME EnvTypes, Ordered, part = "variables", VariableStep \/ VariableFailure
  PROVE  Ordered'
<1>1. place' = place /\ place = <<0, 1>>
  BY DEF Ordered, VariableStep, VariableFailure, SetStatic, SetRemove, SetInherit, SetExecfd,
         ExecfdFails, StartDefault, SetDefault, VariablesSet, ExpandOnward, ownVars, Advance
<1>2. CASE VariablesSet
  <2>1. part' = "paths" /\ buffer' = <<>> /\ index' = 1 /\ ~ expanding'
    BY <1>2 DEF VariablesSet
  <2>2. Elements[<<>>] = <<>>
    BY ElementsAre, EmptySeq
  <2>3. ListsTo(<<>>, Searched[1], <<0, 1>>)'
    BY NothingYet, <1>2, OrderKept DEF VariablesSet
  <2>4. ~ (part' = "variables") /\ ~ (part' = "paths" /\ expanding')
    BY <2>1
  <2>5. ListsTo(Elements[buffer], Searched[index], place)'
    BY <1>1, <2>1, <2>2, <2>3
  <2>6. \A k \in 1..Len(Searched) : ~ (k < index')
    BY <2>1
  <2>7. QED
    BY <2>1, <2>4, <2>5, <2>6 DEF Ordered
<1>3. CASE ~ VariablesSet
  <2>1. part' = "variables"
    BY <1>3 DEF VariableStep, VariableFailure, SetStatic, SetRemove, SetInherit, SetExecfd,
         ExecfdFails, StartDefault, SetDefault, ExpandOnward, ownVars, Advance
  <2>2. QED
    BY <1>1, <2>1 DEF Ordered
<1>4. QED
  BY <1>2, <1>3

(* The steps that make the paths keep it: what a configuration says goes   *)
(* behind what those before it say, and what comes again is left out.      *)
LEMMA PathOrderStep ==
  ASSUME EnvTypes, \A node \in Contexts : NoLoop(node), Ordered, part = "paths", PathStep
  PROVE  Ordered'
<1>1. /\ index \in Nat /\ index >= 1 /\ ExpandTypeOK /\ Stacked(frames) /\ Large \in Nat \ {0}
      /\ buffer \in Seq(Chars) /\ EnvironmentTypeOK /\ Len(Searched) \in Nat
      /\ setting \in [VarNames -> Setting]
  BY EnvironmentAssumption, LenProperties DEF EnvTypes, EnvironmentTypeOK, Expands, ExpandTypeOK
<1>2. AtPlace =>
        /\ place \in Where /\ place[1] \in Contexts /\ Searched[index] \in SearchedNames
        /\ PathHere # Missing =>
             /\ PathHere \in String /\ Means(PathHere, place[1], FALSE) \in Seq(Chars)
             /\ PathElements(Searched[index], place) = Elements[Means(PathHere, place[1], FALSE)]
        /\ PathHere = Missing => PathElements(Searched[index], place) = <<>>
  <2>1. AtPlace => index \in 1..Len(Searched)
    BY <1>1 DEF AtPlace
  <2>2. PathHere = wish.paths[Searched[index]][place]
    BY DEF PathHere
  <2>3. QED
    BY <2>1, <2>2, HereIs DEF SearchedNames, PathElements
<1>3. wish' = wish /\ null' = null
  BY DEF PathStep, SkipPlace, StartPath, AppendPath, PathFails, SetPath, PathsSet, ExpandOnward, ownVars
<1>4. /\ \A items, name, q : ListsTo(items, name, q)' = ListsTo(items, name, q)
      /\ \A items, name : Lists(items, name)' = Lists(items, name)
      /\ \A name : OwnPath(name)' = OwnPath(name)
  BY <1>3, OrderKept, SaidKept
<1>5. ASSUME NEW k \in 1..Len(Searched), Lists(Elements[setting'[Searched[k]].value], Searched[k])
      PROVE  Lists(Elements[setting[Searched[k]].value], Searched[k])'
  <2>1. PICK e, m : e = Elements[setting'[Searched[k]].value] /\ m = Searched[k]
    OBVIOUS
  <2>2. Elements[setting[Searched[k]].value]' = e
    BY <2>1
  <2>3. Lists(e, m)'
    BY <1>4, <1>5, <2>1
  <2>4. QED
    BY <2>1, <2>2, <2>3
<1>6. ASSUME UNCHANGED <<part, index, setting>>
      PROVE  part' \in {"paths", "set"} /\ ~ null' =>
               \A k \in 1..Len(Searched) :
                 (part' = "paths" => k < index') /\ OwnPath(Searched[k])' =>
                   Lists(Elements[setting[Searched[k]].value], Searched[k])'
  <2>1. ~ null => \A k \in 1..Len(Searched) :
          (part = "paths" => k < index) /\ OwnPath(Searched[k]) =>
            Lists(Elements[setting'[Searched[k]].value], Searched[k])
    BY <1>6 DEF Ordered
  <2>2. QED
    BY <1>3, <1>4, <1>5, <1>6, <2>1
<1>7. part = "paths" /\ expanding => AtPlace /\ PathHere # Missing
  BY DEF EnvTypes, Expands
<1>8. ASSUME AtPlace, UNCHANGED <<wish, part, index, setting>>, place' = PlaceAfter, ~ expanding',
             ListsTo(Elements[buffer'], Searched[index], PlaceAfter)
      PROVE  Ordered'
  <2>1. PICK q, m, b : q = PlaceAfter /\ m = Searched[index] /\ b = buffer'
    OBVIOUS
  <2>2. Searched[index]' = m /\ place' = q /\ Elements[buffer]' = Elements[b]
    BY <1>8, <2>1
  <2>3. ListsTo(Elements[b], m, q)'
    BY <1>4, <1>8, <2>1
  <2>4. ListsTo(Elements[buffer], Searched[index], place)'
    BY <2>2, <2>3
  <2>5. part' = "paths" /\ ~ (part' = "variables")
    BY <1>8
  <2>6. QED
    BY <1>6, <1>8, <2>4, <2>5 DEF Ordered
<1>9. CASE SkipPlace
  <2>1. /\ AtPlace /\ ~ expanding /\ PathHere = Missing /\ place' = PlaceAfter
        /\ UNCHANGED <<wish, part, index, setting, expanding, buffer>>
    BY <1>9 DEF SkipPlace, expandVars
  <2>2. ListsTo(Elements[buffer], Searched[index], place)
    BY <2>1 DEF Ordered, AtPlace
  <2>3. /\ PathElements(Searched[index], place) = <<>> /\ Len(<<>>) = 0
        /\ \A p \in Where : ReadBefore(p, PlaceAfter) <=> ReadBefore(p, place) \/ p = place
    BY <1>2, <2>1, ReadInTurn
  <2>4. ListsTo(Elements[buffer], Searched[index], PlaceAfter)
    <3> DEFINE items == Elements[buffer]
               name == Searched[index]
    <3>1. PICK q : q = PlaceAfter
      OBVIOUS
    <3> HIDE DEF items, name
    <3>2. ListsTo(items, name, place) /\ PathElements(name, place) = <<>>
          /\ \A p \in Where : ReadBefore(p, q) <=> ReadBefore(p, place) \/ p = place
      BY <2>2, <2>3, <3>1 DEF items, name
    <3>3. \A p \in Where : ReadBefore(p, q) =>
            \A m \in 1..Len(PathElements(name, p)) : PathElements(name, p)[m] \in Held(items)
      <4>1. ASSUME NEW p \in Where, ReadBefore(p, q), NEW m \in 1..Len(PathElements(name, p))
            PROVE  PathElements(name, p)[m] \in Held(items)
        <5>1. p # place
          BY <2>3, <3>2, <4>1
        <5>2. QED
          BY <3>2, <4>1, <5>1 DEF ListsTo
      <4>2. QED
        BY <4>1
    <3>4. \A i \in 1..Len(items) : \E p \in Where : \E m \in 1..Len(PathElements(name, p)) :
            ReadBefore(p, q) /\ FirstSaid(name, items[i], p, m)
      BY <3>2 DEF ListsTo
    <3>5. ListsTo(items, name, q)
      BY <3>2, <3>3, <3>4 DEF ListsTo
    <3>6. QED
      BY <3>1, <3>5 DEF items, name
  <2>5. QED
    BY <1>8, <2>1, <2>4
<1>10. CASE StartPath
  <2>1. /\ AtPlace /\ ~ expanding /\ PathHere # Missing
        /\ UNCHANGED <<wish, index, place, setting>>
    BY <1>10 DEF StartPath
  <2>2. ListsTo(Elements[buffer], Searched[index], place)
    BY <2>1 DEF Ordered, AtPlace
  <2>3. CASE ExpandStart(PathHere, FALSE, Behind(buffer)) /\ expanding' = TRUE /\ UNCHANGED part
    <3>1. PICK b \in Seq(Chars) : b = buffer
      BY <1>1
    <3>2. PICK string \in String : string = PathHere
      BY <1>2, <2>1
    <3>3. PICK node \in Contexts : node = place[1]
      BY <1>2, <2>1
    <3>4. PICK m, p : m = Searched[index] /\ p = place
      OBVIOUS
    <3>5. ExpandStart(string, FALSE, Behind(b)) /\ NoLoop(node) /\ Behind(b) \in Seq(Chars)
      <4>1. <<>> \in Seq(Chars)
        BY EmptySeq
      <4>2. QED
        BY <2>3, <3>1, <3>2, <4>1, BehindElements
    <3>6. Expanding(string, FALSE, Behind(b), node)'
      BY <3>5, ExpandingStart
    <3>7. PathHere' = string /\ place[1]' = node /\ Searched[index]' = m /\ place' = p
      BY <2>1, <3>2, <3>3, <3>4 DEF PathHere
    <3>8. ListsTo(Elements[b], m, p)'
      BY <1>4, <2>2, <3>1, <3>4
    <3>9. \E before \in Seq(Chars) :
            /\ Expanding(PathHere, FALSE, Behind(before), place[1])'
            /\ ListsTo(Elements[before], Searched[index], place)'
      BY <3>6, <3>7, <3>8
    <3>10. part' = "paths" /\ ~ (part' = "variables") /\ ~ ~ expanding'
      BY <2>3
    <3>11. QED
      BY <1>6, <2>1, <2>3, <3>9, <3>10 DEF Ordered
  <2>4. CASE part' = "refused"
    BY <2>4 DEF Ordered
  <2>5. QED
    BY <1>10, <2>3, <2>4 DEF StartPath, Behind
<1>11. CASE AppendPath
  <2>1. /\ expanding /\ answer = "ok" /\ buffer' = Clean(buffer) /\ ~ expanding' /\ place' = PlaceAfter
        /\ UNCHANGED <<wish, part, index, setting>>
    BY <1>11 DEF AppendPath
  <2>2. AtPlace /\ PathHere # Missing
    BY <1>7, <2>1
  <2>3. PICK before \in Seq(Chars) :
          /\ Expanding(PathHere, FALSE, Behind(before), place[1])
          /\ ListsTo(Elements[before], Searched[index], place)
    BY <2>1 DEF Ordered
  <2> DEFINE means == Means(PathHere, place[1], FALSE)
             said == PathElements(Searched[index], place)
  <2>4. means \in Seq(Chars) /\ said = Elements[means]
    BY <1>2, <2>2
  <2>5. buffer = Behind(before) \o means
    BY <1>1, <1>2, <2>1, <2>2, <2>3, ExpandedWhole
  <2> HIDE DEF means
  <2>6. Elements[buffer] = Elements[before] \o said
    BY <2>4, <2>5, BehindElements
  <2>7. Clean(buffer) \in Seq(Chars) /\ Nubbed(Elements[before] \o said, Elements[Clean(buffer)])
    BY <1>1, <2>6, CleanNubs
  <2>8. /\ Elements[before] \in Seq(Seq(Chars)) /\ Elements[Clean(buffer)] \in Seq(Seq(Chars))
        /\ said \in Seq(Seq(Chars))
    BY <2>4, <2>7, ElementsType
  <2>9. \A p \in Where : ReadBefore(p, PlaceAfter) <=> ReadBefore(p, place) \/ p = place
    BY <1>2, <2>2, ReadInTurn
  <2>10. ListsTo(Elements[Clean(buffer)], Searched[index], PlaceAfter)
    <3>1. PICK items, r \in Seq(Seq(Chars)) : items = Elements[before] /\ r = Elements[Clean(buffer)]
      BY <2>8
    <3>2. PICK q, name, here : q = PlaceAfter /\ name = Searched[index] /\ here = place
      OBVIOUS
    <3>3. /\ here \in Where /\ PathElements(name, here) \in Seq(Seq(Chars))
          /\ ListsTo(items, name, here) /\ Nubbed(items \o PathElements(name, here), r)
          /\ \A p \in Where : ReadBefore(p, q) <=> ReadBefore(p, here) \/ p = here
      BY <1>2, <2>2, <2>3, <2>7, <2>8, <2>9, <3>1, <3>2
    <3>4. ListsTo(r, name, q)
      BY <3>3, ListsOnward
    <3>5. QED
      BY <3>1, <3>2, <3>4
  <2>11. QED
    BY <1>8, <2>1, <2>2, <2>10
<1>12. CASE PathFails
  BY <1>12 DEF PathFails, Ordered
<1>13. CASE SetPath
  <2>1. /\ part' = part /\ expanding' = expanding /\ buffer' = <<>> /\ place[1] = Nodes
        /\ place' = <<0, 1>> /\ index' = index + 1 /\ index <= Len(Searched)
        /\ IF buffer # <<>> THEN Give(Searched[index], SetTo(buffer)) ELSE UNCHANGED setting
    BY <1>13 DEF SetPath
  <2>2. ~ expanding
    BY <1>7, <2>1, EnvironmentAssumption DEF AtPlace
  <2>3. ListsTo(Elements[buffer], Searched[index], place)
    BY <2>1, <2>2 DEF Ordered
  <2>4. Lists(Elements[buffer], Searched[index])
    BY <2>1, <2>3, AllListed
  <2>5. Elements[<<>>] = <<>>
    BY ElementsAre, EmptySeq
  <2>6. ListsTo(Elements[buffer], Searched[index], place)'
    <3>1. PICK m : m = Searched[index]'
      OBVIOUS
    <3>2. ListsTo(<<>>, m, <<0, 1>>)'
      BY <1>4, NothingYet
    <3>3. QED
      BY <2>1, <2>5, <3>1, <3>2
  <2>7. ASSUME ~ null, NEW k \in 1..Len(Searched), k < index + 1, OwnPath(Searched[k])
        PROVE  Lists(Elements[setting'[Searched[k]].value], Searched[k])
    <3>1. PICK x \in VarNames : x = Searched[k]
      BY EnvironmentAssumption, ElementOfSeq
    <3>2. CASE x = Searched[index]
      <4>1. buffer # <<>>
        <5>1. PICK p \in Where : PathElements(x, p) # <<>>
          BY <2>7, <3>1 DEF OwnPath
        <5>2. x \in SearchedNames
          BY <3>1 DEF SearchedNames
        <5>3. PathElements(x, p) \in Seq(Seq(Chars))
          BY <1>1, <5>2, PathElementsType
        <5>4. Len(PathElements(x, p)) \in Nat \ {0}
          BY <5>1, <5>3, EmptySeq, LenProperties
        <5>5. PathElements(x, p)[1] \in Held(PathElements(x, p))
          BY <5>4 DEF Held
        <5>6. PathElements(x, p)[1] \in Held(Elements[buffer])
          BY <2>4, <3>2, <5>5 DEF Lists
        <5>7. buffer = <<>> => Held(Elements[buffer]) = {}
          BY <2>5 DEF Held
        <5>8. QED
          BY <5>6, <5>7
      <4>2. setting' = [setting EXCEPT ![x] = SetTo(buffer)]
        BY <2>1, <2>7, <3>2, <4>1 DEF Give
      <4>3. setting'[x] = SetTo(buffer)
        BY <1>1, <4>2
      <4>4. setting'[x].value = buffer
        BY <4>3 DEF SetTo
      <4>5. QED
        BY <2>4, <3>1, <3>2, <4>4
    <3>3. CASE x # Searched[index]
      <4>1. k < index
        BY <1>1, <2>7, <3>1, <3>3
      <4>2. Lists(Elements[setting[x].value], x)
        BY <2>7, <3>1, <4>1 DEF Ordered
      <4>3. setting'[x] = setting[x]
        BY <1>1, <2>1, <3>3 DEF Give
      <4>4. QED
        BY <3>1, <4>2, <4>3
    <3>4. QED
      BY <3>2, <3>3
  <2>8. \A k \in 1..Len(Searched) :
          ~ null' /\ (part' = "paths" => k < index') /\ OwnPath(Searched[k])' =>
            Lists(Elements[setting[Searched[k]].value], Searched[k])'
    BY <1>3, <1>4, <1>5, <2>1, <2>7
  <2>9. part' = "paths" /\ ~ (part' = "variables") /\ ~ expanding'
    BY <2>1, <2>2
  <2>10. QED
    BY <2>6, <2>8, <2>9 DEF Ordered
<1>14. CASE PathsSet
  <2>1. part' = "set" /\ index > Len(Searched) /\ UNCHANGED <<index, setting>>
    BY <1>14 DEF PathsSet
  <2>2. \A k \in 1..Len(Searched) : k < index
    BY <1>1, <2>1
  <2>3. ~ null => \A k \in 1..Len(Searched) :
          OwnPath(Searched[k]) => Lists(Elements[setting[Searched[k]].value], Searched[k])
    BY <2>2 DEF Ordered
  <2>4. ~ null' => \A k \in 1..Len(Searched) :
          OwnPath(Searched[k])' => Lists(Elements[setting[Searched[k]].value], Searched[k])'
    <3>1. ~ null => \A k \in 1..Len(Searched) :
            OwnPath(Searched[k]) => Lists(Elements[setting'[Searched[k]].value], Searched[k])
      BY <2>1, <2>3
    <3>2. QED
      BY <1>3, <1>4, <1>5, <3>1
  <2>5. QED
    BY <2>1, <2>4 DEF Ordered
<1>15. CASE ExpandOnward
  <2>1. /\ expanding /\ ExpandStep(place[1], Large)
        /\ UNCHANGED <<wish, part, index, place, expanding, setting>>
    BY <1>15 DEF ExpandOnward, Context, Size, ownVars
  <2>2. AtPlace /\ PathHere # Missing
    BY <1>7, <2>1
  <2>3. PICK before \in Seq(Chars) :
          /\ Expanding(PathHere, FALSE, Behind(before), place[1])
          /\ ListsTo(Elements[before], Searched[index], place)
    BY <2>1 DEF Ordered
  <2>4. PICK string \in String : string = PathHere
    BY <1>2, <2>2
  <2>5. PICK node \in Contexts : node = place[1]
    BY <1>2, <2>2
  <2>6. PICK m, p : m = Searched[index] /\ p = place
    OBVIOUS
  <2>7. Expanding(string, FALSE, Behind(before), node)'
    <3>1. ExpandStep(node, Large) /\ NoLoop(node) /\ Expanding(string, FALSE, Behind(before), node)
      BY <2>1, <2>3, <2>4, <2>5
    <3>2. QED
      BY <1>1, <3>1, ExpandingStep
  <2>8. PathHere' = string /\ place[1]' = node /\ Searched[index]' = m /\ place' = p
    BY <2>1, <2>4, <2>5, <2>6 DEF PathHere
  <2>9. ListsTo(Elements[before], m, p)'
    BY <1>4, <2>3, <2>6
  <2>10. \E b \in Seq(Chars) :
           /\ Expanding(PathHere, FALSE, Behind(b), place[1])'
           /\ ListsTo(Elements[b], Searched[index], place)'
    BY <2>7, <2>8, <2>9
  <2>11. part' = "paths" /\ ~ (part' = "variables") /\ ~ ~ expanding'
    BY <2>1
  <2>12. QED
    BY <1>6, <2>1, <2>10, <2>11 DEF Ordered
<1>16. QED
  BY <1>9, <1>10, <1>11, <1>12, <1>13, <1>14, <1>15 DEF PathStep
=============================================================================
