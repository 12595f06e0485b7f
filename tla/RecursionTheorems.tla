-------------------------- MODULE RecursionTheorems --------------------------
(***************************************************************************)
(* That recursion over what has a rank defines a function, and induction   *)
(* over it, as facts about sets: the functions of Environment and Expand   *)
(* take paths, strings and stacks to pieces, which are shorter each time.  *)
(***************************************************************************)
EXTENDS MergeTable, WellFoundedInduction, TLAPS

(* A set of numbers has a least one.                                       *)
LEMMA Least ==
  ASSUME NEW T \in SUBSET Nat, T # {}
  PROVE  \E x \in T : \A y \in T : x <= y
<1>1. PICK x \in T : \A y \in T : ~ (<<y, x>> \in OpToRel(<, Nat))
  BY NatLessThanWellFounded, WFMin, Zenon
<1>2. \A y \in T : <<y, x>> \in Nat \X Nat
  OBVIOUS
<1>3. \A y \in T : ~ (y < x)
  BY <1>1, <1>2 DEF OpToRel
<1>4. QED
  BY <1>3

(* The equation f[x] = D[x][f] defines f by recursion if a value depends    *)
(* only on those of lower rank.                                            *)
Recursive(S, R, rank, D) ==
  /\ R # {}
  /\ rank \in [S -> Nat]
  /\ D \in [S -> [[S -> R] -> R]]
  /\ \A x \in S : \A g, h \in [S -> R] :
       (\A y \in S : rank[y] < rank[x] => g[y] = h[y]) => D[x][g] = D[x][h]

(* There is such a function: each is right up to some rank, and agrees up  *)
(* to there with those that are right further up.                          *)
LEMMA Recursion ==
  \A S, R, rank, D :
    Recursive(S, R, rank, D) => \E f \in [S -> R] : \A x \in S : f[x] = D[x][f]
<1> SUFFICES ASSUME NEW S, NEW R, NEW rank, NEW D, Recursive(S, R, rank, D)
             PROVE  \E f \in [S -> R] : \A x \in S : f[x] = D[x][f]
  OBVIOUS
<1> USE DEF Recursive
<1> DEFINE Upto(n) == {g \in [S -> R] : \A x \in S : rank[x] < n => g[x] = D[x][g]}
<1>1. ASSUME NEW n \in Nat, NEW g \in Upto(n)
      PROVE  \E h \in Upto(n + 1) : TRUE
  <2> DEFINE h == [x \in S |-> D[x][g]]
  <2>1. h \in [S -> R]
    OBVIOUS
  <2>2. \A x \in S : rank[x] < n => h[x] = g[x]
    BY <1>1
  <2>3. ASSUME NEW x \in S, rank[x] < n + 1
        PROVE  h[x] = D[x][h]
    <3>1. rank[x] \in Nat /\ \A y \in S : rank[y] \in Nat
      OBVIOUS
    <3>2. \A y \in S : rank[y] < rank[x] => g[y] = h[y]
      BY <2>2, <2>3, <3>1
    <3>3. g \in [S -> R]
      BY <1>1
    <3>4. D[x][g] = D[x][h]
      BY <2>1, <3>2, <3>3
    <3>5. QED
      BY <3>4
  <2>4. QED
    BY <2>1, <2>3
<1>2. ASSUME NEW n \in Nat, Upto(n) = {}
      PROVE  FALSE
  <2> DEFINE T == {m \in Nat : Upto(m) = {}}
  <2>1. T \in SUBSET Nat /\ T # {}
    BY <1>2
  <2>2. PICK m \in T : \A k \in T : m <= k
    <3> HIDE DEF T
    <3>1. QED
      BY <2>1, Least
  <2>3. CASE m = 0
    <3>1. PICK r \in R : TRUE
      OBVIOUS
    <3>2. [x \in S |-> r] \in Upto(0)
      <4>1. \A x \in S : rank[x] \in Nat
        OBVIOUS
      <4>2. \A x \in S : ~ (rank[x] < 0)
        BY <4>1
      <4>3. QED
        BY <4>2
    <3>3. QED
      BY <2>2, <2>3, <3>2
  <2>4. CASE m # 0
    <3>1. m - 1 \in Nat /\ m - 1 \notin T /\ m = (m - 1) + 1
      <4> HIDE DEF T
      <4>1. m \in Nat
        BY <2>1, <2>2
      <4>2. QED
        BY <2>2, <2>4, <4>1
    <3>2. PICK g : g \in Upto(m - 1)
      BY <3>1
    <3> HIDE DEF Upto
    <3>3. \E h \in Upto((m - 1) + 1) : TRUE
      BY <1>1, <3>1, <3>2
    <3>4. QED
      BY <2>2, <3>1, <3>3
  <2>5. QED
    BY <2>3, <2>4
<1>3. ASSUME NEW n \in Nat, NEW m \in Nat, NEW g \in Upto(n), NEW h \in Upto(m),
             NEW x \in S, rank[x] < n, rank[x] < m
      PROVE  g[x] = h[x]
  <2> DEFINE T == {k \in Nat : \E y \in S : rank[y] = k /\ k < n /\ k < m /\ g[y] # h[y]}
  <2> SUFFICES ASSUME g[x] # h[x] PROVE FALSE
    OBVIOUS
  <2>1. rank[x] \in T
    BY <1>3
  <2>2. PICK k \in T : \A l \in T : k <= l
    <3>1. T \in SUBSET Nat /\ T # {}
      BY <2>1
    <3> HIDE DEF T
    <3>2. QED
      BY <3>1, Least
  <2>3. PICK y \in S : rank[y] = k /\ k < n /\ k < m /\ g[y] # h[y]
    BY <2>2
  <2>4. \A z \in S : rank[z] \in Nat
    OBVIOUS
  <2>5. ASSUME NEW z \in S, rank[z] < rank[y]
        PROVE  g[z] = h[z]
    <3>1. rank[z] < k /\ rank[z] \in Nat /\ k \in Nat /\ rank[z] < n /\ rank[z] < m
      BY <2>2, <2>3, <2>4, <2>5
    <3>2. rank[z] \notin T
      <4> HIDE DEF T
      <4>1. QED
        BY <2>2, <3>1
    <3>3. QED
      BY <3>1, <3>2
  <2>6. g \in [S -> R] /\ h \in [S -> R] /\ g[y] = D[y][g] /\ h[y] = D[y][h]
    BY <1>3, <2>3
  <2>7. D[y][g] = D[y][h]
    BY <2>5, <2>6
  <2>8. QED
    BY <2>3, <2>6, <2>7
<1> DEFINE Above(x) == CHOOSE g : g \in Upto(rank[x] + 1)
<1>4. \A x \in S : rank[x] \in Nat /\ rank[x] + 1 \in Nat /\ rank[x] < rank[x] + 1
  OBVIOUS
<1>5. ASSUME NEW x \in S
      PROVE  Above(x) \in Upto(rank[x] + 1)
  <2> HIDE DEF Upto
  <2>1. \E g : g \in Upto(rank[x] + 1)
    BY <1>2, <1>4
  <2>2. QED
    BY <2>1
<1> DEFINE f == [x \in S |-> Above(x)[x]]
<1>6. f \in [S -> R]
  <2> HIDE DEF Above
  <2>1. \A x \in S : Above(x) \in [S -> R]
    BY <1>5
  <2>2. QED
    BY <2>1
<1>7. ASSUME NEW x \in S
      PROVE  f[x] = D[x][f]
  <2> DEFINE g == Above(x)
  <2>1. g \in Upto(rank[x] + 1)
    BY <1>5
  <2>2. g \in [S -> R] /\ g[x] = D[x][g]
    <3> HIDE DEF g
    <3>1. QED
      BY <1>4, <2>1
  <2>3. ASSUME NEW y \in S, rank[y] < rank[x]
        PROVE  f[y] = g[y]
    <3>1. Above(y) \in Upto(rank[y] + 1)
      BY <1>5
    <3>2. rank[y] \in Nat /\ rank[x] \in Nat /\ rank[y] < rank[y] + 1 /\ rank[y] < rank[x] + 1
      BY <1>4, <2>3
    <3>3. Above(y)[y] = g[y]
      <4> HIDE DEF Upto, Above, g
      <4>1. rank[y] + 1 \in Nat /\ rank[x] + 1 \in Nat
        BY <1>4
      <4>2. QED
        BY <1>3, <2>1, <3>1, <3>2, <4>1
    <3>4. QED
      BY <3>3
  <2>4. f[x] = g[x]
    OBVIOUS
  <2> HIDE DEF f, g
  <2>5. D[x][f] = D[x][g]
    BY <1>6, <2>2, <2>3
  <2>6. QED
    BY <2>2, <2>4, <2>5
<1>8. QED
  <2> HIDE DEF f
  <2>1. QED
    BY <1>6, <1>7

(* Induction over what has a rank, for a set of which it is to be shown    *)
(* that it is everything.                                                  *)
LEMMA RankInduction ==
  \A S, rank, T :
    /\ rank \in [S -> Nat] /\ T \subseteq S
    /\ \A x \in S : (\A y \in S : rank[y] < rank[x] => y \in T) => x \in T
    => S = T
<1> SUFFICES ASSUME NEW S, NEW rank \in [S -> Nat], NEW T \in SUBSET S,
                    \A x \in S : (\A y \in S : rank[y] < rank[x] => y \in T) => x \in T,
                    S # T
             PROVE  FALSE
  OBVIOUS
<1> DEFINE Ranks == {rank[x] : x \in S \ T}
<1>1. Ranks \in SUBSET Nat /\ Ranks # {}
  OBVIOUS
<1>2. PICK n \in Ranks : \A m \in Ranks : n <= m
  <2> HIDE DEF Ranks
  <2>1. QED
    BY <1>1, Least
<1>3. PICK x \in S \ T : rank[x] = n
  BY <1>2
<1>4. ASSUME NEW y \in S, rank[y] < rank[x]
      PROVE  y \in T
  <2>1. rank[y] \in Nat /\ n \in Nat /\ rank[y] < n
    BY <1>1, <1>2, <1>3, <1>4
  <2>2. rank[y] \notin Ranks
    <3> HIDE DEF Ranks
    <3>1. QED
      BY <1>2, <2>1
  <2>3. QED
    BY <2>2
<1>5. QED
  BY <1>3, <1>4

-----------------------------------------------------------------------------
(* The table of the merges, applied from the root down by such a recursion. *)

(* Every cell says nothing, or 0 or 1 in its rank.                         *)
IsColumn(column, height) ==
  \A d \in 0..(height - 1), a \in {0, 1} : column[d][a] \in {Unset, Cell(0, a), Cell(1, a)}

(* Cells that differ in a field differ.                                    *)
LEMMA Cells ==
  /\ \A v, x : Cell(v, x).val = v /\ Cell(v, x).admin = x
  /\ Unset.val = -1 /\ Unset.admin = 0 /\ Error.val = -2
  /\ \A x : \A v \in {0, 1} : Cell(v, x) # Unset /\ Cell(v, x) # Error
  /\ Unset # Error
<1>1. \A v, x : Cell(v, x).val = v /\ Cell(v, x).admin = x
  BY DEF Cell
<1>2. Unset.val = -1 /\ Unset.admin = 0 /\ Error.val = -2
  BY DEF Unset, Error, Cell
<1> HIDE DEF Unset, Error, Cell
<1>3. QED
  BY <1>1, <1>2

(* The rows of the table, one fact for each.                               *)
LEMMA Rows ==
  ASSUME NEW normal, NEW admin
  PROVE  /\ Effect(Error, normal, admin) = Error
         /\ Effect(Unset, Unset, Unset) = Unset
         /\ \A v \in {0, 1} : Effect(Unset, normal, Cell(v, 1)) = Cell(v, 1)
         /\ \A v \in {0, 1} : Effect(Unset, Cell(v, 0), Unset) = Cell(v, 0)
         /\ \A u \in {0, 1} : Effect(Cell(u, 1), normal, Unset) = Cell(u, 1)
         /\ \A u, v \in {0, 1} :
              Effect(Cell(u, 1), normal, Cell(v, 1)) = IF v = 1 /\ u = 0 THEN Error ELSE Cell(v, 1)
         /\ \A u, v \in {0, 1} : Effect(Cell(u, 0), normal, Cell(v, 1)) = Cell(v, 1)
         /\ \A u \in {0, 1} : Effect(Cell(u, 0), Unset, Unset) = Cell(u, 0)
         /\ \A u, v \in {0, 1} :
              Effect(Cell(u, 0), Cell(v, 0), Unset) = IF v = 1 /\ u = 0 THEN Error ELSE Cell(v, 0)
<1>1. /\ \A x : Cell(0, x) # Unset /\ Cell(1, x) # Unset /\ Cell(0, x) # Error /\ Cell(1, x) # Error
      /\ Unset # Error /\ Unset.admin = 0 /\ Unset.val = -1
      /\ \A v, x : Cell(v, x).val = v /\ Cell(v, x).admin = x
  BY Cells
<1>2. Effect(Error, normal, admin) = Error
  BY DEF Effect
<1>3. Effect(Unset, Unset, Unset) = Unset
  BY <1>1 DEF Effect
<1>4. \A v \in {0, 1} : Effect(Unset, normal, Cell(v, 1)) = Cell(v, 1)
  BY <1>1 DEF Effect
<1>5. \A v \in {0, 1} : Effect(Unset, Cell(v, 0), Unset) = Cell(v, 0)
  BY <1>1 DEF Effect
<1>6. \A u \in {0, 1} : Effect(Cell(u, 1), normal, Unset) = Cell(u, 1)
  BY <1>1 DEF Effect
<1>7. \A u, v \in {0, 1} :
        Effect(Cell(u, 1), normal, Cell(v, 1)) = IF v = 1 /\ u = 0 THEN Error ELSE Cell(v, 1)
  BY <1>1 DEF Effect
<1>8. \A u, v \in {0, 1} : Effect(Cell(u, 0), normal, Cell(v, 1)) = Cell(v, 1)
  BY <1>1 DEF Effect
<1>9. \A u \in {0, 1} : Effect(Cell(u, 0), Unset, Unset) = Cell(u, 0)
  BY <1>1 DEF Effect
<1>10. \A u, v \in {0, 1} :
        Effect(Cell(u, 0), Cell(v, 0), Unset) = IF v = 1 /\ u = 0 THEN Error ELSE Cell(v, 0)
  BY <1>1 DEF Effect
<1>11. QED
  BY <1>2, <1>3, <1>4, <1>5, <1>6, <1>7, <1>8, <1>9, <1>10

(* The table, from the root down, by the recursion that defines it.        *)
LEMMA EffectFromIs ==
  ASSUME NEW height \in Nat, NEW column, IsColumn(column, height)
  PROVE  /\ EffectFrom(column, height)[0] = Unset
         /\ \A n \in 1..height :
              EffectFrom(column, height)[n] =
                Effect(EffectFrom(column, height)[n - 1], column[height - n][0], column[height - n][1])
<1> DEFINE S == 0..height
           Next0(p, n) == Effect(p, column[height - n][0], column[height - n][1])
           Body(n, g) == IF n = 0 THEN Unset ELSE Next0(g[n - 1], n)
           R == {Unset, Error} \cup {Cell(v, a) : v \in {0, 1}, a \in {0, 1}}
           rank == [n \in S |-> n]
           D == [n \in S |-> [g \in [S -> R] |-> Body(n, g)]]
<1>1. \A p \in R, n \in S \ {0} : Next0(p, n) \in R
  <2>1. \A p, m, a : p = Error \/ p.admin \in {0, 1} => Effect(p, m, a) \in {Error, p, m, a}
    BY DEF Effect
  <2>2. \A p \in R : p = Error \/ p.admin \in {0, 1}
    BY Cells
  <2>3. \A n \in S \ {0} : column[height - n][0] \in R /\ column[height - n][1] \in R
    <3>1. \A n \in S \ {0} : height - n \in 0..(height - 1)
      OBVIOUS
    <3>2. QED
      BY <3>1 DEF IsColumn
  <2>4. Error \in R
    OBVIOUS
  <2> HIDE DEF R, S
  <2>5. QED
    BY <2>1, <2>3, <2>4, <2>2
<1> HIDE DEF Next0
<1>2. rank \in [S -> Nat] /\ \A n \in S : rank[n] = n /\ n \in Nat /\ (n # 0 => n - 1 \in S)
  OBVIOUS
<1>3. Unset \in R
  OBVIOUS
<1> HIDE DEF R
<1>4. D \in [S -> [[S -> R] -> R]]
  <2>1. \A n \in S, g \in [S -> R] : Body(n, g) \in R
    <3> HIDE DEF S
    <3>1. QED
      BY <1>1, <1>2, <1>3
  <2> HIDE DEF Body, S
  <2>2. QED
    BY <2>1
<1>5. ASSUME NEW n \in S, NEW f \in [S -> R], NEW g \in [S -> R],
             \A j \in S : rank[j] < rank[n] => f[j] = g[j]
      PROVE  D[n][f] = D[n][g]
  <2>1. n # 0 => n - 1 \in S /\ rank[n - 1] < rank[n]
    OBVIOUS
  <2>2. n # 0 => f[n - 1] = g[n - 1]
    BY <1>5, <2>1
  <2>3. Body(n, f) = Body(n, g)
    BY <2>2
  <2> HIDE DEF Body, S
  <2>4. QED
    BY <2>3
<1>6. PICK f \in [S -> R] : \A n \in S : f[n] = D[n][f]
  <2>1. \A n \in S : \A f, g \in [S -> R] :
          (\A j \in S : rank[j] < rank[n] => f[j] = g[j]) => D[n][f] = D[n][g]
    <3> HIDE DEF D, rank, S
    <3>1. QED
      BY <1>5
  <2>2. rank \in [S -> Nat] /\ R # {}
    BY <1>2, <1>3
  <2> HIDE DEF S, rank, D
  <2>3. Recursive(S, R, rank, D)
    BY <1>4, <2>1, <2>2 DEF Recursive
  <2>4. QED
    BY <2>3, Recursion
<1>7. f = [n \in S |-> Body(n, f)]
  <2> HIDE DEF Body, S
  <2>1. \A n \in S : f[n] = Body(n, f)
    BY <1>6
  <2>2. QED
    BY <2>1
<1>8. EffectFrom(column, height) = [n \in S |-> Body(n, EffectFrom(column, height))]
  BY <1>7, Zenon DEF EffectFrom, Next0
<1> DEFINE e == EffectFrom(column, height)
<1> HIDE DEF e
<1>9. e = [n \in S |-> Body(n, e)]
  BY <1>8, Zenon DEF e
<1>10. \A n \in S : e[n] = Body(n, e)
  <2> HIDE DEF Body, S
  <2>1. QED
    BY <1>9
<1>11. 0 \in S /\ \A n \in 1..height : n \in S /\ n # 0
  OBVIOUS
<1>12. QED
  BY <1>10, <1>11 DEF e, Next0

(* From depth low on, the configuration at d and a prevails.               *)
Leads(column, height, low, d, a) ==
  /\ d \in low..(height - 1) /\ a \in {0, 1} /\ Speaks(column, d, a)
  /\ \A e \in low..(height - 1), b \in {0, 1} :
       Speaks(column, e, b) => b < a \/ (b = a /\ d <= e)

ConflictFrom(column, height, low) ==
  \E c, d \in low..(height - 1), a \in {0, 1} : Conflict(column, height, c, d, a)

(* What the table says of the nodes from depth low on: ERROR exactly if    *)
(* they are in conflict, or else what the configuration that prevails says. *)
Tells(column, height, low) ==
  LET effect == EffectFrom(column, height)[height - low] IN
  \/ effect = Error /\ ConflictFrom(column, height, low)
  \/ /\ effect = Unset /\ ~ ConflictFrom(column, height, low)
     /\ \A e \in low..(height - 1), b \in {0, 1} : ~ Speaks(column, e, b)
  \/ /\ ~ ConflictFrom(column, height, low)
     /\ \E d \in low..(height - 1), a \in {0, 1} :
          Leads(column, height, low, d, a) /\ effect = column[d][a]

(* It says it of one node more.                                            *)
LEMMA TellsOnward ==
  ASSUME NEW height \in Nat, NEW column, IsColumn(column, height),
         NEW low \in 0..(height - 1), Tells(column, height, low + 1)
  PROVE  Tells(column, height, low)
<1> DEFINE parent == EffectFrom(column, height)[height - (low + 1)]
           effect == EffectFrom(column, height)[height - low]
           normal == column[low][0]
           admin == column[low][1]
           Rest == (low + 1)..(height - 1)
           From == low..(height - 1)
<1>1. /\ low \in From /\ From \subseteq 0..(height - 1) /\ Rest \subseteq From
      /\ From = Rest \cup {low} /\ low \notin Rest
      /\ \A d \in Rest : low < d /\ d \in Int /\ ~ (d <= low) /\ ~ (d < low)
      /\ low \in Int
  OBVIOUS
<1>2. effect = Effect(parent, normal, admin)
  <2>1. height - low \in 1..height /\ height - (height - low) = low
        /\ (height - low) - 1 = height - (low + 1)
    OBVIOUS
  <2>2. \A n \in 1..height :
          EffectFrom(column, height)[n] =
            Effect(EffectFrom(column, height)[n - 1], column[height - n][0], column[height - n][1])
    BY EffectFromIs
  <2>3. EffectFrom(column, height)[height - low] =
          Effect(EffectFrom(column, height)[(height - low) - 1],
                 column[height - (height - low)][0], column[height - (height - low)][1])
    BY <2>1, <2>2
  <2>4. QED
    BY <2>1, <2>3
<1>3. \A d \in From, a \in {0, 1} : column[d][a] \in {Unset, Cell(0, a), Cell(1, a)}
  BY <1>1 DEF IsColumn
<1>4. \A d \in From, a \in {0, 1} :
        /\ column[d][a] = Unset \/ column[d][a] = Cell(0, a) \/ column[d][a] = Cell(1, a)
        /\ Speaks(column, d, a) <=> column[d][a] # Unset
        /\ Grants(column, d, a) <=> column[d][a] = Cell(1, a)
        /\ Drops(column, d, a) <=> column[d][a] = Cell(0, a)
  BY <1>3, Cells DEF Speaks, Grants, Drops
<1>5. Cell(0, 0) # Cell(1, 0) /\ Cell(0, 1) # Cell(1, 1)
  BY Cells
<1>6. \A c, d \in From, a \in {0, 1} :
        Conflict(column, height, c, d, a) <=>
          /\ c < d /\ Grants(column, c, a) /\ Drops(column, d, a)
          /\ a = 0 => \A e \in c..(height - 1) : ~ Speaks(column, e, 1)
  BY DEF Conflict
<1>7. ConflictFrom(column, height, low) <=>
        \/ ConflictFrom(column, height, low + 1)
        \/ \E d \in Rest, a \in {0, 1} : Conflict(column, height, low, d, a)
  <2>1. \A c \in From, a \in {0, 1} : ~ Conflict(column, height, c, low, a)
    BY <1>1 DEF Conflict
  <2> HIDE DEF Rest, From
  <2>2. ConflictFrom(column, height, low) <=>
          \E c, d \in From, a \in {0, 1} : Conflict(column, height, c, d, a)
    BY DEF ConflictFrom, From
  <2>3. ConflictFrom(column, height, low + 1) <=>
          \E c, d \in Rest, a \in {0, 1} : Conflict(column, height, c, d, a)
    BY DEF ConflictFrom, Rest
  <2>4. QED
    BY <1>1, <2>1, <2>2, <2>3
<1>8. /\ normal = Unset \/ normal = Cell(0, 0) \/ normal = Cell(1, 0)
      /\ admin = Unset \/ admin = Cell(0, 1) \/ admin = Cell(1, 1)
      /\ \A v \in {0, 1}, a \in {0, 1} : Cell(v, a) # Unset
  BY <1>1, <1>4, Cells
<1> HIDE DEF parent, effect, normal, admin
<1>9. ASSUME NEW d \in From, NEW a \in {0, 1}, Leads(column, height, low, d, a),
             effect = column[d][a],
             ~ ConflictFrom(column, height, low + 1),
             \A e \in Rest, b \in {0, 1} : ~ Conflict(column, height, low, e, b)
      PROVE  Tells(column, height, low)
  BY <1>7, <1>9 DEF Tells, effect
<1>10. CASE parent = Error /\ ConflictFrom(column, height, low + 1)
  <2>1. effect = Error
    BY <1>2, <1>10, Rows
  <2>2. QED
    BY <1>7, <1>10, <2>1 DEF Tells, effect
<1>11. CASE /\ parent = Unset /\ ~ ConflictFrom(column, height, low + 1)
            /\ \A e \in Rest, b \in {0, 1} : ~ Speaks(column, e, b)
  <2>1. \A e \in Rest, b \in {0, 1} : ~ Conflict(column, height, low, e, b)
    BY <1>1, <1>4, <1>8, <1>11 DEF Conflict
  <2>2. CASE admin # Unset
    <3>1. effect = admin
      BY <1>2, <1>8, <1>11, <2>2, Rows
    <3>2. Leads(column, height, low, low, 1)
      BY <1>1, <1>4, <1>11, <2>2 DEF Leads, admin
    <3>3. QED
      BY <1>1, <1>9, <1>11, <2>1, <3>1, <3>2 DEF admin
  <2>3. CASE admin = Unset /\ normal # Unset
    <3>1. effect = normal
      BY <1>2, <1>8, <1>11, <2>3, Rows
    <3>2. Leads(column, height, low, low, 0)
      BY <1>1, <1>4, <1>11, <2>3 DEF Leads, admin, normal
    <3>3. QED
      BY <1>1, <1>9, <1>11, <2>1, <3>1, <3>2 DEF normal
  <2>4. CASE admin = Unset /\ normal = Unset
    <3>1. effect = Unset
      BY <1>2, <1>11, <2>4, Rows
    <3>2. \A e \in From, b \in {0, 1} : ~ Speaks(column, e, b)
      BY <1>1, <1>4, <1>11, <2>4 DEF admin, normal
    <3>3. QED
      BY <1>7, <1>11, <2>1, <3>1, <3>2 DEF Tells, effect
  <2>5. QED
    BY <2>2, <2>3, <2>4
<1>12. ASSUME NEW d \in Rest, NEW a \in {0, 1}, Leads(column, height, low + 1, d, a),
              parent = column[d][a], ~ ConflictFrom(column, height, low + 1)
       PROVE  Tells(column, height, low)
  <2>1. PICK u \in {0, 1} : parent = Cell(u, a)
    BY <1>1, <1>4, <1>12 DEF Leads
  <2>2. \A e \in Rest, b \in {0, 1} : Speaks(column, e, b) => b < a \/ (b = a /\ d <= e)
    BY <1>12 DEF Leads
  <2>3. a = 0 => \A e \in Rest : ~ Speaks(column, e, 1)
    BY <2>2
  <2>4. u = 1 => \A e \in Rest : ~ Drops(column, e, a)
    <3> SUFFICES ASSUME u = 1, NEW e \in Rest, Drops(column, e, a) PROVE FALSE
      OBVIOUS
    <3>1. Grants(column, d, a) /\ column[e][a] = Cell(0, a)
      BY <1>1, <1>4, <1>12, <2>1
    <3>2. d < e
      <4>1. d <= e
        BY <1>1, <1>4, <1>8, <2>2, <3>1
      <4>2. d # e
        BY <1>1, <1>4, <1>5, <3>1
      <4>3. QED
        BY <1>1, <4>1, <4>2
    <3>3. a = 0 => \A f \in d..(height - 1) : ~ Speaks(column, f, 1)
      <4>1. \A f \in d..(height - 1) : f \in Rest
        OBVIOUS
      <4>2. QED
        BY <2>3, <4>1
    <3>4. Conflict(column, height, d, e, a)
      BY <3>1, <3>2, <3>3 DEF Conflict
    <3>5. QED
      BY <1>12, <3>4 DEF ConflictFrom
  <2>5. \A e \in low..(height - 1) : e \in Rest \/ e = low
    OBVIOUS
  <2>6. CASE admin # Unset
    <3>1. PICK v \in {0, 1} : admin = Cell(v, 1)
      BY <1>8, <2>6
    <3>2. Leads(column, height, low, low, 1)
      BY <1>1, <1>4, <2>6 DEF Leads, admin
    <3>3. \A e \in Rest : ~ Conflict(column, height, low, e, 0)
      BY <1>1, <1>4, <2>6 DEF Conflict, admin
    <3>4. CASE a = 1 /\ v = 1 /\ u = 0
      <4>1. effect = Error
        BY <1>2, <2>1, <3>1, <3>4, Rows
      <4>2. Conflict(column, height, low, d, 1)
        <5>1. Grants(column, low, 1)
          BY <1>1, <1>4, <3>1, <3>4 DEF admin
        <5>2. Drops(column, d, 1)
          BY <1>1, <1>4, <1>12, <2>1, <3>4
        <5>3. QED
          BY <1>1, <5>1, <5>2 DEF Conflict
      <4>3. QED
        BY <1>7, <3>4, <4>1, <4>2 DEF Tells, effect
    <3>5. CASE a = 1 /\ ~ (v = 1 /\ u = 0)
      <4>1. effect = admin
        BY <1>2, <2>1, <3>1, <3>5, Rows
      <4>2. \A e \in Rest : ~ Conflict(column, height, low, e, 1)
        BY <1>1, <1>4, <1>5, <2>4, <3>1, <3>5 DEF Conflict, admin
      <4>3. QED
        BY <1>1, <1>9, <1>12, <3>2, <3>3, <4>1, <4>2 DEF admin
    <3>6. CASE a = 0
      <4>1. effect = admin
        BY <1>2, <2>1, <3>1, <3>6, Rows
      <4>2. \A e \in Rest : ~ Conflict(column, height, low, e, 1)
        BY <1>1, <1>4, <1>8, <2>3, <3>6 DEF Conflict
      <4>3. QED
        BY <1>1, <1>9, <1>12, <3>2, <3>3, <4>1, <4>2 DEF admin
    <3>7. QED
      BY <3>4, <3>5, <3>6
  <2>7. CASE admin = Unset /\ (a = 1 \/ normal = Unset)
    <3>1. effect = parent
      BY <1>2, <2>1, <2>7, Rows
    <3>2. Leads(column, height, low, d, a)
      <4>1. ~ Speaks(column, low, 1) /\ (a = 1 \/ ~ Speaks(column, low, 0))
        BY <1>1, <1>4, <2>7 DEF admin, normal
      <4>2. \A e \in From, b \in {0, 1} : Speaks(column, e, b) => b < a \/ (b = a /\ d <= e)
        BY <1>1, <2>2, <4>1
      <4>3. QED
        BY <1>1, <1>12, <4>2 DEF Leads
    <3>3. \A e \in Rest, b \in {0, 1} : ~ Conflict(column, height, low, e, b)
      <4>1. ~ Grants(column, low, 1)
        BY <1>1, <1>4, <1>8, <2>7 DEF admin
      <4>2. a = 0 => ~ Grants(column, low, 0)
        BY <1>1, <1>4, <1>8, <2>7 DEF normal
      <4>3. a = 1 => d \in low..(height - 1) /\ Speaks(column, d, 1)
        BY <1>1, <1>12 DEF Leads
      <4>4. QED
        BY <4>1, <4>2, <4>3 DEF Conflict
    <3>4. QED
      BY <1>1, <1>9, <1>12, <3>1, <3>2, <3>3
  <2>8. CASE admin = Unset /\ a = 0 /\ normal # Unset
    <3>1. PICK v \in {0, 1} : normal = Cell(v, 0)
      BY <1>8, <2>8
    <3>2. effect = IF v = 1 /\ u = 0 THEN Error ELSE normal
      BY <1>2, <2>1, <2>8, <3>1, Rows
    <3>3. \A e \in low..(height - 1) : ~ Speaks(column, e, 1)
      BY <1>1, <1>4, <2>3, <2>5, <2>8 DEF admin
    <3>4. CASE v = 1 /\ u = 0
      <4>1. Conflict(column, height, low, d, 0)
        BY <1>1, <1>4, <1>12, <2>1, <2>8, <3>1, <3>3, <3>4 DEF Conflict, normal
      <4>2. QED
        BY <1>7, <3>2, <3>4, <4>1 DEF Tells, effect
    <3>5. CASE ~ (v = 1 /\ u = 0)
      <4>1. Leads(column, height, low, low, 0)
        <5>1. \A e \in From, b \in {0, 1} : Speaks(column, e, b) => b = 0 /\ low <= e
          BY <1>1, <3>3
        <5>2. Speaks(column, low, 0)
          BY <1>1, <1>4, <2>8 DEF normal
        <5>3. QED
          BY <1>1, <5>1, <5>2 DEF Leads
      <4>2. \A e \in Rest, b \in {0, 1} : ~ Conflict(column, height, low, e, b)
        <5>1. ~ Grants(column, low, 1)
          BY <1>1, <1>4, <1>8, <2>8 DEF admin
        <5>2. Grants(column, low, 0) => v = 1
          BY <1>1, <1>4, <1>5, <3>1 DEF normal
        <5>3. QED
          BY <2>4, <2>8, <3>5, <5>1, <5>2 DEF Conflict
      <4>3. QED
        BY <1>1, <1>9, <1>12, <3>2, <3>5, <4>1, <4>2 DEF normal
    <3>6. QED
      BY <3>4, <3>5
  <2>9. QED
    BY <2>6, <2>7, <2>8
<1>13. QED
  BY <1>10, <1>11, <1>12 DEF Tells, parent

(* It says it of the whole family.                                         *)
LEMMA TableTells ==
  ASSUME NEW height \in Nat, NEW column, IsColumn(column, height)
  PROVE  Tells(column, height, 0) /\ EffectOf(column, height) = EffectFrom(column, height)[height - 0]
<1> DEFINE S == 0..height
           T == {low \in S : Tells(column, height, low)}
           rank == [low \in S |-> height - low]
<1>1. rank \in [S -> Nat] /\ T \subseteq S /\ 0 \in S /\ height - 0 = height
  OBVIOUS
<1>2. ASSUME NEW low \in S, \A y \in S : rank[y] < rank[low] => y \in T
      PROVE  low \in T
  <2>1. CASE low = height
    <3>1. EffectFrom(column, height)[height - low] = Unset
      BY <2>1, EffectFromIs
    <3>2. low..(height - 1) = {}
      BY <2>1
    <3>3. Tells(column, height, low)
      BY <3>1, <3>2 DEF Tells, ConflictFrom
    <3>4. QED
      BY <3>3
  <2>2. CASE low # height
    <3>1. low \in 0..(height - 1) /\ low + 1 \in S /\ rank[low + 1] < rank[low]
      BY <2>2
    <3>2. Tells(column, height, low + 1)
      BY <1>2, <3>1
    <3>3. Tells(column, height, low)
      BY <3>1, <3>2, TellsOnward
    <3>4. QED
      BY <3>3
  <2>3. QED
    BY <2>1, <2>2
<1>3. S = T
  <2>1. \A x \in S : (\A y \in S : rank[y] < rank[x] => y \in T) => x \in T
    <3> HIDE DEF S, T, rank
    <3>1. QED
      BY <1>2
  <2> HIDE DEF S, T, rank
  <2>2. QED
    BY <1>1, <2>1, RankInduction
<1>4. QED
  BY <1>1, <1>3 DEF EffectOf

(* So ERROR marks the families that have a conflict, and the others get    *)
(* what their prevailing configuration says.                               *)
LEMMA TableMeans ==
  ASSUME NEW height \in Nat, NEW column, IsColumn(column, height)
  PROVE  /\ EffectOf(column, height) = Error <=>
              \E c, d \in 0..(height - 1), a \in {0, 1} : Conflict(column, height, c, d, a)
         /\ EffectOf(column, height) # Error =>
              \/ /\ EffectOf(column, height) = Unset
                 /\ \A e \in 0..(height - 1), b \in {0, 1} : ~ Speaks(column, e, b)
              \/ \E d \in 0..(height - 1), a \in {0, 1} :
                   /\ Leads(column, height, 0, d, a)
                   /\ EffectOf(column, height) = column[d][a]
<1>1. \A d \in 0..(height - 1), a \in {0, 1} : column[d][a] # Error
  BY Cells DEF IsColumn
<1>2. Unset # Error
  BY Cells
<1>3. QED
  BY <1>1, <1>2, TableTells DEF Tells, ConflictFrom
=============================================================================
