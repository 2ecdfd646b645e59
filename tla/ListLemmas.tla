------------------------------ MODULE ListLemmas -------------------------------
(***************************************************************************)
(* Induction on the naturals, functions by recursion, and what Pick        *)
(* returns.                                                                *)
(*                                                                         *)
(* Induction is had from the well-foundedness of the strict subsets of     *)
(* finite sets: of the intervals 0..n whose n is not in a set, there is a  *)
(* smallest one.                                                           *)
(***************************************************************************)
EXTENDS Lists, Integers, FiniteSets, FiniteSetTheorems, WellFoundedInduction, TLAPS

\* A set with 0 and the successor of every member holds every natural number.
LEMMA SetInduction ==
    ASSUME NEW S \in SUBSET Nat, 0 \in S, \A n \in S : n + 1 \in S
    PROVE  S = Nat
<1>1. SUFFICES ASSUME NEW m \in Nat \ S PROVE FALSE
    OBVIOUS
<1> DEFINE T == {0..n : n \in Nat \ S}
<1>2. T \subseteq FiniteSubsetsOf(Nat) /\ T # {}
  <2>1. \A n \in Nat : IsFiniteSet(0..n)
      BY FS_Interval
  <2> QED
      BY <2>1 DEF FiniteSubsetsOf
<1>3. PICK U \in T : \A V \in T : ~(<<V, U>> \in StrictSubsetOrdering(Nat))
  <2> HIDE DEF T
  <2> QED
      BY <1>2, FS_StrictSubsetOrderingWellFounded, WFMin
<1>4. PICK n \in Nat \ S : U = 0..n
    OBVIOUS
<1>5. n # 0 /\ n - 1 \in Nat /\ n - 1 \notin S
  <2>1. n - 1 \in S => n - 1 + 1 \in S
      OBVIOUS
  <2> QED
      BY <2>1
<1>6. 0..(n - 1) \in T
    BY <1>5
<1>7. 0..(n - 1) \subseteq 0..n /\ 0..(n - 1) # 0..n
  <2>1. n \in 0..n /\ n \notin 0..(n - 1)
      BY <1>5
  <2> QED
      BY <1>5, <2>1
<1>8. <<0..(n - 1), 0..n>> \in StrictSubsetOrdering(Nat)
    BY <1>7, SMTT(30) DEF StrictSubsetOrdering
<1> QED
    BY <1>3, <1>4, <1>6, <1>8

\* A set of natural numbers that is not empty has a smallest member.
LEMMA SmallestExists ==
    ASSUME NEW S \in SUBSET Nat, S # {}
    PROVE  \E i \in S : \A j \in S : i <= j
<1> SUFFICES ASSUME \A i \in S : \E j \in S : j < i PROVE FALSE
    OBVIOUS
<1> DEFINE Below == {n \in Nat : \A j \in S : n < j}
<1>1. 0 \in Below
  <2>1. 0 \notin S
      OBVIOUS
  <2> QED
      BY <2>1
<1>2. ASSUME NEW n \in Below
      PROVE  n + 1 \in Below
  <2>1. n + 1 \notin S
      OBVIOUS
  <2>2. n \in Nat /\ \A j \in S : j \in Nat /\ n < j /\ j # n + 1
      BY <2>1
  <2> QED
      BY <2>2
<1>3. Below = Nat
  <2>1. Below \in SUBSET Nat
      OBVIOUS
  <2> HIDE DEF Below
  <2> QED
      BY <1>1, <1>2, <2>1, SetInduction
<1>4. PICK k \in S : TRUE
    OBVIOUS
<1>5. k \in Below
    BY <1>3
<1> QED
    BY <1>5

(* p is the list's elements at the positions up to n, in their order. *)
Picked(p, list, positions, n) ==
    /\ Len(p) \in Nat /\ DOMAIN p = 1..Len(p)
    /\ \E f \in [1..Len(p) -> positions \cap 1..n] :
          /\ \A i, j \in 1..Len(p) : i < j => f[i] < f[j]
          /\ \A k \in positions \cap 1..n : \E i \in 1..Len(p) : f[i] = k
          /\ \A i \in 1..Len(p) : p[i] = list[f[i]]

(* g is made by recursion: base at 0, and a step F[n] from g[n - 1] to g[n]. *)
Recurs(g, S, base, L, F) ==
    g \in [0..L -> S] /\ g[0] = base /\ \A n \in 1..L : g[n] = F[n][g[n - 1]]

\* A function defined by recursion on 0..L, from a value and steps, exists.
LEMMA StepsExist ==
    ASSUME NEW S, NEW base \in S, NEW L \in Nat, NEW F \in [1..L -> [S -> S]]
    PROVE  \E g : Recurs(g, S, base, L, F)
<1> DEFINE Is(g, n) == /\ g \in [0..n -> S] /\ g[0] = base
                       /\ \A m \in 1..n : g[m] = F[m][g[m - 1]]
           Have == {n \in Nat : n <= L => \E g : Is(g, n)}
<1>1. 0 \in Have
  <2> DEFINE g == [m \in 0..0 |-> base]
  <2>1. (\A m \in 1..0 : FALSE) /\ 0 \in 0..0
      OBVIOUS
  <2>2. g \in [0..0 -> S] /\ g[0] = base
      BY <2>1
  <2> HIDE DEF g
  <2>3. Is(g, 0)
      BY <2>1, <2>2
  <2> HIDE DEF Is
  <2> QED
      BY <2>3
<1>2. ASSUME NEW n \in Nat, n + 1 <= L, NEW g, Is(g, n)
      PROVE  \E h : Is(h, n + 1)
  <2>1. n + 1 \in 1..L /\ n \in 0..n /\ n # n + 1 /\ n + 1 - 1 = n /\ n + 1 # 0
      BY <1>2
  <2>2. g \in [0..n -> S] /\ g[n] \in S
      BY <1>2, <2>1
  <2> DEFINE last == F[n + 1][g[n]]
             h == [m \in 0..(n + 1) |-> IF m = n + 1 THEN last ELSE g[m]]
  <2>3. last \in S
      BY <2>1, <2>2
  <2> HIDE DEF last
  <2>4. h \in [0..(n + 1) -> S] /\ h[n + 1] = last /\ \A m \in 0..n : h[m] = g[m]
      BY <2>2, <2>3
  <2> HIDE DEF h
  <2>5. h[0] = base
      BY <1>2, <2>4
  <2>6. ASSUME NEW m \in 1..(n + 1)
        PROVE  h[m] = F[m][h[m - 1]]
    <3>1. CASE m = n + 1
      <4>1. m - 1 = n /\ h[n] = g[n]
          BY <2>1, <2>4, <3>1
      <4> QED
          BY <2>4, <3>1, <4>1 DEF last
    <3>2. CASE m # n + 1
      <4>1. m \in 1..n /\ m - 1 \in 0..n /\ m \in 0..n
          BY <3>2
      <4>2. h[m] = g[m] /\ h[m - 1] = g[m - 1]
          BY <2>4, <4>1
      <4> QED
          BY <1>2, <4>1, <4>2
    <3> QED
        BY <3>1, <3>2
  <2>7. Is(h, n + 1)
      BY <2>4, <2>5, <2>6
  <2> HIDE DEF Is
  <2> QED
      BY <2>7
<1> HIDE DEF Is
<1>3. ASSUME NEW n \in Have
      PROVE  n + 1 \in Have
  <2>1. n \in Nat /\ (n + 1 <= L => n <= L)
      OBVIOUS
  <2>2. n + 1 <= L => \E g : Is(g, n + 1)
      BY <1>2, <2>1
  <2> QED
      BY <2>1, <2>2
<1>4. Have \in SUBSET Nat
    OBVIOUS
<1>5. Have = Nat
  <2> HIDE DEF Have
  <2> QED
      BY <1>1, <1>3, <1>4, SetInduction
<1>6. \E g : Is(g, L)
  <2>1. L \in Have /\ L <= L
    <3> HIDE DEF Have
    <3> QED
        BY <1>5
  <2> QED
      BY <2>1
<1> QED
    BY <1>6 DEF Is, Recurs

\* The recursive function in Pick exists and is what its equation says.
LEMMA PickUnfolds ==
    ASSUME NEW T, NEW list \in Seq(T), NEW positions
    PROVE  \E g \in [0..Len(list) -> Seq(T)] :
              /\ Pick(list, positions) = g[Len(list)]
              /\ g[0] = << >>
              /\ \A n \in 1..Len(list) :
                    g[n] = IF n \in positions THEN Append(g[n - 1], list[n]) ELSE g[n - 1]
<1> DEFINE L == Len(list)
           S == Seq(T)
           F == [n \in 1..L |-> [s \in S |-> IF n \in positions THEN Append(s, list[n]) ELSE s]]
           Eqn(u) == u = [n \in 0..L |-> IF n = 0 THEN << >>
                              ELSE IF n \in positions THEN Append(u[n - 1], list[n]) ELSE u[n - 1]]
           upTo == CHOOSE u : Eqn(u)
<1>1. L \in Nat /\ L \in 0..L /\ << >> \in Seq(T)
    OBVIOUS
<1>2. ASSUME NEW s \in Seq(T), NEW n \in 1..L
      PROVE  (IF n \in positions THEN Append(s, list[n]) ELSE s) \in Seq(T)
    OBVIOUS
<1>3. F \in [1..L -> [S -> S]]
    BY <1>2
<1>4. \A s \in S, n \in 1..L : F[n][s] = IF n \in positions THEN Append(s, list[n]) ELSE s
    OBVIOUS
<1>5. << >> \in S
    BY <1>1
<1> HIDE DEF F, S, L
<1>6. PICK g : Recurs(g, S, << >>, L, F)
    BY <1>1, <1>3, <1>5, StepsExist
<1>7. Eqn(g)
  <2> DEFINE e == [n \in 0..L |-> IF n = 0 THEN << >>
                      ELSE IF n \in positions THEN Append(g[n - 1], list[n]) ELSE g[n - 1]]
  <2>1. ASSUME NEW n \in 0..L
        PROVE  g[n] = e[n]
    <3>1. CASE n = 0
        BY <1>6, <3>1 DEF Recurs
    <3>2. CASE n # 0
      <4>1. n \in 1..L /\ g[n - 1] \in S
          BY <1>1, <1>6, <3>2 DEF Recurs
      <4>2. g[n] = IF n \in positions THEN Append(g[n - 1], list[n]) ELSE g[n - 1]
          BY <1>4, <1>6, <4>1 DEF Recurs
      <4> QED
          BY <3>2, <4>2
    <3> QED
        BY <3>1, <3>2
  <2> QED
      BY <1>6, <2>1 DEF Recurs
<1>8. Eqn(upTo)
  <2> HIDE DEF Eqn
  <2> QED
      BY <1>7
<1>9. Pick(list, positions) = upTo[L]
    BY DEF Pick, L
<1> HIDE DEF upTo
<1>10. /\ upTo[0] = << >>
       /\ \A n \in 1..L : upTo[n] = IF n \in positions THEN Append(upTo[n - 1], list[n]) ELSE upTo[n - 1]
  <2> DEFINE u == upTo
  <2>1. Eqn(u)
      BY <1>8
  <2> HIDE DEF u
  <2>2. \A n \in 0..L : u[n] = IF n = 0 THEN << >>
                    ELSE IF n \in positions THEN Append(u[n - 1], list[n]) ELSE u[n - 1]
      BY <2>1
  <2>3. 0 \in 0..L /\ \A n \in 1..L : n \in 0..L /\ n # 0
      BY <1>1
  <2> QED
      BY <2>2, <2>3 DEF u
<1> DEFINE Good == {n \in Nat : n <= L => upTo[n] \in S}
<1>11. Good = Nat
  <2>1. 0 \in Good
      BY <1>5, <1>10
  <2>2. ASSUME NEW n \in Good
        PROVE  n + 1 \in Good
    <3>1. n \in Nat /\ (n <= L => upTo[n] \in S)
        OBVIOUS
    <3>2. SUFFICES ASSUME n + 1 <= L PROVE upTo[n + 1] \in S
        BY <3>1
    <3>3. n + 1 \in 1..L /\ n + 1 - 1 = n /\ upTo[n] \in Seq(T)
        BY <1>1, <3>1, <3>2 DEF S
    <3>4. upTo[n + 1] = IF n + 1 \in positions THEN Append(upTo[n], list[n + 1]) ELSE upTo[n]
        BY <1>10, <3>3
    <3> QED
        BY <1>2, <3>3, <3>4 DEF S
  <2>3. Good \in SUBSET Nat
      OBVIOUS
  <2> HIDE DEF Good
  <2> QED
      BY <2>1, <2>2, <2>3, SetInduction
<1>12. \A n \in 0..L : n \in Good /\ n <= L
  <2> HIDE DEF Good
  <2> QED
      BY <1>1, <1>11
<1>13. upTo \in [0..L -> S]
  <2>1. \A n \in 0..L : upTo[n] \in S
      BY <1>12
  <2>2. upTo = [n \in 0..L |-> upTo[n]]
    <3> DEFINE u == upTo
    <3>1. Eqn(u)
        BY <1>8
    <3> HIDE DEF u
    <3> QED
        BY <3>1 DEF u
  <2> QED
      BY <2>1, <2>2
<1> QED
    BY <1>9, <1>10, <1>13 DEF S, L

\* One more element: kept at the end when its position is, or left out.
LEMMA PickedNext ==
    ASSUME NEW T, NEW list \in Seq(T), NEW positions, NEW p \in Seq(T), NEW n \in Nat,
           n + 1 <= Len(list), Picked(p, list, positions, n)
    PROVE  /\ n + 1 \in positions => Picked(Append(p, list[n + 1]), list, positions, n + 1)
           /\ n + 1 \notin positions => Picked(p, list, positions, n + 1)
<1> PICK f \in [1..Len(p) -> positions \cap 1..n] :
          /\ \A i, j \in 1..Len(p) : i < j => f[i] < f[j]
          /\ \A k \in positions \cap 1..n : \E i \in 1..Len(p) : f[i] = k
          /\ \A i \in 1..Len(p) : p[i] = list[f[i]]
    BY DEF Picked
<1>1. Len(p) \in Nat /\ n + 1 \in Nat
    OBVIOUS
<1>2. ASSUME n + 1 \in positions
      PROVE  Picked(Append(p, list[n + 1]), list, positions, n + 1)
  <2> DEFINE q == Append(p, list[n + 1])
             m == Len(p) + 1
             g == [i \in 1..m |-> IF i = m THEN n + 1 ELSE f[i]]
  <2>1. /\ Len(q) = m /\ DOMAIN q = 1..m /\ q[m] = list[n + 1]
        /\ \A i \in 1..Len(p) : q[i] = p[i]
      OBVIOUS
  <2>2. m \in Nat /\ m \in 1..m /\ \A i \in 1..m : i = m \/ (i \in 1..Len(p) /\ i # m /\ i < m)
      BY <1>1
  <2> HIDE DEF q, m
  <2>3. g[m] = n + 1 /\ \A i \in 1..m : i # m => g[i] = f[i]
      BY <2>2
  <2>4. \A i \in 1..Len(p) : i \in 1..m /\ i # m
      BY <1>1 DEF m
  <2>5. \A k \in positions \cap 1..(n + 1) : k = n + 1 \/ k \in positions \cap 1..n
      OBVIOUS
  <2>6. g \in [1..m -> positions \cap 1..(n + 1)]
    <3>1. n + 1 \in positions \cap 1..(n + 1)
        BY <1>1, <1>2
    <3>2. \A i \in 1..Len(p) : f[i] \in positions \cap 1..(n + 1)
        BY <1>1
    <3> QED
        BY <2>2, <3>1, <3>2
  <2> HIDE DEF g
  <2>7. \A i, j \in 1..m : i < j => g[i] < g[j]
    <3> SUFFICES ASSUME NEW i \in 1..m, NEW j \in 1..m, i < j PROVE g[i] < g[j]
        OBVIOUS
    <3>1. i \in 1..Len(p) /\ g[i] = f[i] /\ i \in Nat /\ j \in Nat
        BY <2>2, <2>3
    <3>2. CASE j = m
      <4>1. f[i] \in 1..n
          BY <3>1
      <4> QED
          BY <2>3, <3>1, <3>2, <4>1
    <3>3. CASE j # m
      <4>1. j \in 1..Len(p) /\ g[j] = f[j]
          BY <2>2, <2>3, <3>3
      <4> QED
          BY <3>1, <4>1
    <3> QED
        BY <3>2, <3>3
  <2>8. \A k \in positions \cap 1..(n + 1) : \E i \in 1..m : g[i] = k
      BY <2>2, <2>3, <2>4, <2>5
  <2>9. \A i \in 1..m : q[i] = list[g[i]]
      BY <2>1, <2>2, <2>3
  <2>10. \E h \in [1..m -> positions \cap 1..(n + 1)] :
            /\ \A i, j \in 1..m : i < j => h[i] < h[j]
            /\ \A k \in positions \cap 1..(n + 1) : \E i \in 1..m : h[i] = k
            /\ \A i \in 1..m : q[i] = list[h[i]]
      BY <2>6, <2>7, <2>8, <2>9
  <2>11. Picked(q, list, positions, n + 1)
    <3>1. Len(q) \in Nat /\ DOMAIN q = 1..Len(q) /\ m = Len(q)
        BY <2>1, <2>2
    <3>2. \E h \in [1..Len(q) -> positions \cap 1..(n + 1)] :
              /\ \A i, j \in 1..Len(q) : i < j => h[i] < h[j]
              /\ \A k \in positions \cap 1..(n + 1) : \E i \in 1..Len(q) : h[i] = k
              /\ \A i \in 1..Len(q) : q[i] = list[h[i]]
        BY ONLY <2>10, <3>1
    <3> QED
        BY ONLY <3>1, <3>2 DEF Picked
  <2> QED
      BY <2>11 DEF q
<1>3. ASSUME n + 1 \notin positions
      PROVE  Picked(p, list, positions, n + 1)
  <2>1. positions \cap 1..(n + 1) = positions \cap 1..n
      BY <1>3
  <2>2. DOMAIN p = 1..Len(p)
      OBVIOUS
  <2> QED
      BY <1>1, <2>1, <2>2 DEF Picked
<1> QED
    BY <1>2, <1>3

\* Pick returns the list's elements at the positions, in their order.
LEMMA PickIsPicked ==
    ASSUME NEW T, NEW list \in Seq(T), NEW positions
    PROVE  /\ Pick(list, positions) \in Seq(T)
           /\ Picked(Pick(list, positions), list, positions, Len(list))
<1> DEFINE L == Len(list)
<1> PICK g \in [0..L -> Seq(T)] :
        /\ Pick(list, positions) = g[L] /\ g[0] = << >>
        /\ \A n \in 1..L : g[n] = IF n \in positions THEN Append(g[n - 1], list[n]) ELSE g[n - 1]
    BY PickUnfolds
<1>1. L \in Nat /\ L \in 0..L
    OBVIOUS
<1> HIDE DEF L
<1> DEFINE Have == {n \in Nat : n <= L => Picked(g[n], list, positions, n)}
<1>2. 0 \in Have
  <2> DEFINE f == [i \in 1..0 |-> i]
  <2>0. Len(<< >>) = 0 /\ DOMAIN << >> = 1..0 /\ \A i \in 1..0 : FALSE
      OBVIOUS
  <2>1. Len(g[0]) = 0 /\ DOMAIN g[0] = 1..0 /\ \A i \in 1..0 : FALSE
      BY <2>0
  <2>2. f \in [1..0 -> positions \cap 1..0]
      OBVIOUS
  <2> HIDE DEF f
  <2>3. Picked(g[0], list, positions, 0)
      BY <2>1, <2>2 DEF Picked
  <2> QED
      BY <2>3
<1>3. ASSUME NEW n \in Nat, n + 1 <= L, Picked(g[n], list, positions, n)
      PROVE  Picked(g[n + 1], list, positions, n + 1)
  <2>1. n + 1 \in 1..L /\ n \in 0..L /\ n + 1 - 1 = n
      BY <1>1, <1>3
  <2>2. g[n + 1] = IF n + 1 \in positions THEN Append(g[n], list[n + 1]) ELSE g[n]
      BY <2>1
  <2>3. g[n] \in Seq(T)
      BY <2>1
  <2>4. n + 1 <= Len(list)
      BY <1>3 DEF L
  <2> QED
      BY <1>3, <2>2, <2>3, <2>4, PickedNext
<1>4. Have = Nat
  <2>1. ASSUME NEW n \in Have
        PROVE  n + 1 \in Have
    <3>1. n \in Nat /\ (n + 1 <= L => n <= L)
        BY <1>1
    <3> QED
        BY <1>3, <3>1
  <2>2. Have \in SUBSET Nat
      OBVIOUS
  <2> HIDE DEF Have
  <2> QED
      BY <1>2, <2>1, <2>2, SetInduction
<1>5. L \in Have /\ L <= L
  <2> HIDE DEF Have
  <2> QED
      BY <1>1, <1>4
<1>6. Picked(g[L], list, positions, L)
    BY <1>5
<1> QED
    BY <1>1, <1>6 DEF L

\* To pick all positions is to pick the list.
LEMMA PickAll ==
    ASSUME NEW T, NEW list \in Seq(T), NEW positions, 1..Len(list) \subseteq positions
    PROVE  Pick(list, positions) = list
<1> DEFINE L == Len(list)
<1>1. L \in Nat /\ DOMAIN list = 1..L /\ \A i \in 1..L : list[i] \in T
    OBVIOUS
<1>2. PICK g \in [0..L -> Seq(T)] :
          /\ Pick(list, positions) = g[L]
          /\ g[0] = << >>
          /\ \A n \in 1..L :
                g[n] = IF n \in positions THEN Append(g[n - 1], list[n]) ELSE g[n - 1]
    BY PickUnfolds
<1> DEFINE Alike(n) == n \in 0..L => /\ Len(g[n]) = n
                                    /\ \A i \in 1..n : g[n][i] = list[i]
           Good == {n \in Nat : Alike(n)}
<1>3. \A n \in 1..L : n - 1 \in 0..L /\ g[n - 1] \in Seq(T) /\ g[n] = Append(g[n - 1], list[n])
  <2> TAKE n \in 1..L
  <2>1. n \in positions /\ n - 1 \in 0..L
      BY <1>1
  <2> QED
      BY <1>2, <2>1
<1> HIDE DEF L
<1>4. 0 \in Good
  <2>1. Len(<< >>) = 0 /\ 0 \in Nat /\ \A i \in 1..0 : FALSE
      OBVIOUS
  <2>2. Alike(0)
      BY <1>2, <2>1
  <2> HIDE DEF Alike
  <2> QED
      BY <2>2
<1>5. ASSUME NEW m \in Good
      PROVE  m + 1 \in Good
  <2> DEFINE n == m + 1
  <2>1. m \in Nat /\ Alike(m)
      OBVIOUS
  <2>2. Alike(n)
    <3> SUFFICES ASSUME n \in 0..L
                 PROVE  Len(g[n]) = n /\ \A i \in 1..n : g[n][i] = list[i]
        OBVIOUS
    <3>1. n \in 1..L /\ m \in 0..L /\ n - 1 = m
        BY <1>1, <2>1
    <3>2. /\ g[m] \in Seq(T) /\ g[n] = Append(g[m], list[n]) /\ list[n] \in T
          /\ Len(g[m]) = m /\ \A i \in 1..m : g[m][i] = list[i]
        BY <1>1, <1>3, <2>1, <3>1
    <3> DEFINE a == g[m]  b == g[n]  x == list[n]
    <3>3. a \in Seq(T) /\ x \in T /\ b = Append(a, x) /\ Len(a) = m
        BY <3>2
    <3> HIDE DEF a, b, x, n
    <3>4. Len(b) = m + 1 /\ b[m + 1] = x /\ \A i \in 1..m : b[i] = a[i]
        BY ONLY <3>3, <2>1
    <3>5. \A i \in 1..n : i \in 1..m \/ i = m + 1
        BY <2>1 DEF n
    <3> QED
        BY <3>2, <3>4, <3>5 DEF a, b, x, n
  <2>3. n \in Nat
      BY <2>1
  <2> HIDE DEF Alike, n
  <2>4. n \in Good
      BY <2>2, <2>3
  <2> QED
      BY <2>4 DEF n
<1>6. Good = Nat
  <2>1. Good \in SUBSET Nat
      OBVIOUS
  <2> HIDE DEF Good
  <2> QED
      BY <1>4, <1>5, <2>1, SetInduction
<1>7. Alike(L)
  <2>1. L \in Good
      BY <1>1, <1>6
  <2> HIDE DEF Alike
  <2> QED
      BY <2>1
<1> DEFINE p == g[L]
<1>8. p \in Seq(T) /\ Len(p) = L /\ \A i \in 1..L : p[i] = list[i]
    BY <1>1, <1>2, <1>7
<1> HIDE DEF p
<1>9. p = list
  <2>1. DOMAIN p = 1..L /\ p = [i \in DOMAIN p |-> p[i]]
      BY ONLY <1>8
  <2>2. list = [i \in DOMAIN list |-> list[i]]
      BY ONLY list \in Seq(T)
  <2> QED
      BY <1>1, <1>8, <2>1, <2>2
<1> QED
    BY <1>2, <1>9 DEF p

\* What begins in a set and stays there at every step is always there.
LEMMA StaysIn ==
    ASSUME NEW S, NEW L \in Nat, NEW u, u[0] \in S,
           \A n \in 1..L : u[n - 1] \in S => u[n] \in S
    PROVE  \A n \in 0..L : u[n] \in S
<1> DEFINE Good == {n \in Nat : n <= L => u[n] \in S}
<1>1. Good = Nat
  <2>1. 0 \in Good
      OBVIOUS
  <2>2. ASSUME NEW n \in Good
        PROVE  n + 1 \in Good
    <3>1. n \in Nat /\ (n <= L => u[n] \in S)
        OBVIOUS
    <3>2. SUFFICES ASSUME n + 1 <= L PROVE u[n + 1] \in S
        BY <3>1
    <3> DEFINE m == n + 1
    <3>3. m \in 1..L /\ m - 1 = n /\ u[n] \in S
        BY <3>1, <3>2
    <3> HIDE DEF m
    <3>4. u[m - 1] \in S
        BY <3>3
    <3>5. u[m] \in S
        BY <3>3, <3>4
    <3> QED
        BY <3>5 DEF m
  <2>3. Good \in SUBSET Nat
      OBVIOUS
  <2> HIDE DEF Good
  <2> QED
      BY <2>1, <2>2, <2>3, SetInduction
<1>2. \A n \in 0..L : n \in Good /\ n <= L
  <2> HIDE DEF Good
  <2> QED
      BY <1>1
<1> QED
    BY <1>2

\* The set of numbers 1..n below which a condition holds is an interval.
LEMMA DownwardIsInterval ==
    ASSUME NEW n \in Nat, NEW B \in SUBSET (1..n),
           \A i \in B, j \in 1..n : j <= i => j \in B
    PROVE  /\ Cardinality(B) \in 0..n
           /\ B = 1..Cardinality(B)
<1> DEFINE C == {i \in 1..(n + 1) : i \notin B}
<1>1. C \in SUBSET Nat /\ n + 1 \in C
    OBVIOUS
<1>2. PICK c \in C : \A j \in C : c <= j
  <2> HIDE DEF C
  <2> QED
      BY <1>1, SmallestExists
<1>3. c \in 1..(n + 1) /\ c \notin B
    OBVIOUS
<1>4. \A i \in 1..n : i < c => i \in B
    BY <1>2, <1>3
<1>5. \A i \in B : i < c
    BY <1>3
<1>6. B = 1..(c - 1)
  <2>1. \A i \in B : i \in 1..(c - 1)
      BY <1>3, <1>5
  <2>2. \A i \in 1..(c - 1) : i \in B
      BY <1>3, <1>4
  <2> QED
      BY <2>1, <2>2
<1>7. Cardinality(1..(c - 1)) = c - 1
  <2> DEFINE m == c - 1
  <2>1. m \in Nat /\ 1 \in Int /\ m \in Int
      BY <1>3
  <2> HIDE DEF m
  <2>2. Cardinality(1..m) = IF 1 > m THEN 0 ELSE m - 1 + 1
      BY <2>1, FS_Interval
  <2>3. Cardinality(1..m) = m
      BY <2>1, <2>2
  <2> QED
      BY <2>3 DEF m
<1> QED
    BY <1>3, <1>6, <1>7

\* The elements of a finite set in a sequence: SetToSeq of SequencesExt.
LEMMA ListsExist ==
    ASSUME NEW S, IsFiniteSet(S)
    PROVE  /\ Cardinality(S) \in Nat
           /\ \E f \in [1..Cardinality(S) -> S] :
                 /\ \A a, b \in DOMAIN f : f[a] = f[b] => a = b
                 /\ \A s \in S : \E a \in 1..Cardinality(S) : f[a] = s
<1>1. PICK n \in Nat : ExistsBijection(1..n, S)
    BY FS_NatBijection
<1>2. Cardinality(S) = n
    BY <1>1, FS_CountingElements
<1>3. PICK f \in Bijection(1..n, S) : TRUE
    BY <1>1 DEF ExistsBijection
<1> QED
    BY <1>2, <1>3 DEF Bijection, Injection, Surjection, IsInjective
-----------------------------------------------------------------------------
(* Sums. *)

\* The recursive function in Total exists and is what its equation says.
LEMMA TotalUnfolds ==
    ASSUME NEW list \in Seq(Nat)
    PROVE  \E g \in [0..Len(list) -> Nat] :
              /\ Total(list) = g[Len(list)] /\ g[0] = 0
              /\ \A n \in 1..Len(list) : g[n] = g[n - 1] + list[n]
<1> DEFINE L == Len(list)
           F == [n \in 1..L |-> [s \in Nat |-> s + list[n]]]
           Eqn(u) == u = [n \in 0..L |-> IF n = 0 THEN 0 ELSE u[n - 1] + list[n]]
           upTo == CHOOSE u : Eqn(u)
<1>1. L \in Nat /\ L \in 0..L /\ \A n \in 1..L : list[n] \in Nat
    OBVIOUS
<1>2. F \in [1..L -> [Nat -> Nat]] /\ \A s \in Nat, n \in 1..L : F[n][s] = s + list[n]
    BY <1>1
<1> HIDE DEF F, L
<1>3. PICK g : Recurs(g, Nat, 0, L, F)
    BY <1>1, <1>2, StepsExist
<1>4. Eqn(g)
  <2> DEFINE e == [n \in 0..L |-> IF n = 0 THEN 0 ELSE g[n - 1] + list[n]]
  <2>1. ASSUME NEW n \in 0..L
        PROVE  g[n] = e[n]
    <3>1. CASE n = 0
        BY <1>3, <3>1 DEF Recurs
    <3>2. CASE n # 0
      <4>1. n \in 1..L /\ g[n - 1] \in Nat
          BY <1>1, <1>3, <3>2 DEF Recurs
      <4>2. g[n] = g[n - 1] + list[n]
          BY <1>2, <1>3, <4>1 DEF Recurs
      <4> QED
          BY <3>2, <4>2
    <3> QED
        BY <3>1, <3>2
  <2> QED
      BY <1>3, <2>1 DEF Recurs
<1>5. Eqn(upTo)
  <2> HIDE DEF Eqn
  <2> QED
      BY <1>4
<1>6. Total(list) = upTo[L]
    BY DEF Total, L
<1> HIDE DEF upTo
<1>7. /\ upTo[0] = 0
      /\ \A n \in 1..L : upTo[n] = upTo[n - 1] + list[n]
  <2> DEFINE u == upTo
  <2>1. Eqn(u)
      BY <1>5
  <2> HIDE DEF u
  <2>2. \A n \in 0..L : u[n] = IF n = 0 THEN 0 ELSE u[n - 1] + list[n]
      BY <2>1
  <2>3. 0 \in 0..L /\ \A n \in 1..L : n \in 0..L /\ n # 0
      BY <1>1
  <2> QED
      BY <2>2, <2>3 DEF u
<1>8. \A n \in 0..L : upTo[n] \in Nat
  <2> DEFINE u == upTo
  <2>1. u[0] \in Nat /\ \A n \in 1..L : u[n] = u[n - 1] + list[n]
      BY <1>7
  <2> HIDE DEF u
  <2>2. ASSUME NEW n \in 1..L, u[n - 1] \in Nat
        PROVE  u[n] \in Nat
    <3>1. list[n] \in Nat /\ u[n] = u[n - 1] + list[n]
        BY <1>1, <2>1
    <3> QED
        BY <2>2, <3>1
  <2>3. \A n \in 0..L : u[n] \in Nat
      BY <1>1, <2>1, <2>2, StaysIn
  <2> QED
      BY <2>3 DEF u
<1>9. upTo \in [0..L -> Nat]
  <2> DEFINE u == upTo
  <2>1. Eqn(u)
      BY <1>5
  <2> HIDE DEF u
  <2>2. u = [n \in 0..L |-> u[n]]
      BY <2>1
  <2> QED
      BY <1>8, <2>2 DEF u
<1> QED
    BY <1>6, <1>7, <1>9 DEF L

\* What adds the numbers up one by one ends with their sum.
LEMMA TotalIs ==
    ASSUME NEW list \in Seq(Nat), NEW h, h[0] = 0,
           \A n \in 1..Len(list) : h[n] = h[n - 1] + list[n]
    PROVE  Total(list) = h[Len(list)] /\ Total(list) \in Nat
<1> DEFINE L == Len(list)
<1>1. L \in Nat /\ L \in 0..L
    OBVIOUS
<1>2. PICK g \in [0..L -> Nat] : /\ Total(list) = g[L] /\ g[0] = 0
                                 /\ \A n \in 1..L : g[n] = g[n - 1] + list[n]
    BY TotalUnfolds
<1> HIDE DEF L
<1> DEFINE off == [n \in 0..L |-> IF g[n] = h[n] THEN 0 ELSE 1]
<1>3. off[0] \in {0}
    BY <1>1, <1>2
<1>4. ASSUME NEW n \in 1..L, off[n - 1] \in {0}
      PROVE  off[n] \in {0}
  <2>1. n - 1 \in 0..L /\ n \in 0..L
      BY <1>1
  <2>2. g[n - 1] = h[n - 1]
      BY <1>4, <2>1
  <2>3. g[n] = h[n]
      BY <1>2, <2>2 DEF L
  <2> QED
      BY <2>1, <2>3
<1> HIDE DEF off
<1>5. \A n \in 0..L : off[n] \in {0}
  <2> DEFINE Zero == {0}
  <2>1. off[0] \in Zero /\ \A n \in 1..L : off[n - 1] \in Zero => off[n] \in Zero
      BY <1>3, <1>4
  <2>2. L \in Nat
      BY <1>1
  <2> HIDE DEF Zero
  <2>3. \A n \in 0..L : off[n] \in Zero
      BY ONLY <2>1, <2>2, StaysIn
  <2> QED
      BY <2>3 DEF Zero
<1>6. g[L] = h[L]
    BY <1>1, <1>5 DEF off
<1>7. Total(list) = h[L] /\ Total(list) \in Nat
    BY <1>1, <1>2, <1>6
<1> QED
    BY <1>7 DEF L

\* The sum of no numbers and of one.
LEMMA TotalOfFew ==
    /\ Total(<< >>) = 0
    /\ \A v \in Nat : Total(<<v>>) = v
<1>1. Total(<< >>) = 0
  <2> DEFINE h == [n \in {0} |-> 0]
  <2>1. << >> \in Seq(Nat) /\ Len(<< >>) = 0 /\ h[0] = 0
      OBVIOUS
  <2>2. \A n \in 1..0 : h[n] = h[n - 1] + << >>[n]
      OBVIOUS
  <2> HIDE DEF h
  <2> QED
      BY <2>1, <2>2, TotalIs
<1>2. ASSUME NEW v \in Nat
      PROVE  Total(<<v>>) = v
  <2> DEFINE h == [n \in {0, 1} |-> IF n = 0 THEN 0 ELSE v]
             list == <<v>>
  <2>1. list \in Seq(Nat) /\ Len(list) = 1 /\ list[1] = v /\ h[0] = 0 /\ h[1] = v
      OBVIOUS
  <2> HIDE DEF h, list
  <2>2. \A n \in 1..1 : h[n] = h[n - 1] + list[n]
      BY <2>1
  <2>3. Total(list) = h[1]
      BY <2>1, <2>2, TotalIs
  <2> QED
      BY <2>1, <2>3 DEF list
<1> QED
    BY <1>1, <1>2

\* The sum of two lists after one another is the sum of their sums.
LEMMA TotalJoined ==
    ASSUME NEW a \in Seq(Nat), NEW b \in Seq(Nat)
    PROVE  a \o b \in Seq(Nat) /\ Total(a \o b) = Total(a) + Total(b)
<1> DEFINE m == Len(a)  k == Len(b)  c == a \o b
<1>1. /\ m \in Nat /\ k \in Nat /\ c \in Seq(Nat) /\ Len(c) = m + k
      /\ (\A n \in 1..m : c[n] = a[n])
    OBVIOUS
<1>2. \A n \in (m + 1)..(m + k) : c[n] = b[n - m]
    OBVIOUS
<1>3. PICK f \in [0..m -> Nat] : /\ Total(a) = f[m] /\ f[0] = 0
                                 /\ \A n \in 1..m : f[n] = f[n - 1] + a[n]
    BY TotalUnfolds
<1>4. PICK g \in [0..k -> Nat] : /\ Total(b) = g[k] /\ g[0] = 0
                                 /\ \A n \in 1..k : g[n] = g[n - 1] + b[n]
    BY TotalUnfolds
<1>5. \A n \in 1..k : b[n] \in Nat
    OBVIOUS
<1> HIDE DEF c, m, k
<1> DEFINE h == [n \in 0..(m + k) |-> IF n <= m THEN f[n] ELSE f[m] + g[n - m]]
<1>6. h[0] = 0
    BY <1>1, <1>3
<1>7. ASSUME NEW n \in 1..(m + k)
      PROVE  h[n] = h[n - 1] + c[n]
  <2>1. n \in 0..(m + k) /\ n - 1 \in 0..(m + k) /\ n \in Nat
      BY <1>1
  <2>2. CASE n <= m
    <3>1. n \in 1..m /\ n - 1 <= m
        BY <1>1, <2>1, <2>2
    <3> QED
        BY <1>1, <1>3, <2>1, <2>2, <3>1
  <2>3. CASE n = m + 1
    <3>1. 1 \in 1..k /\ n - m = 1 /\ n - 1 = m /\ n \in (m + 1)..(m + k) /\ ~(n <= m)
        BY <1>1, <2>1, <2>3
    <3>2. h[n] = f[m] + g[1] /\ h[n - 1] = f[m] /\ c[n] = b[1]
        BY <1>1, <1>2, <2>1, <3>1
    <3>3. g[1] = g[1 - 1] + b[1] /\ 1 - 1 = 0
        BY <1>4, <3>1
    <3>4. g[1] = b[1]
        BY <1>4, <1>5, <3>1, <3>3
    <3> QED
        BY <3>2, <3>4
  <2>4. CASE n > m + 1
    <3>1. /\ n - m \in 1..k /\ (n - 1) - m = (n - m) - 1 /\ n \in (m + 1)..(m + k)
          /\ ~(n <= m) /\ ~(n - 1 <= m) /\ (n - m) - 1 \in 0..k
        BY <1>1, <2>1, <2>4
    <3>2. h[n] = f[m] + g[n - m] /\ h[n - 1] = f[m] + g[(n - m) - 1] /\ c[n] = b[n - m]
        BY <1>2, <2>1, <3>1
    <3>3. g[n - m] = g[(n - m) - 1] + b[n - m]
        BY <1>4, <3>1
    <3>4. f[m] \in Nat
      <4>1. m \in 0..m
          BY <1>1
      <4> QED
          BY <1>3, <4>1
    <3>5. g[(n - m) - 1] \in Nat
        BY <1>4, <3>1
    <3>6. b[n - m] \in Nat
        BY <1>5, <3>1
    <3> QED
        BY <3>2, <3>3, <3>4, <3>5, <3>6, SMTT(30)
  <2> QED
      BY <1>1, <2>1, <2>2, <2>3, <2>4
<1>8. Total(c) = h[m + k]
  <2> HIDE DEF h
  <2> QED
      BY <1>1, <1>6, <1>7, TotalIs
<1>9. h[m + k] = f[m] + g[k]
  <2>1. CASE k = 0
      BY <1>1, <1>3, <1>4, <2>1
  <2>2. CASE k # 0
    <3>1. ~(m + k <= m) /\ (m + k) - m = k /\ m + k \in 0..(m + k)
        BY <1>1, <2>2
    <3> QED
        BY <3>1
  <2> QED
      BY <2>1, <2>2
<1> QED
    BY <1>1, <1>3, <1>4, <1>8, <1>9 DEF c

\* The sum of a list in which at most one number is not zero.
LEMMA TotalOfOne ==
    ASSUME NEW list \in Seq(Nat)
    PROVE  /\ (\A i \in 1..Len(list) : list[i] = 0) => Total(list) = 0
           /\ \A p \in 1..Len(list) :
                 (\A i \in 1..Len(list) : i # p => list[i] = 0) => Total(list) = list[p]
<1> DEFINE L == Len(list)
<1>1. L \in Nat /\ \A i \in 1..L : list[i] \in Nat
    OBVIOUS
<1>2. ASSUME \A i \in 1..L : list[i] = 0
      PROVE  Total(list) = 0
  <2> DEFINE h == [n \in 0..L |-> 0]
  <2>1. h[0] = 0 /\ h[L] = 0 /\ \A n \in 1..L : h[n] = h[n - 1] + list[n]
      BY <1>1, <1>2
  <2> HIDE DEF h
  <2> QED
      BY <2>1, TotalIs
<1>3. ASSUME NEW p \in 1..L, \A i \in 1..L : i # p => list[i] = 0
      PROVE  Total(list) = list[p]
  <2> DEFINE h == [n \in 0..L |-> IF n < p THEN 0 ELSE list[p]]
  <2>1. h[0] = 0 /\ h[L] = list[p]
      BY <1>1
  <2>2. ASSUME NEW n \in 1..L
        PROVE  h[n] = h[n - 1] + list[n]
    <3>1. n \in 0..L /\ n - 1 \in 0..L /\ n \in Nat /\ p \in Nat
        BY <1>1
    <3>2. CASE n = p
        BY <1>1, <3>1, <3>2
    <3>3. CASE n # p
      <4>1. list[n] = 0 /\ (n < p <=> n - 1 < p)
          BY <1>3, <3>1, <3>3
      <4> QED
          BY <1>1, <3>1, <4>1
    <3> QED
        BY <3>2, <3>3
  <2> HIDE DEF h
  <2> QED
      BY <2>1, <2>2, TotalIs
<1> QED
    BY <1>2, <1>3

\* Counting the members of a set by ones.
LEMMA TotalCounts ==
    ASSUME NEW L \in Nat, NEW P \in SUBSET (1..L)
    PROVE  Total([i \in 1..L |-> IF i \in P THEN 1 ELSE 0]) = Cardinality(P)
<1> DEFINE list == [i \in 1..L |-> IF i \in P THEN 1 ELSE 0]
           h == [n \in 0..L |-> Cardinality(P \cap 1..n)]
<1>1. list \in Seq(Nat) /\ Len(list) = L /\ \A i \in 1..L : list[i] = IF i \in P THEN 1 ELSE 0
    OBVIOUS
<1>2. h[0] = 0
  <2>1. P \cap 1..0 = {}
      OBVIOUS
  <2>2. h[0] = Cardinality(P \cap 1..0)
      OBVIOUS
  <2> QED
      BY <2>1, <2>2, FS_EmptySet
<1>3. h[L] = Cardinality(P)
  <2>1. P \cap 1..L = P
      OBVIOUS
  <2> QED
      BY <2>1
<1>4. ASSUME NEW n \in 1..L
      PROVE  h[n] = h[n - 1] + list[n]
  <2> DEFINE A == P \cap 1..(n - 1)
  <2>1. n \in 0..L /\ n - 1 \in 0..L
      OBVIOUS
  <2>2. h[n] = Cardinality(P \cap 1..n) /\ h[n - 1] = Cardinality(A)
      BY <2>1
  <2>3. IsFiniteSet(A)
    <3>1. IsFiniteSet(1..(n - 1))
        BY FS_Interval
    <3>2. A \in SUBSET (1..(n - 1))
        OBVIOUS
    <3> QED
        BY <3>1, <3>2, FS_Subset
  <2>4. Cardinality(A) \in Nat
      BY <2>3, FS_CardinalityType
  <2>5. n \notin A
      OBVIOUS
  <2>6. CASE n \in P
    <3>1. P \cap 1..n = A \cup {n}
        BY <2>6
    <3>2. Cardinality(A \cup {n}) = Cardinality(A) + 1
      <4> HIDE DEF A
      <4> QED
          BY <2>3, <2>5, FS_AddElement
    <3>3. list[n] = 1
        BY <2>6
    <3> QED
        BY <2>2, <3>1, <3>2, <3>3
  <2>7. CASE n \notin P
    <3>1. P \cap 1..n = A
        BY <2>7
    <3>2. list[n] = 0
        BY <2>7
    <3> QED
        BY <2>2, <2>4, <3>1, <3>2
  <2> QED
      BY <2>6, <2>7
<1> HIDE DEF h, list
<1>5. Total(list) = h[L]
    BY <1>1, <1>2, <1>4, TotalIs
<1> QED
    BY <1>3, <1>5 DEF list
-----------------------------------------------------------------------------
(* What the elements of a list weigh together, when f gives each a weight. *)
Weigh(list, f) == Total([i \in 1..Len(list) |-> f[list[i]]])

(* Weights that count the elements which are in a set. *)
Among(T, S) == [x \in T |-> IF x \in S THEN 1 ELSE 0]

\* The weights of a list are a list of numbers.
LEMMA WeightsAreNumbers ==
    ASSUME NEW T, NEW f \in [T -> Nat], NEW list \in Seq(T)
    PROVE  /\ [i \in 1..Len(list) |-> f[list[i]]] \in Seq(Nat)
           /\ Weigh(list, f) \in Nat
<1> DEFINE w == [i \in 1..Len(list) |-> f[list[i]]]
<1>1. Len(list) \in Nat /\ \A i \in 1..Len(list) : f[list[i]] \in Nat
    OBVIOUS
<1>2. w \in [1..Len(list) -> Nat]
    BY <1>1
<1>3. w \in Seq(Nat)
  <2> HIDE DEF w
  <2> QED
      BY <1>1, <1>2
<1>4. PICK g \in [0..Len(w) -> Nat] : Total(w) = g[Len(w)]
  <2> HIDE DEF w
  <2> QED
      BY <1>3, TotalUnfolds
<1>5. Len(w) \in Nat /\ Len(w) \in 0..Len(w)
  <2> HIDE DEF w
  <2> QED
      BY <1>3
<1> QED
    BY <1>3, <1>4, <1>5 DEF Weigh

\* An empty list weighs nothing, a list of one element what the element weighs.
LEMMA WeighFew ==
    ASSUME NEW T, NEW f \in [T -> Nat]
    PROVE  /\ Weigh(<< >>, f) = 0
           /\ \A x \in T : Weigh(<<x>>, f) = f[x]
<1>1. Weigh(<< >>, f) = 0
  <2>1. [i \in 1..Len(<< >>) |-> f[<< >>[i]]] = << >>
      OBVIOUS
  <2> QED
      BY <2>1, TotalOfFew DEF Weigh
<1>2. ASSUME NEW x \in T
      PROVE  Weigh(<<x>>, f) = f[x]
  <2> DEFINE w == [i \in 1..Len(<<x>>) |-> f[<<x>>[i]]]
  <2>1. w = <<f[x]>>
      OBVIOUS
  <2>2. Weigh(<<x>>, f) = Total(w)
      BY DEF Weigh
  <2> HIDE DEF w
  <2> QED
      BY <2>1, <2>2, TotalOfFew
<1> QED
    BY <1>1, <1>2

\* Two lists after one another weigh what they weigh together.
LEMMA WeighJoined ==
    ASSUME NEW T, NEW f \in [T -> Nat], NEW a \in Seq(T), NEW b \in Seq(T)
    PROVE  Weigh(a \o b, f) = Weigh(a, f) + Weigh(b, f)
<1> DEFINE u == [i \in 1..Len(a) |-> f[a[i]]]
           v == [i \in 1..Len(b) |-> f[b[i]]]
           w == [i \in 1..Len(a \o b) |-> f[(a \o b)[i]]]
<1>1. u \in Seq(Nat) /\ v \in Seq(Nat)
    BY WeightsAreNumbers
<1>2. /\ Len(a) \in Nat /\ Len(b) \in Nat /\ Len(a \o b) = Len(a) + Len(b)
      /\ Len(u) = Len(a) /\ Len(v) = Len(b)
      /\ \A i \in 1..Len(a) : (a \o b)[i] = a[i] /\ u[i] = f[a[i]]
    OBVIOUS
<1>3. \A i \in (Len(a) + 1)..(Len(a) + Len(b)) :
          (a \o b)[i] = b[i - Len(a)] /\ i - Len(a) \in 1..Len(b)
    OBVIOUS
<1>4. \A i \in 1..Len(b) : v[i] = f[b[i]]
    OBVIOUS
<1> HIDE DEF u, v
<1>5. /\ u \o v \in Seq(Nat) /\ Len(u \o v) = Len(u) + Len(v)
      /\ \A i \in 1..Len(u) : (u \o v)[i] = u[i]
      /\ \A i \in (Len(u) + 1)..(Len(u) + Len(v)) : (u \o v)[i] = v[i - Len(u)]
  <2>1. u \o v \in Seq(Nat) /\ Len(u \o v) = Len(u) + Len(v)
      BY <1>1
  <2>2. \A i \in 1..Len(u) : (u \o v)[i] = u[i]
      BY <1>1
  <2>3. \A i \in (Len(u) + 1)..(Len(u) + Len(v)) : (u \o v)[i] = v[i - Len(u)]
      BY <1>1
  <2> QED
      BY <2>1, <2>2, <2>3
<1>6. /\ Len(u \o v) = Len(a) + Len(b)
      /\ \A i \in (Len(a) + 1)..(Len(a) + Len(b)) : (u \o v)[i] = v[i - Len(a)]
    BY <1>2, <1>5
<1>7. \A i \in 1..(Len(a) + Len(b)) : f[(a \o b)[i]] = (u \o v)[i]
  <2> TAKE i \in 1..(Len(a) + Len(b))
  <2>1. CASE i \in 1..Len(a)
      BY <1>2, <1>5, <2>1
  <2>2. CASE i \in (Len(a) + 1)..(Len(a) + Len(b))
      BY <1>3, <1>4, <1>6, <2>2
  <2> QED
      BY <1>2, <2>1, <2>2
<1>8. w = u \o v
  <2> DEFINE c == u \o v
  <2>1. c = [i \in 1..Len(c) |-> c[i]]
    <3>1. c \in Seq(Nat)
        BY <1>5
    <3> HIDE DEF c
    <3> QED
        BY <3>1
  <2>2. w = [i \in 1..Len(c) |-> c[i]]
      BY <1>2, <1>6, <1>7
  <2> QED
      BY <2>1, <2>2
<1> HIDE DEF w
<1>9. Total(w) = Total(u) + Total(v)
    BY <1>1, <1>8, TotalJoined
<1> QED
    BY <1>9 DEF u, v, w, Weigh

\* The weights Among a set count the positions whose elements are in the set.
LEMMA WeighCounts ==
    ASSUME NEW T, NEW S, NEW list \in Seq(T)
    PROVE  Weigh(list, Among(T, S)) = Cardinality({i \in 1..Len(list) : list[i] \in S})
<1> DEFINE L == Len(list)
           P == {i \in 1..L : list[i] \in S}
           f == Among(T, S)
<1>1. L \in Nat /\ P \in SUBSET (1..L) /\ \A i \in 1..L : list[i] \in T
    OBVIOUS
<1>2. f \in [T -> Nat]
    BY DEF Among
<1>3. \A i \in 1..L : f[list[i]] = IF i \in P THEN 1 ELSE 0
    BY <1>1 DEF Among
<1>4. Weigh(list, f) = Cardinality(P)
  <2>1. [i \in 1..L |-> f[list[i]]] = [i \in 1..L |-> IF i \in P THEN 1 ELSE 0]
      BY <1>3
  <2>2. Weigh(list, f) = Total([i \in 1..L |-> f[list[i]]])
      BY DEF Weigh
  <2> HIDE DEF P, L, f
  <2>3. Total([i \in 1..L |-> IF i \in P THEN 1 ELSE 0]) = Cardinality(P)
      BY <1>1, TotalCounts
  <2> QED
      BY <2>1, <2>2, <2>3
<1> QED
    BY <1>4

\* So many of the list's elements are in the set: none, some or all.
LEMMA WeighAmong ==
    ASSUME NEW T, NEW S, NEW list \in Seq(T)
    PROVE  /\ Among(T, S) \in [T -> Nat]
           /\ Weigh(list, Among(T, S)) \in 0..Len(list)
           /\ Weigh(list, Among(T, S)) > 0 <=> \E i \in 1..Len(list) : list[i] \in S
           /\ (\A i \in 1..Len(list) : list[i] \in S) => Weigh(list, Among(T, S)) = Len(list)
<1> DEFINE L == Len(list)
           P == {i \in 1..L : list[i] \in S}
           f == Among(T, S)
<1>1. L \in Nat /\ P \in SUBSET (1..L) /\ \A i \in 1..L : list[i] \in T
    OBVIOUS
<1>2. f \in [T -> Nat]
    BY DEF Among
<1>4. Weigh(list, f) = Cardinality(P)
    BY WeighCounts
<1>5. IsFiniteSet(1..L) /\ Cardinality(1..L) = L
  <2> HIDE DEF L, P
  <2>1. 1 \in Int /\ L \in Int
      BY <1>1
  <2>2. IsFiniteSet(1..L) /\ Cardinality(1..L) = IF 1 > L THEN 0 ELSE L - 1 + 1
      BY <2>1, FS_Interval
  <2> QED
      BY <1>1, <2>2
<1>6. IsFiniteSet(P) /\ Cardinality(P) \in Nat /\ Cardinality(P) <= L
  <2> HIDE DEF P, L
  <2> QED
      BY <1>1, <1>5, FS_Subset, FS_CardinalityType
<1>7. Cardinality(P) = 0 <=> P = {}
  <2> HIDE DEF P
  <2> QED
      BY <1>6, FS_EmptySet
<1>8. Cardinality(P) > 0 <=> \E i \in 1..L : list[i] \in S
  <2>1. P # {} <=> \E i \in 1..L : list[i] \in S
      OBVIOUS
  <2> HIDE DEF P
  <2> QED
      BY <1>6, <1>7, <2>1
<1>9. (\A i \in 1..L : list[i] \in S) => P = 1..L
    OBVIOUS
<1>10. Weigh(list, f) \in 0..L
  <2> HIDE DEF f, P, L
  <2> QED
      BY <1>1, <1>4, <1>6
<1>11. (\A i \in 1..L : list[i] \in S) => Weigh(list, f) = L
  <2> SUFFICES ASSUME \A i \in 1..L : list[i] \in S
               PROVE  Weigh(list, f) = L
      OBVIOUS
  <2>1. P = 1..L
      BY <1>9
  <2> HIDE DEF f, P, L
  <2> QED
      BY <1>4, <1>5, <2>1
<1> QED
    BY <1>2, <1>4, <1>8, <1>10, <1>11

\* One more element, at either end of a list.
LEMMA WeighOneMore ==
    ASSUME NEW T, NEW f \in [T -> Nat], NEW list \in Seq(T), NEW x \in T
    PROVE  /\ f[x] \in Nat /\ Weigh(list, f) \in Nat
           /\ list \o <<x>> \in Seq(T) /\ Weigh(list \o <<x>>, f) = Weigh(list, f) + f[x]
           /\ <<x>> \o list \in Seq(T) /\ Weigh(<<x>> \o list, f) = f[x] + Weigh(list, f)
<1> DEFINE one == <<x>>
<1>1. one \in Seq(T) /\ f[x] \in Nat
    OBVIOUS
<1>2. Weigh(one, f) = f[x]
    BY WeighFew
<1> HIDE DEF one
<1>3. Weigh(list \o one, f) = Weigh(list, f) + f[x]
    BY ONLY <1>1, <1>2, WeighJoined, list \in Seq(T), f \in [T -> Nat]
<1>4. Weigh(one \o list, f) = f[x] + Weigh(list, f)
    BY ONLY <1>1, <1>2, WeighJoined, list \in Seq(T), f \in [T -> Nat]
<1>5. Weigh(list, f) \in Nat
    BY WeightsAreNumbers
<1>6. list \o one \in Seq(T) /\ one \o list \in Seq(T)
    BY <1>1
<1> QED
    BY <1>1, <1>3, <1>4, <1>5, <1>6 DEF one
(***************************************************************************)
(* Sorting.                                                                *)
(***************************************************************************)
(* f has every element of T at one place in S. *)
Pairs(f, S, T) == /\ f \in [S -> T]
                  /\ \A x, y \in S : f[x] = f[y] => x = y
                  /\ \A t \in T : \E x \in S : f[x] = t

\* Sets that are paired have as many elements.
LEMMA PairedSets ==
    ASSUME NEW S, NEW T, NEW f, Pairs(f, S, T), IsFiniteSet(S)
    PROVE  IsFiniteSet(T) /\ Cardinality(T) = Cardinality(S)
<1>1. f \in Bijection(S, T)
    BY DEF Pairs, Bijection, Injection, Surjection, IsInjective
<1>2. ExistsBijection(S, T)
    BY <1>1 DEF ExistsBijection
<1> QED
    BY <1>2, FS_Bijection

\* No two elements come after as many others, and none after all of them: a later
\* element comes after more.
LEMMA RanksDiffer ==
    ASSUME NEW S, IsFiniteSet(S), NEW before, TotallyOrders(before, S)
    PROVE  /\ \A x \in S : Cardinality(Before(S, before, x)) \in 0..(Cardinality(S) - 1)
           /\ \A x, y \in S : Cardinality(Before(S, before, x)) = Cardinality(Before(S, before, y))
                             => x = y
           /\ \A x, y \in S : <<x, y>> \in before
                 => Cardinality(Before(S, before, x)) < Cardinality(Before(S, before, y))
<1> DEFINE B(x) == Before(S, before, x)
<1>1. \A x \in S : B(x) \in SUBSET S /\ x \notin B(x)
    BY DEF Before, TotallyOrders
<1>2. \A x \in S : IsFiniteSet(B(x)) /\ Cardinality(B(x)) \in Nat
    BY <1>1, FS_Subset, FS_CardinalityType
<1>3. Cardinality(S) \in Nat
    BY FS_CardinalityType
<1>4. ASSUME NEW x \in S
      PROVE  Cardinality(B(x)) < Cardinality(S)
  <2>1. Cardinality(B(x)) <= Cardinality(S) /\ Cardinality(B(x)) # Cardinality(S)
      BY <1>1, FS_Subset
  <2> QED
      BY <1>2, <1>3, <2>1
<1>5. ASSUME NEW x \in S, NEW y \in S, <<x, y>> \in before
      PROVE  Cardinality(B(x)) < Cardinality(B(y))
  <2>1. B(x) \in SUBSET B(y) /\ x \in B(y)
      BY <1>5 DEF Before, TotallyOrders
  <2>2. Cardinality(B(x)) <= Cardinality(B(y)) /\ Cardinality(B(x)) # Cardinality(B(y))
      BY <1>1, <1>2, <2>1, FS_Subset
  <2> QED
      BY <1>2, <2>2
<1>6. ASSUME NEW x \in S, NEW y \in S, Cardinality(B(x)) = Cardinality(B(y))
      PROVE  x = y
  <2>1. <<x, y>> \notin before
      BY <1>2, <1>5, <1>6
  <2>2. <<y, x>> \notin before
      BY <1>2, <1>5, <1>6
  <2> QED
      BY <2>1, <2>2 DEF TotallyOrders
<1>7. \A x \in S : Cardinality(B(x)) \in 0..(Cardinality(S) - 1)
  <2> TAKE x \in S
  <2> HIDE DEF B
  <2> QED
      BY <1>2, <1>3, <1>4
<1> QED
    BY <1>5, <1>6, <1>7

\* Sorting loses nothing and repeats nothing, and what it puts first is before the
\* rest.
LEMMA SortedHoldsAll ==
    ASSUME NEW S, IsFiniteSet(S), NEW before, TotallyOrders(before, S)
    PROVE  /\ Cardinality(S) \in Nat /\ Pairs(Sorted(S, before), 1..Cardinality(S), S)
           /\ \A p, q \in 1..Cardinality(S) :
                 p < q => <<Sorted(S, before)[p], Sorted(S, before)[q]>> \in before
<1> DEFINE n == Cardinality(S)
           rank == [x \in S |-> Cardinality(Before(S, before, x))]
           s == Sorted(S, before)
<1>1. n \in Nat
    BY FS_CardinalityType
<1>2. /\ rank \in [S -> 0..(n - 1)] /\ \A x, y \in S : rank[x] = rank[y] => x = y
      /\ \A x, y \in S : <<x, y>> \in before => rank[x] < rank[y]
    BY RanksDiffer
<1>3. \A p \in 1..n : s[p] = CHOOSE x \in S : Cardinality(Before(S, before, x)) = p - 1
    BY DEF Sorted
<1>4. s = [p \in 1..n |-> s[p]]
    BY DEF Sorted
<1> HIDE DEF s, n
<1>5. IsFiniteSet(0..(n - 1)) /\ Cardinality(0..(n - 1)) = n
  <2>1. 0 \in Int /\ n - 1 \in Int
      BY <1>1
  <2>2. /\ IsFiniteSet(0..(n - 1))
        /\ Cardinality(0..(n - 1)) = IF 0 > n - 1 THEN 0 ELSE (n - 1) - 0 + 1
      BY <2>1, FS_Interval
  <2> QED
      BY <1>1, <2>2
<1>6. \A k \in 0..(n - 1) : \E x \in S : rank[x] = k
  <2> HIDE DEF rank
  <2>1. rank \in Injection(S, 0..(n - 1))
      BY <1>2 DEF Injection, IsInjective
  <2>2. rank \in Surjection(S, 0..(n - 1))
      BY <1>5, <2>1, FS_Injection DEF n
  <2> QED
      BY <2>2 DEF Surjection
<1>7. \A p \in 1..n : s[p] \in S /\ rank[s[p]] = p - 1
  <2> TAKE p \in 1..n
  <2>1. p - 1 \in 0..(n - 1)
      BY <1>1
  <2>2. PICK x \in S : rank[x] = p - 1
      BY <1>6, <2>1
  <2>3. Cardinality(Before(S, before, x)) = p - 1
      BY <2>2
  <2>4. s[p] \in S /\ Cardinality(Before(S, before, s[p])) = p - 1
      BY <1>3, <2>3
  <2> QED
      BY <2>4
<1> HIDE DEF rank
<1>8. s \in [1..n -> S]
    BY <1>4, <1>7
<1>9. \A p, q \in 1..n : s[p] = s[q] => p = q
  <2> SUFFICES ASSUME NEW p \in 1..n, NEW q \in 1..n, s[p] = s[q] PROVE p = q
      OBVIOUS
  <2>1. p - 1 = q - 1
      BY <1>7
  <2> QED
      BY <1>1, <2>1
<1>10. \A x \in S : \E p \in 1..n : s[p] = x
  <2> TAKE x \in S
  <2>1. rank[x] \in 0..(n - 1)
      BY <1>2
  <2>2. PICK p \in 1..n : p - 1 = rank[x]
    <3>1. rank[x] + 1 \in 1..n /\ (rank[x] + 1) - 1 = rank[x]
        BY <1>1, <2>1
    <3> QED
        BY <3>1
  <2>3. s[p] \in S /\ rank[s[p]] = rank[x]
      BY <1>7, <2>2
  <2> QED
      BY <1>2, <2>3
<1>11. ASSUME NEW p \in 1..n, NEW q \in 1..n, p < q
       PROVE  <<s[p], s[q]>> \in before
  <2>1. s[p] \in S /\ s[q] \in S /\ rank[s[p]] = p - 1 /\ rank[s[q]] = q - 1
      BY <1>7
  <2>2. ~(rank[s[q]] < rank[s[p]]) /\ s[p] # s[q]
      BY <1>1, <1>9, <1>11, <2>1
  <2>3. <<s[q], s[p]>> \notin before
      BY <1>2, <2>1, <2>2
  <2> QED
      BY <2>1, <2>2, <2>3 DEF TotallyOrders
<1>12. Pairs(s, 1..n, S)
    BY <1>8, <1>9, <1>10 DEF Pairs
<1>13. \A p, q \in 1..n : p < q => <<s[p], s[q]>> \in before
    BY <1>11
<1> QED
    BY <1>1, <1>12, <1>13 DEF s, n

(* p has the list's elements at the positions P, each once, in some order. *)
Holds(p, list, P) == \E f : /\ Pairs(f, DOMAIN p, P)
                            /\ \A i \in DOMAIN p : p[i] = list[f[i]]

\* Picking loses nothing and repeats nothing.
LEMMA PickHolds ==
    ASSUME NEW T, NEW list \in Seq(T), NEW P \in SUBSET DOMAIN list
    PROVE  Pick(list, P) \in Seq(T) /\ Holds(Pick(list, P), list, P)
<1> DEFINE p == Pick(list, P)
<1>1. p \in Seq(T) /\ Picked(p, list, P, Len(list))
    BY PickIsPicked
<1> HIDE DEF p
<1>2. P \cap 1..Len(list) = P
    OBVIOUS
<1>3. PICK f \in [1..Len(p) -> P] :
          /\ \A i, j \in 1..Len(p) : i < j => f[i] < f[j]
          /\ \A k \in P : \E i \in 1..Len(p) : f[i] = k
          /\ \A i \in 1..Len(p) : p[i] = list[f[i]]
    BY <1>1, <1>2 DEF Picked
<1>4. Len(p) \in Nat /\ DOMAIN p = 1..Len(p) /\ P \subseteq Nat
    BY <1>1
<1>5. ASSUME NEW i \in DOMAIN p, NEW j \in DOMAIN p, f[i] = f[j]
      PROVE  i = j
  <2>1. i \in 1..Len(p) /\ j \in 1..Len(p) /\ f[i] \in Nat
      BY <1>4
  <2>2. ~(i < j) /\ ~(j < i)
      BY <1>3, <1>5, <2>1
  <2> QED
      BY <2>1, <2>2
<1>6. Pairs(f, DOMAIN p, P)
    BY <1>3, <1>4, <1>5 DEF Pairs
<1> QED
    BY <1>1, <1>3, <1>4, <1>6 DEF Holds, p

\* What holds all of a list holds what the list holds.
LEMMA HoldsThrough ==
    ASSUME NEW p, NEW q, NEW list, NEW P, Holds(p, q, DOMAIN q), Holds(q, list, P)
    PROVE  Holds(p, list, P)
<1>1. PICK f : Pairs(f, DOMAIN p, DOMAIN q) /\ \A i \in DOMAIN p : p[i] = q[f[i]]
    BY DEF Holds
<1>2. PICK g : Pairs(g, DOMAIN q, P) /\ \A i \in DOMAIN q : q[i] = list[g[i]]
    BY DEF Holds
<1> DEFINE h == [i \in DOMAIN p |-> g[f[i]]]
<1>3. Pairs(h, DOMAIN p, P)
  <2>1. h \in [DOMAIN p -> P]
      BY <1>1, <1>2 DEF Pairs
  <2>2. \A i, j \in DOMAIN p : h[i] = h[j] => i = j
      BY <1>1, <1>2 DEF Pairs
  <2>3. ASSUME NEW k \in P
        PROVE  \E i \in DOMAIN p : h[i] = k
    <3>1. PICK j \in DOMAIN q : g[j] = k
        BY <1>2 DEF Pairs
    <3>2. PICK i \in DOMAIN p : f[i] = j
        BY <1>1 DEF Pairs
    <3> QED
        BY <3>1, <3>2
  <2> HIDE DEF h
  <2> QED
      BY <2>1, <2>2, <2>3 DEF Pairs
<1>4. \A i \in DOMAIN p : p[i] = list[h[i]]
    BY <1>1, <1>2 DEF Pairs
<1> HIDE DEF h
<1> QED
    BY <1>3, <1>4 DEF Holds

\* So many of the elements that are held are in a set.
LEMMA HeldAreCounted ==
    ASSUME NEW p, NEW list, NEW P, Holds(p, list, P), IsFiniteSet(P), NEW X
    PROVE  /\ IsFiniteSet({i \in DOMAIN p : p[i] \in X})
           /\ Cardinality({i \in DOMAIN p : p[i] \in X}) = Cardinality({k \in P : list[k] \in X})
<1>1. PICK f : Pairs(f, DOMAIN p, P) /\ \A i \in DOMAIN p : p[i] = list[f[i]]
    BY DEF Holds
<1> DEFINE A == {i \in DOMAIN p : p[i] \in X}
           C == {k \in P : list[k] \in X}
           g == [i \in A |-> f[i]]
           h == [k \in C |-> CHOOSE i \in A : f[i] = k]
<1>2. \A k \in C : \E i \in A : f[i] = k
    BY <1>1 DEF Pairs
<1>3. \A k \in C : h[k] \in A /\ f[h[k]] = k
    BY <1>2
<1>4. \A i \in A : f[i] \in C
    BY <1>1 DEF Pairs
<1>5. Pairs(h, C, A)
  <2>1. h \in [C -> A]
      BY <1>3
  <2>2. \A k, l \in C : h[k] = h[l] => k = l
      BY <1>3
  <2>3. ASSUME NEW i \in A
        PROVE  \E k \in C : h[k] = i
    <3>1. f[i] \in C /\ h[f[i]] \in A /\ f[h[f[i]]] = f[i]
        BY <1>3, <1>4
    <3>2. h[f[i]] = i
        BY <1>1, <3>1 DEF Pairs
    <3> QED
        BY <3>1, <3>2
  <2> HIDE DEF h, A, C
  <2> QED
      BY <2>1, <2>2, <2>3 DEF Pairs
<1>6. IsFiniteSet(C)
  <2>1. C \in SUBSET P
      OBVIOUS
  <2> HIDE DEF C
  <2> QED
      BY <2>1, FS_Subset
<1>7. IsFiniteSet(A) /\ Cardinality(A) = Cardinality(C)
  <2> HIDE DEF h, A, C
  <2> QED
      BY <1>5, <1>6, PairedSets
<1> QED
    BY <1>7
===============================================================================
