-------------------------- MODULE Accounts_proofs ---------------------------
(***************************************************************************)
(* What the accounts of the system rest on: the laws of Total, and the     *)
(* operations of the portfolio.                                            *)
(*                                                                         *)
(* MapThenSumSet takes the members of a set in an order of its own         *)
(* choosing; every fact below holds because that order does not matter,    *)
(* which is shown by induction on the size of the set.  The induction      *)
(* theorems of the library have a predicate for a parameter, which the     *)
(* provers cannot instantiate.  InductiveSet states induction for a set of *)
(* numbers instead, from the library's theorem that every non-empty subset *)
(* of a well-founded set has a minimal element.                            *)
(***************************************************************************)
EXTENDS Portfolio, Totals, FiniteSetTheorems, WellFoundedInduction, TLAPS

(* A set of numbers with 0 in it, and the successor of each of its numbers, *)
(* has every number in it.                                                 *)
LEMMA InductiveSet ==
  ASSUME NEW P, 0 \in P, \A n \in Nat : n \in P => n + 1 \in P
  PROVE  Nat \subseteq P
<1> DEFINE T == {n \in Nat : n \notin P}
           R == OpToRel(<, Nat)
<1> SUFFICES ASSUME T # {} PROVE FALSE
  OBVIOUS
<1>1. IsWellFoundedOn(R, Nat)
  BY NatLessThanWellFounded
<1>2. PICK m \in T : \A y \in T : ~(<<y, m>> \in R)
  <2> HIDE DEF T, R
  <2>1. T \subseteq Nat
    BY DEF T
  <2> QED
    BY <1>1, <2>1, WFMin
<1>3. m \in Nat /\ m # 0
  BY <1>2
<1>4. m - 1 \in Nat
  BY <1>3
<1>5. m - 1 \in T
  <2>1. m - 1 \in P => (m - 1) + 1 \in P
    BY <1>4
  <2>2. (m - 1) + 1 = m /\ m \notin P
    BY <1>3
  <2> QED
    BY <1>4, <2>1, <2>2
<1>6. <<m - 1, m>> \in R
  BY <1>3, <1>4 DEF OpToRel
<1> QED
  BY <1>2, <1>5, <1>6

-----------------------------------------------------------------------------
(* The sums of the subsets of a set.                                       *)

Pick(S) == CHOOSE x \in S : TRUE

\* g is a table of the sums of the sets in D.
SumsUp(g, f, D) ==
    g = [s \in D |-> IF s = {} THEN 0 ELSE f[Pick(s)] + g[s \ {Pick(s)}]]

\* The names below stand for what they say, for the provers to match as a whole.
Table(g, f, S) == SumsUp(g, f, SUBSET S)

Within(s, S) == s \in SUBSET S

\* Two functions give the same to the members of s.
Agree(f, e, s) == \A x \in s : f[x] = e[x]

\* The subsets of S of at most n members.
Small(n, S) == {s \in SUBSET S : Cardinality(s) <= n}

(* Total reads its sum off a table of the sums of all subsets.             *)
LEMMA TotalDef ==
  ASSUME NEW f, NEW S
  PROVE  Total(f, S) = (CHOOSE g : SumsUp(g, f, SUBSET S))[S]
BY DEF Total, MapThenSumSet, MapThenFoldSet, SumsUp, Pick

(* Taking one member out of a finite set leaves a set that is smaller.     *)
LEMMA PickShrinks ==
  ASSUME NEW S, IsFiniteSet(S), NEW s \in SUBSET S, s # {}
  PROVE  /\ Pick(s) \in s
         /\ s \ {Pick(s)} \in SUBSET S
         /\ IsFiniteSet(s) /\ IsFiniteSet(s \ {Pick(s)})
         /\ Cardinality(s) \in Nat
         /\ Cardinality(s \ {Pick(s)}) = Cardinality(s) - 1
<1>1. Pick(s) \in s
  BY DEF Pick
<1>2. IsFiniteSet(s)
  BY FS_Subset
<1> QED
  BY <1>1, <1>2, FS_RemoveElement, FS_CardinalityType

(* So does taking one out of a set of n + 1 members, for the induction.    *)
LEMMA PickOfSize ==
  ASSUME NEW S, IsFiniteSet(S), NEW n \in Nat, NEW s \in SUBSET S, Cardinality(s) = n + 1
  PROVE  /\ s # {} /\ Pick(s) \in s
         /\ s \ {Pick(s)} \in SUBSET S
         /\ Cardinality(s \ {Pick(s)}) = n
<1>1. s # {}
  <2> SUFFICES ASSUME s = {} PROVE FALSE
    OBVIOUS
  <2>1. n + 1 = 0
    BY FS_EmptySet
  <2> QED
    BY <2>1
<1>2. /\ Pick(s) \in s /\ s \ {Pick(s)} \in SUBSET S
      /\ Cardinality(s \ {Pick(s)}) = Cardinality(s) - 1
  BY <1>1, PickShrinks
<1> QED
  BY <1>1, <1>2

(* There is a table of the sums of all subsets of a finite set ...         *)
LEMMA SumsExist ==
  ASSUME NEW S, IsFiniteSet(S), NEW f
  PROVE  \E g : SumsUp(g, f, SUBSET S)
<1> DEFINE P == {n \in Nat : \E g : SumsUp(g, f, Small(n, S))}
<1>1. 0 \in P
  <2> DEFINE g == [s \in Small(0, S) |-> 0]
  <2>1. ASSUME NEW s \in Small(0, S) PROVE s = {}
    <3>1. s \in SUBSET S /\ Cardinality(s) <= 0
      BY DEF Small
    <3>2. IsFiniteSet(s) /\ Cardinality(s) \in Nat
      BY <3>1, FS_Subset, FS_CardinalityType
    <3> QED
      BY <3>1, <3>2, FS_EmptySet
  <2>2. SumsUp(g, f, Small(0, S))
    BY <2>1 DEF SumsUp
  <2> QED
    BY <2>2
<1>2. ASSUME NEW n \in Nat, n \in P PROVE n + 1 \in P
  <2>1. PICK g : SumsUp(g, f, Small(n, S))
    BY <1>2
  <2> DEFINE h == [s \in Small(n + 1, S) |->
                     IF s = {} THEN 0 ELSE f[Pick(s)] + g[s \ {Pick(s)}]]
  <2>2. \A s \in Small(n, S) : s \in Small(n + 1, S)
    <3> SUFFICES ASSUME NEW s \in Small(n, S) PROVE s \in Small(n + 1, S)
      OBVIOUS
    <3>1. s \in SUBSET S /\ Cardinality(s) <= n
      BY DEF Small
    <3>2. Cardinality(s) \in Nat
      BY <3>1, FS_Subset, FS_CardinalityType
    <3> QED
      BY <3>1, <3>2 DEF Small
  <2>3. \A s \in Small(n, S) : h[s] = g[s]
    BY <2>1, <2>2 DEF SumsUp
  <2>4. \A s \in Small(n + 1, S) : s # {} => s \ {Pick(s)} \in Small(n, S)
    <3> SUFFICES ASSUME NEW s \in Small(n + 1, S), s # {}
                 PROVE  s \ {Pick(s)} \in Small(n, S)
      OBVIOUS
    <3>1. s \in SUBSET S /\ Cardinality(s) <= n + 1
      BY DEF Small
    <3>2. /\ s \ {Pick(s)} \in SUBSET S /\ Cardinality(s) \in Nat
          /\ Cardinality(s \ {Pick(s)}) = Cardinality(s) - 1
      BY <3>1, PickShrinks
    <3> QED
      BY <3>1, <3>2 DEF Small
  <2>5. SumsUp(h, f, Small(n + 1, S))
    BY <2>3, <2>4 DEF SumsUp
  <2> QED
    BY <2>5
<1>3. Cardinality(S) \in P
  <2> HIDE DEF P
  <2> QED
    BY <1>1, <1>2, InductiveSet, FS_CardinalityType
<1>4. Small(Cardinality(S), S) = SUBSET S
  BY FS_Subset DEF Small
<1> QED
  BY <1>3, <1>4

(* ... and what it gives to a set depends on nothing but the members of    *)
(* the set.                                                                *)
LEMMA SumsUnique ==
  ASSUME NEW S, NEW s, IsFiniteSet(S), Within(s, S),
         NEW f, NEW e, NEW g, NEW h, Table(g, f, S), Table(h, e, s), Agree(f, e, s)
  PROVE  g[s] = h[s]
<1> USE DEF Within, Table
<1> DEFINE Same(u) == u \in SUBSET s => g[u] = h[u]
           P == {n \in Nat : \A u \in SUBSET s : Cardinality(u) = n => g[u] = h[u]}
<1>0. ASSUME NEW u \in SUBSET s
      PROVE  /\ u \in SUBSET S
             /\ IsFiniteSet(u) /\ Cardinality(u) \in Nat
             /\ g[u] = IF u = {} THEN 0 ELSE f[Pick(u)] + g[u \ {Pick(u)}]
             /\ h[u] = IF u = {} THEN 0 ELSE e[Pick(u)] + h[u \ {Pick(u)}]
  <2>1. u \in SUBSET S
    OBVIOUS
  <2>2. IsFiniteSet(u) /\ Cardinality(u) \in Nat
    BY <2>1, FS_Subset, FS_CardinalityType
  <2> QED
    BY <2>1, <2>2 DEF SumsUp
<1>1. 0 \in P
  BY <1>0, FS_EmptySet
<1>2. ASSUME NEW n \in Nat, n \in P PROVE n + 1 \in P
  <2> USE DEF Agree
  <2> SUFFICES ASSUME NEW u \in SUBSET s, Cardinality(u) = n + 1 PROVE g[u] = h[u]
    OBVIOUS
  <2>1. IsFiniteSet(s)
    BY FS_Subset
  <2>2. /\ u # {} /\ Pick(u) \in u /\ u \ {Pick(u)} \in SUBSET s
        /\ Cardinality(u \ {Pick(u)}) = n
    <3> HIDE DEF P
    <3> QED
      BY <2>1, PickOfSize
  <2> QED
    BY <1>0, <1>2, <2>2
<1>3. Cardinality(s) \in Nat
  BY <1>0
<1>4. Nat \subseteq P
  <2> HIDE DEF P
  <2> QED
    BY <1>1, <1>2, InductiveSet
<1> QED
  BY <1>3, <1>4

\* g gives the total of f on every subset of S.
Tabulates(g, f, S) ==
    /\ SumsUp(g, f, SUBSET S)
    /\ \A s \in SUBSET S : Total(f, s) = g[s]

(* So one table has the totals of all subsets of a finite set.             *)
LEMMA TotalTable ==
  ASSUME NEW S, IsFiniteSet(S), NEW f
  PROVE  \E g : Tabulates(g, f, S)
<1> DEFINE Tab(s) == CHOOSE g : SumsUp(g, f, SUBSET s)
<1>1. ASSUME NEW s \in SUBSET S PROVE SumsUp(Tab(s), f, SUBSET s) /\ IsFiniteSet(s)
  <2>1. IsFiniteSet(s)
    BY FS_Subset
  <2> QED
    BY <2>1, SumsExist
<1>2. \A s \in SUBSET S : Total(f, s) = Tab(s)[s]
  BY TotalDef
<1>3. ASSUME NEW s \in SUBSET S PROVE Tab(s)[s] = Tab(S)[s]
  <2>1. Table(Tab(s), f, s) /\ Table(Tab(S), f, S) /\ Within(s, S) /\ Agree(f, f, s)
    BY <1>1 DEF Agree, Table, Within
  <2> HIDE DEF Tab
  <2> QED
    BY <2>1, SumsUnique
<1>4. SumsUp(Tab(S), f, SUBSET S)
  BY <1>1
<1> HIDE DEF Tab
<1> QED
  BY <1>2, <1>3, <1>4 DEF Tabulates

(* Nothing adds up to 0.                                                   *)
LEMMA TotalEmpty ==
  ASSUME NEW f
  PROVE  Total(f, {}) = 0
<1>1. IsFiniteSet({})
  BY FS_EmptySet
<1>2. PICK g : Tabulates(g, f, {})
  BY <1>1, TotalTable
<1> QED
  BY <1>2 DEF SumsUp, Tabulates

(* A total is that of the member taken first and of the others.            *)
LEMMA TotalPick ==
  ASSUME NEW S, IsFiniteSet(S), S # {}, NEW f
  PROVE  Total(f, S) = f[Pick(S)] + Total(f, S \ {Pick(S)})
<1>1. PICK g : Tabulates(g, f, S)
  BY TotalTable
<1> QED
  BY <1>1 DEF SumsUp, Tabulates

(* Functions that agree on a set have the same total on it.                *)
LEMMA TotalSame ==
  ASSUME NEW S, IsFiniteSet(S), NEW f, NEW e, \A x \in S : f[x] = e[x]
  PROVE  Total(f, S) = Total(e, S)
<1>1. PICK g : Tabulates(g, f, S)
  BY TotalTable
<1>2. PICK h : Tabulates(h, e, S)
  BY TotalTable
<1>3. Table(g, f, S) /\ Table(h, e, S) /\ Within(S, S) /\ Agree(f, e, S)
  BY <1>1, <1>2 DEF Tabulates, Table, Within, Agree
<1>4. g[S] = h[S]
  BY <1>3, SumsUnique
<1> QED
  BY <1>1, <1>2, <1>4 DEF Tabulates

(* A total of integers is an integer.                                      *)
LEMMA TotalType ==
  ASSUME NEW S, IsFiniteSet(S), NEW f, \A x \in S : f[x] \in Int
  PROVE  Total(f, S) \in Int
<1> DEFINE P == {n \in Nat : \A s \in SUBSET S : Cardinality(s) = n => Total(f, s) \in Int}
<1>0. \A s \in SUBSET S : IsFiniteSet(s) /\ Cardinality(s) \in Nat
  BY FS_Subset, FS_CardinalityType
<1>1. 0 \in P
  BY <1>0, FS_EmptySet, TotalEmpty
<1>2. ASSUME NEW n \in Nat, n \in P PROVE n + 1 \in P
  <2> SUFFICES ASSUME NEW s \in SUBSET S, Cardinality(s) = n + 1 PROVE Total(f, s) \in Int
    OBVIOUS
  <2>1. /\ s # {} /\ Pick(s) \in s
        /\ s \ {Pick(s)} \in SUBSET S /\ Cardinality(s \ {Pick(s)}) = n
    <3> HIDE DEF P
    <3> QED
      BY PickOfSize
  <2>2. Total(f, s \ {Pick(s)}) \in Int /\ f[Pick(s)] \in Int
    BY <1>2, <2>1
  <2>3. Total(f, s) = f[Pick(s)] + Total(f, s \ {Pick(s)})
    <3> HIDE DEF P
    <3> QED
      BY <1>0, <2>1, TotalPick
  <2> QED
    BY <2>2, <2>3
<1>3. Nat \subseteq P
  <2> HIDE DEF P
  <2> QED
    BY <1>1, <1>2, InductiveSet
<1> QED
  BY <1>0, <1>3

(* Any member may be taken first.                                          *)
LEMMA TotalRemove ==
  ASSUME NEW S, IsFiniteSet(S), NEW f, \A x \in S : f[x] \in Int, NEW x \in S
  PROVE  Total(f, S) = f[x] + Total(f, S \ {x})
<1> DEFINE Takes(s) == \A y \in s : Total(f, s) = f[y] + Total(f, s \ {y})
           P == {n \in Nat : \A s \in SUBSET S : Cardinality(s) = n => Takes(s)}
<1>0. \A s \in SUBSET S : IsFiniteSet(s) /\ Cardinality(s) \in Nat
  BY FS_Subset, FS_CardinalityType
<1>1. 0 \in P
  BY <1>0, FS_EmptySet
<1>2. ASSUME NEW n \in Nat, n \in P PROVE n + 1 \in P
  <2> SUFFICES ASSUME NEW s \in SUBSET S, Cardinality(s) = n + 1, NEW y \in s
               PROVE  Total(f, s) = f[y] + Total(f, s \ {y})
    OBVIOUS
  <2> DEFINE c == Pick(s)
  <2>1. s # {} /\ c \in s /\ s \ {c} \in SUBSET S /\ Cardinality(s \ {c}) = n
    <3> HIDE DEF P
    <3> QED
      BY PickOfSize
  <2>2. Total(f, s) = f[c] + Total(f, s \ {c})
    <3> HIDE DEF P
    <3> QED
      BY <1>0, <2>1, TotalPick
  <2>3. ASSUME y # c PROVE Total(f, s) = f[y] + Total(f, s \ {y})
    <3>1. s \ {y} \in SUBSET S /\ Cardinality(s \ {y}) = n
      BY <1>0, FS_RemoveElement
    <3>2. Total(f, s \ {c}) = f[y] + Total(f, (s \ {c}) \ {y})
      <4> HIDE DEF c
      <4> QED
        BY <1>2, <2>1, <2>3
    <3>3. Total(f, s \ {y}) = f[c] + Total(f, (s \ {y}) \ {c})
      <4> HIDE DEF c
      <4> QED
        BY <1>2, <2>1, <2>3, <3>1
    <3>4. (s \ {y}) \ {c} = (s \ {c}) \ {y}
      OBVIOUS
    <3>5. Total(f, (s \ {c}) \ {y}) \in Int
      <4>1. (s \ {c}) \ {y} \in SUBSET S
        OBVIOUS
      <4> QED
        BY <1>0, <4>1, TotalType
    <3>6. f[c] \in Int /\ f[y] \in Int
      BY <2>1
    <3>7. Total(f, s \ {y}) = f[c] + Total(f, (s \ {c}) \ {y})
      BY <3>3, <3>4
    <3> HIDE DEF c, P, Takes
    <3> QED
      BY <2>2, <3>2, <3>7, <3>5, <3>6
  <2> HIDE DEF c
  <2> QED
    BY <2>2, <2>3
<1>3. Nat \subseteq P
  <2> HIDE DEF P
  <2> QED
    BY <1>1, <1>2, InductiveSet
<1> QED
  BY <1>0, <1>3

(* A new member adds what it brings.                                       *)
LEMMA TotalAdd ==
  ASSUME NEW S, IsFiniteSet(S), NEW x, x \notin S,
         NEW f, \A y \in S \cup {x} : f[y] \in Int
  PROVE  Total(f, S \cup {x}) = f[x] + Total(f, S)
<1> DEFINE T == S \cup {x}
<1>1. IsFiniteSet(T) /\ x \in T /\ T \ {x} = S /\ \A y \in T : f[y] \in Int
  BY FS_AddElement
<1> HIDE DEF T
<1>2. Total(f, T) = f[x] + Total(f, T \ {x})
  BY <1>1, TotalRemove
<1> QED
  BY <1>1, <1>2 DEF T

(* Changing what one member brings changes the total by as much.           *)
LEMMA TotalUpdate ==
  ASSUME NEW S, IsFiniteSet(S), NEW f, \A y \in S : f[y] \in Int,
         NEW e, NEW x \in S, e[x] \in Int, \A y \in S \ {x} : e[y] = f[y]
  PROVE  Total(e, S) = Total(f, S) - f[x] + e[x]
<1>1. IsFiniteSet(S \ {x})
  BY FS_RemoveElement
<1>2. Total(e, S \ {x}) = Total(f, S \ {x})
  BY <1>1, TotalSame
<1>3. Total(f, S \ {x}) \in Int
  BY <1>1, TotalType
<1>4. Total(f, S) = f[x] + Total(f, S \ {x})
  BY TotalRemove
<1>5. Total(e, S) = e[x] + Total(e, S \ {x})
  <2>1. \A y \in S : e[y] \in Int
    OBVIOUS
  <2> QED
    BY <2>1, TotalRemove
<1>6. f[x] \in Int /\ e[x] \in Int
  OBVIOUS
<1> QED
  BY <1>2, <1>3, <1>4, <1>5, <1>6

(* If every member brings at least as much, so does the total; and it is   *)
(* not negative when no member brings less than nothing.                   *)
LEMMA TotalMonotone ==
  ASSUME NEW S, IsFiniteSet(S), NEW f, NEW e,
         \A x \in S : f[x] \in Int /\ e[x] \in Int /\ f[x] <= e[x]
  PROVE  Total(f, S) <= Total(e, S)
<1> DEFINE Less(s) == Total(f, s) <= Total(e, s)
           P == {n \in Nat : \A s \in SUBSET S : Cardinality(s) = n => Less(s)}
<1>0. \A s \in SUBSET S : /\ IsFiniteSet(s) /\ Cardinality(s) \in Nat
                          /\ Total(f, s) \in Int /\ Total(e, s) \in Int
  <2>1. ASSUME NEW s \in SUBSET S PROVE IsFiniteSet(s) /\ Cardinality(s) \in Nat
    BY FS_Subset, FS_CardinalityType
  <2>2. ASSUME NEW s \in SUBSET S PROVE Total(f, s) \in Int /\ Total(e, s) \in Int
    <3>1. (\A x \in s : f[x] \in Int) /\ (\A x \in s : e[x] \in Int)
      OBVIOUS
    <3> QED
      BY <2>1, <3>1, TotalType
  <2> QED
    BY <2>1, <2>2
<1>1. 0 \in P
  BY <1>0, FS_EmptySet, TotalEmpty
<1>2. ASSUME NEW n \in Nat, n \in P PROVE n + 1 \in P
  <2> SUFFICES ASSUME NEW s \in SUBSET S, Cardinality(s) = n + 1 PROVE Less(s)
    OBVIOUS
  <2> DEFINE x == Pick(s)
             r == s \ {x}
  <2>1. s # {} /\ x \in s /\ r \in SUBSET S /\ Cardinality(r) = n
    <3> HIDE DEF P
    <3> QED
      BY PickOfSize
  <2>2. Total(f, s) = f[x] + Total(f, r) /\ Total(e, s) = e[x] + Total(e, r)
    <3> HIDE DEF P
    <3> QED
      BY <1>0, <2>1, TotalPick
  <2>3. Total(f, r) <= Total(e, r)
    BY <1>2, <2>1
  <2>4. f[x] \in Int /\ e[x] \in Int /\ f[x] <= e[x]
    BY <2>1
  <2>5. Total(f, r) \in Int /\ Total(e, r) \in Int
    BY <1>0, <2>1
  <2> HIDE DEF x, r, P
  <2> QED
    BY <2>2, <2>3, <2>4, <2>5
<1>3. Nat \subseteq P
  <2> HIDE DEF P
  <2> QED
    BY <1>1, <1>2, InductiveSet
<1> QED
  BY <1>0, <1>3

(* If no member brings anything, neither does the set.                     *)
LEMMA TotalZero ==
  ASSUME NEW S, IsFiniteSet(S), NEW f, \A x \in S : f[x] = 0
  PROVE  Total(f, S) = 0
<1> DEFINE P == {n \in Nat : \A s \in SUBSET S : Cardinality(s) = n => Total(f, s) = 0}
<1>0. \A s \in SUBSET S : IsFiniteSet(s) /\ Cardinality(s) \in Nat
  BY FS_Subset, FS_CardinalityType
<1>1. 0 \in P
  BY <1>0, FS_EmptySet, TotalEmpty
<1>2. ASSUME NEW n \in Nat, n \in P PROVE n + 1 \in P
  <2> SUFFICES ASSUME NEW s \in SUBSET S, Cardinality(s) = n + 1 PROVE Total(f, s) = 0
    OBVIOUS
  <2>1. /\ s # {} /\ Pick(s) \in s
        /\ s \ {Pick(s)} \in SUBSET S /\ Cardinality(s \ {Pick(s)}) = n
    <3> HIDE DEF P
    <3> QED
      BY PickOfSize
  <2>2. Total(f, s) = f[Pick(s)] + Total(f, s \ {Pick(s)})
    <3> HIDE DEF P
    <3> QED
      BY <1>0, <2>1, TotalPick
  <2> QED
    BY <1>2, <2>1, <2>2
<1>3. Nat \subseteq P
  <2> HIDE DEF P
  <2> QED
    BY <1>1, <1>2, InductiveSet
<1> QED
  BY <1>0, <1>3

(* Members that bring nothing may be left out.                             *)
LEMMA TotalWithout ==
  ASSUME NEW S, IsFiniteSet(S), NEW T \in SUBSET S, NEW f, \A x \in S : f[x] \in Int,
         \A x \in S \ T : f[x] = 0
  PROVE  Total(f, S) = Total(f, T)
<1> DEFINE P == {n \in Nat : \A s \in SUBSET S :
                   Cardinality(s) = n => Total(f, s) = Total(f, s \cap T)}
<1>0. \A s \in SUBSET S : IsFiniteSet(s) /\ Cardinality(s) \in Nat
  BY FS_Subset, FS_CardinalityType
<1>1. 0 \in P
  <2>1. ASSUME NEW s \in SUBSET S, Cardinality(s) = 0 PROVE s = {} /\ s \cap T = {}
    BY <1>0, <2>1, FS_EmptySet
  <2> QED
    BY <2>1, TotalEmpty
<1>2. ASSUME NEW n \in Nat, n \in P PROVE n + 1 \in P
  <2> SUFFICES ASSUME NEW s \in SUBSET S, Cardinality(s) = n + 1
               PROVE  Total(f, s) = Total(f, s \cap T)
    OBVIOUS
  <2> DEFINE x == Pick(s)
             r == s \ {x}
  <2>1. s # {} /\ x \in s /\ r \in SUBSET S /\ Cardinality(r) = n
    <3> HIDE DEF P
    <3> QED
      BY PickOfSize
  <2>2. Total(f, s) = f[x] + Total(f, r)
    <3> HIDE DEF P
    <3> QED
      BY <1>0, <2>1, TotalPick
  <2>3. Total(f, r) = Total(f, r \cap T)
    BY <1>2, <2>1
  <2>4. f[x] \in Int /\ IsFiniteSet(r \cap T)
    BY <1>0, <2>1
  <2>5. Total(f, r \cap T) \in Int
    <3>1. \A y \in r \cap T : f[y] \in Int
      OBVIOUS
    <3> HIDE DEF P, r
    <3> QED
      BY <2>4, <3>1, TotalType
  <2>6. CASE x \in T
    <3>1. s \cap T = (r \cap T) \cup {x} /\ x \notin r \cap T
      BY <2>1, <2>6
    <3>2. \A y \in (r \cap T) \cup {x} : f[y] \in Int
      BY <2>1
    <3>3. Total(f, (r \cap T) \cup {x}) = f[x] + Total(f, r \cap T)
      <4> HIDE DEF P, x, r
      <4> QED
        BY <2>4, <3>1, <3>2, TotalAdd
    <3> HIDE DEF P, x, r
    <3> QED
      BY <2>2, <2>3, <3>1, <3>3
  <2>7. CASE x \notin T
    <3>1. s \cap T = r \cap T /\ f[x] = 0
      BY <2>1, <2>7
    <3>2. Total(f, s \cap T) = Total(f, r \cap T)
      BY <3>1
    <3> HIDE DEF P, x, r
    <3> QED
      BY <2>2, <2>3, <2>5, <3>1, <3>2
  <2> QED
    BY <2>6, <2>7
<1>3. Nat \subseteq P
  <2> HIDE DEF P
  <2> QED
    BY <1>1, <1>2, InductiveSet
<1>4. S \cap T = T
  OBVIOUS
<1> QED
  BY <1>0, <1>3, <1>4

(* A part of a set adds up to no more than the whole, if nobody brings less *)
(* than nothing; and to no less than nothing.                              *)
LEMMA TotalSubset ==
  ASSUME NEW S, IsFiniteSet(S), NEW T \in SUBSET S,
         NEW f, \A x \in S : f[x] \in Int /\ f[x] >= 0
  PROVE  Total(f, T) <= Total(f, S) /\ 0 <= Total(f, T)
<1> DEFINE e == [x \in S |-> IF x \in T THEN f[x] ELSE 0]
           z == [x \in S |-> 0]
<1>1. IsFiniteSet(T)
  BY FS_Subset
<1>2. /\ \A x \in T : f[x] = e[x]
      /\ \A x \in S \ T : e[x] = 0
      /\ \A x \in S : e[x] \in Int
      /\ \A x \in S : e[x] \in Int /\ f[x] \in Int /\ e[x] <= f[x]
      /\ \A x \in T : z[x] \in Int /\ f[x] \in Int /\ z[x] <= f[x]
      /\ \A x \in T : z[x] = 0
  OBVIOUS
<1> HIDE DEF e, z
<1>3. Total(f, T) = Total(e, T)
  BY <1>1, <1>2, TotalSame
<1>4. Total(e, S) = Total(e, T)
  BY <1>2, TotalWithout
<1>5. Total(e, S) <= Total(f, S)
  BY <1>2, TotalMonotone
<1>6. Total(z, T) <= Total(f, T)
  BY <1>1, <1>2, TotalMonotone
<1>7. Total(z, T) = 0
  BY <1>1, <1>2, TotalZero
<1> QED
  BY <1>3, <1>4, <1>5, <1>6, <1>7

-----------------------------------------------------------------------------
(* The portfolio.                                                          *)

(* reserve_funds moves capital between two fields: nothing is gained, lost *)
(* or realised by it, and the total need not be recomputed.                *)
LEMMA ReserveType ==
  ASSUME NEW p \in PortfolioState, NEW x \in Int, NEW m \in Modules
  PROVE  /\ Reserve(p, x, m) \in PortfolioState
         /\ Reserve(p, x, m).available = p.available - x
         /\ Reserve(p, x, m).realized = p.realized
         /\ Reserve(p, x, m).total = p.total
         /\ Worth(Reserve(p, x, m)) = Worth(p)
<1>1. CASE m = "trading"
  BY <1>1 DEF PortfolioState, Reserve, Modules, Worth
<1>2. CASE m = "polymarket"
  BY <1>2 DEF PortfolioState, Reserve, Modules, Worth
<1>. QED  BY <1>1, <1>2 DEF Modules

(* release_funds raises what the portfolio is worth by the profit made and *)
(* by nothing else, whatever capital it is told to give back.              *)
LEMMA ReleaseType ==
  ASSUME NEW p \in PortfolioState, NEW x \in Int, NEW y \in Int, NEW m \in Modules
  PROVE  /\ Release(p, x, y, m) \in PortfolioState
         /\ Release(p, x, y, m).available = p.available + x + y
         /\ Release(p, x, y, m).realized = p.realized + y
         /\ Release(p, x, y, m).total = Worth(p) + y
         /\ Worth(Release(p, x, y, m)) = Worth(p) + y
<1>1. CASE m = "trading"
  BY <1>1 DEF PortfolioState, Release, Modules, Worth
<1>2. CASE m = "polymarket"
  BY <1>2 DEF PortfolioState, Release, Modules, Worth
<1>. QED  BY <1>1, <1>2 DEF Modules
=============================================================================
