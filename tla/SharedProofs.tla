---------------------------- MODULE SharedProofs ----------------------------
(***************************************************************************)
(* What the proofs of several components share: the role variables stay    *)
(* typed, and sums over finite sets.                                       *)
(*                                                                         *)
(* Induction is used in first-order form.  "Every natural number is in S"  *)
(* and "no finite set is a counterexample" follow from WFMin, the minimal  *)
(* element of a set under a well-founded order; the library's induction    *)
(* theorems, whose parameter is an operator, are not needed.               *)
(***************************************************************************)
EXTENDS Access, FiniteSetsExt, FiniteSetTheorems, TLAPS

-----------------------------------------------------------------------------
(* Induction and sums *)

\* iter adds up f over each set of the family, as the library's sum does.
Adds(iter, f, family) ==
    \A s \in family :
        iter[s] = IF s = {} THEN 0
                  ELSE f[CHOOSE x \in s : TRUE] + iter[s \ {CHOOSE x \in s : TRUE}]

\* Among finite sets, one that a family holds has a smallest one in it.
LEMMA Smallest ==
    ASSUME NEW D, IsFiniteSet(D), NEW family \in SUBSET (SUBSET D), family # {}
    PROVE  \E s \in family : \A t \in family : ~ (t \subseteq s /\ t # s)
<1> DEFINE R == StrictSubsetOrdering(D)
<1>1. IsWellFoundedOn(R, SUBSET D)
  BY FS_StrictSubsetOrderingWellFounded, FS_FiniteSubsetsOfFinite
<1>2. \A s, t \in SUBSET D : t \subseteq s /\ t # s => <<t, s>> \in R
  BY DEF StrictSubsetOrdering
<1> HIDE DEF R
<1>3. PICK s \in family : \A t \in family : ~ (<<t, s>> \in R)
  BY <1>1, WFMin
<1> QED BY <1>2, <1>3

LEMMA Induction ==
    ASSUME NEW S, 0 \in S, \A n \in Nat : n \in S => n + 1 \in S
    PROVE  Nat \subseteq S
<1> SUFFICES ASSUME Nat \ S # {} PROVE FALSE
  OBVIOUS
<1> DEFINE R == OpToRel(<, Nat)
<1>1. IsWellFoundedOn(R, Nat)
  BY NatLessThanWellFounded
<1>2. \A x, y \in Nat : x < y => <<x, y>> \in R
  BY DEF OpToRel
<1> HIDE DEF R
<1>3. PICK x \in Nat \ S : \A y \in Nat \ S : ~ (<<y, x>> \in R)
  BY <1>1, WFMin
<1>4. x # 0 /\ x - 1 \in Nat
  BY <1>3
<1>5. <<x - 1, x>> \in R
  BY <1>2, <1>3, <1>4
<1>6. x - 1 \in S
  BY <1>3, <1>4, <1>5
<1>7. (x - 1) + 1 \in S
  BY <1>4, <1>6
<1>8. (x - 1) + 1 = x
  BY <1>3
<1> QED BY <1>3, <1>7, <1>8

\* The recursion has a solution on a finite set.
LEMMA SumExists ==
    ASSUME NEW f, NEW S, IsFiniteSet(S)
    PROVE  \E iter : iter = [s \in SUBSET S |-> iter[s]] /\ Adds(iter, f, SUBSET S)
<1> DEFINE Small(n) == {s \in SUBSET S : Cardinality(s) <= n}
           Good == {n \in Nat : \E iter : Adds(iter, f, Small(n))}
           body(iter, s) == IF s = {} THEN 0
                  ELSE f[CHOOSE x \in s : TRUE] + iter[s \ {CHOOSE x \in s : TRUE}]
<1>0. \A s \in SUBSET S : /\ IsFiniteSet(s) /\ Cardinality(s) \in Nat
                          /\ s # {} => /\ s \ {CHOOSE x \in s : TRUE} \in SUBSET S
                                       /\ Cardinality(s \ {CHOOSE x \in s : TRUE}) = Cardinality(s) - 1
  BY FS_Subset, FS_CardinalityType, FS_RemoveElement
<1>1. 0 \in Good
  <2>1. \A s \in Small(0) : s = {}
    BY <1>0, FS_EmptySet
  <2>2. Adds([s \in {{}} |-> 0], f, Small(0))
    BY <2>1 DEF Adds
  <2> QED BY <2>2
<1>2. ASSUME NEW n \in Nat, n \in Good
      PROVE  n + 1 \in Good
  <2>1. PICK iter : Adds(iter, f, Small(n))
    BY <1>2
  <2> DEFINE next == [s \in SUBSET S |-> body(iter, s)]
  <2>2. \A s \in Small(n) : next[s] = iter[s]
    BY <2>1 DEF Adds
  <2>3. ASSUME NEW s \in Small(n + 1), s # {}
        PROVE  s \ {CHOOSE x \in s : TRUE} \in Small(n)
    <3>1. s \in SUBSET S /\ Cardinality(s) <= n + 1
      OBVIOUS
    <3> QED BY <1>0, <2>3, <3>1
  <2>4. ASSUME NEW s \in Small(n + 1)
        PROVE  next[s] = body(next, s)
    <3>1. next[s] = body(iter, s)
      OBVIOUS
    <3>2. CASE s = {}
      BY <3>1, <3>2
    <3>3. CASE s # {}
      <4>1. next[s \ {CHOOSE x \in s : TRUE}] = iter[s \ {CHOOSE x \in s : TRUE}]
        BY <2>2, <2>3, <3>3
      <4> QED BY <3>1, <3>3, <4>1
    <3> QED BY <3>2, <3>3
  <2>5. Adds(next, f, Small(n + 1))
    BY <2>4 DEF Adds
  <2>6. \E it : Adds(it, f, Small(n + 1))
    <3> HIDE DEF next, Small
    <3> QED BY <2>5
  <2> HIDE DEF Small
  <2> QED BY <2>6
<1>3. Cardinality(S) \in Good
  <2> HIDE DEF Good
  <2> QED BY <1>0, <1>1, <1>2, Induction
<1>4. PICK iter : Adds(iter, f, Small(Cardinality(S)))
  BY <1>3
<1>5. Small(Cardinality(S)) = SUBSET S
  BY FS_Subset
<1> DEFINE it == [s \in SUBSET S |-> iter[s]]
<1>6. \A s \in SUBSET S : s # {} => s \ {CHOOSE x \in s : TRUE} \in SUBSET S
  OBVIOUS
<1>7. Adds(it, f, SUBSET S)
  BY <1>4, <1>5, <1>6 DEF Adds
<1>8. it = [s \in SUBSET S |-> it[s]]
  OBVIOUS
<1> QED BY <1>7, <1>8
LEMMA SumIter ==
    ASSUME NEW f, NEW S, IsFiniteSet(S)
    PROVE  \E iter : Adds(iter, f, SUBSET S) /\ SumFunctionOnSet(f, S) = iter[S]
<1> DEFINE Eq(iter) == iter = [s \in SUBSET S |->
                IF s = {} THEN 0
                ELSE f[CHOOSE x \in s : TRUE] + iter[s \ {CHOOSE x \in s : TRUE}]]
<1>1. SumFunctionOnSet(f, S) = (CHOOSE iter : Eq(iter))[S]
  BY DEF SumFunctionOnSet, FoldFunctionOnSet, MapThenFoldSet
<1>2. PICK it : it = [s \in SUBSET S |-> it[s]] /\ Adds(it, f, SUBSET S)
  BY SumExists
<1>3. Eq(it)
  <2> DEFINE body == [s \in SUBSET S |->
                IF s = {} THEN 0
                ELSE f[CHOOSE x \in s : TRUE] + it[s \ {CHOOSE x \in s : TRUE}]]
  <2>1. \A s \in SUBSET S : it[s] = body[s]
    BY <1>2 DEF Adds
  <2>2. body = [s \in SUBSET S |-> it[s]]
    BY <2>1
  <2> QED BY <1>2, <2>2
<1>4. Eq(CHOOSE iter : Eq(iter))
  <2> HIDE DEF Eq
  <2> QED BY <1>3
<1> DEFINE choice == CHOOSE iter : Eq(iter)
<1>5. Adds(choice, f, SUBSET S)
  <2>1. Eq(choice)
    BY <1>4
  <2> HIDE DEF choice
  <2> QED BY <2>1 DEF Adds
<1>6. SumFunctionOnSet(f, S) = choice[S]
  BY <1>1
<1> HIDE DEF choice
<1> QED BY <1>5, <1>6
\* Two solutions agree where both are one.
LEMMA SumUnique ==
    ASSUME NEW f, NEW S, IsFiniteSet(S), NEW T \in SUBSET S, NEW i1, NEW i2,
           Adds(i1, f, SUBSET S), Adds(i2, f, SUBSET T)
    PROVE  i1[T] = i2[T]
<1> DEFINE Bad == {s \in SUBSET T : i1[s] # i2[s]}
<1> SUFFICES ASSUME Bad # {} PROVE FALSE
  OBVIOUS
<1>1. IsFiniteSet(T)
  BY FS_Subset
<1>2. PICK s \in Bad : \A t \in Bad : ~ (t \subseteq s /\ t # s)
  <2>1. Bad \in SUBSET (SUBSET T)
    OBVIOUS
  <2> HIDE DEF Bad
  <2> QED BY <1>1, <2>1, Smallest
<1>3. s # {}
  BY <1>2 DEF Adds
<1> DEFINE less == s \ {CHOOSE x \in s : TRUE}
<1>4. less \subseteq s /\ less # s /\ less \in SUBSET T
  BY <1>2, <1>3
<1>5. i1[less] = i2[less]
  BY <1>2, <1>4
<1>6. i1[s] = f[CHOOSE x \in s : TRUE] + i1[less]
  BY <1>2, <1>3 DEF Adds
<1>7. i2[s] = f[CHOOSE x \in s : TRUE] + i2[less]
  BY <1>2, <1>3 DEF Adds
<1> QED BY <1>2, <1>5, <1>6, <1>7

\* The recursion that the sum follows.
LEMMA SumStep ==
    ASSUME NEW f, NEW S, IsFiniteSet(S)
    PROVE  SumFunctionOnSet(f, S) =
             IF S = {} THEN 0
             ELSE f[CHOOSE x \in S : TRUE] + SumFunctionOnSet(f, S \ {CHOOSE x \in S : TRUE})
<1>1. PICK it : Adds(it, f, SUBSET S) /\ SumFunctionOnSet(f, S) = it[S]
  BY SumIter
<1>2. CASE S = {}
  BY <1>1, <1>2 DEF Adds
<1>3. CASE S # {}
  <2> DEFINE T == S \ {CHOOSE x \in S : TRUE}
  <2>1. T \in SUBSET S /\ IsFiniteSet(T)
    BY FS_Subset
  <2>2. PICK i2 : Adds(i2, f, SUBSET T) /\ SumFunctionOnSet(f, T) = i2[T]
    BY <2>1, SumIter
  <2>3. it[T] = i2[T]
    <3> HIDE DEF T
    <3> QED BY <1>1, <2>1, <2>2, SumUnique
  <2>4. it[S] = f[CHOOSE x \in S : TRUE] + it[T]
    BY <1>1, <1>3 DEF Adds
  <2>5. SumFunctionOnSet(f, S) = f[CHOOSE x \in S : TRUE] + SumFunctionOnSet(f, T)
    BY <1>1, <2>2, <2>3, <2>4
  <2> QED BY <1>3, <2>5
<1> QED BY <1>2, <1>3

LEMMA SumEmpty == \A f : SumFunctionOnSet(f, {}) = 0
BY SumStep, FS_EmptySet

LEMMA SumInt ==
    ASSUME NEW f, NEW D, IsFiniteSet(D), \A x \in D : f[x] \in Int
    PROVE  \A S \in SUBSET D : SumFunctionOnSet(f, S) \in Int
<1> DEFINE Bad == {s \in SUBSET D : SumFunctionOnSet(f, s) \notin Int}
<1> SUFFICES ASSUME Bad # {} PROVE FALSE
  OBVIOUS
<1>1. PICK s \in Bad : \A t \in Bad : ~ (t \subseteq s /\ t # s)
  <2>1. Bad \in SUBSET (SUBSET D)
    OBVIOUS
  <2> HIDE DEF Bad
  <2> QED BY <2>1, Smallest
<1>2. IsFiniteSet(s)
  BY FS_Subset
<1>3. s # {}
  <2>1. 0 \in Int
    OBVIOUS
  <2> QED BY <1>1, <2>1, SumEmpty
<1> DEFINE c == CHOOSE x \in s : TRUE
<1>4. c \in s
  BY <1>3
<1>5. s \ {c} \subseteq s /\ s \ {c} # s /\ s \ {c} \in SUBSET D
  BY <1>1, <1>4
<1>6. SumFunctionOnSet(f, s \ {c}) \in Int
  BY <1>1, <1>5
<1>7. SumFunctionOnSet(f, s) = f[c] + SumFunctionOnSet(f, s \ {c})
  BY <1>2, <1>3, SumStep
<1>8. f[c] \in Int
  BY <1>1, <1>4
<1> QED BY <1>1, <1>6, <1>7, <1>8

\* The order in which the library adds does not matter.
LEMMA SumAdd ==
    ASSUME NEW f, NEW D, IsFiniteSet(D), \A x \in D : f[x] \in Int
    PROVE  \A S \in SUBSET D, x \in D :
             x \notin S => SumFunctionOnSet(f, S \cup {x}) = f[x] + SumFunctionOnSet(f, S)
<1> DEFINE sum(s) == SumFunctionOnSet(f, s)
           Bad == {s \in SUBSET D : \E x \in D : x \notin s /\ sum(s \cup {x}) # f[x] + sum(s)}
<1> SUFFICES ASSUME Bad # {} PROVE FALSE
  OBVIOUS
<1>1. PICK s \in Bad : \A t \in Bad : ~ (t \subseteq s /\ t # s)
  <2>1. Bad \in SUBSET (SUBSET D)
    OBVIOUS
  <2> HIDE DEF Bad
  <2> QED BY <2>1, Smallest
<1>2. PICK x \in D : x \notin s /\ sum(s \cup {x}) # f[x] + sum(s)
  BY <1>1
<1> DEFINE c == CHOOSE y \in s \cup {x} : TRUE
<1>3. c \in s \cup {x} /\ c \in D
  BY <1>1, <1>2
<1>4. IsFiniteSet(s) /\ IsFiniteSet(s \cup {x})
  BY <1>1, FS_Subset
<1>5. sum(s \cup {x}) = f[c] + sum((s \cup {x}) \ {c})
  BY <1>4, SumStep
<1>6. c # x
  <2> SUFFICES ASSUME c = x PROVE FALSE
    OBVIOUS
  <2>1. (s \cup {x}) \ {c} = s
    BY <1>2
  <2> QED BY <1>2, <1>5, <2>1
<1> DEFINE t == s \ {c}
<1>7. c \in s /\ t \subseteq s /\ t # s /\ t \in SUBSET D /\ t \notin Bad
  BY <1>1, <1>3, <1>6
<1>8. sum(t \cup {x}) = f[x] + sum(t) /\ sum(t \cup {c}) = f[c] + sum(t)
  BY <1>2, <1>3, <1>7
<1>9. (s \cup {x}) \ {c} = t \cup {x} /\ s = t \cup {c}
  BY <1>6, <1>7
<1>10. sum(t) \in Int /\ f[c] \in Int /\ f[x] \in Int
  BY <1>2, <1>3, <1>7, SumInt
<1>11. sum(s \cup {x}) = f[c] + (f[x] + sum(t)) /\ sum(s) = f[c] + sum(t)
  BY <1>5, <1>8, <1>9
<1> QED BY <1>2, <1>10, <1>11

LEMMA SumSame ==
    ASSUME NEW f, NEW g, NEW D, IsFiniteSet(D), \A x \in D : f[x] \in Int /\ g[x] = f[x]
    PROVE  SumFunctionOnSet(f, D) = SumFunctionOnSet(g, D)
<1> DEFINE Bad == {s \in SUBSET D : SumFunctionOnSet(f, s) # SumFunctionOnSet(g, s)}
<1> SUFFICES ASSUME Bad # {} PROVE FALSE
  OBVIOUS
<1>1. PICK s \in Bad : \A t \in Bad : ~ (t \subseteq s /\ t # s)
  <2>1. Bad \in SUBSET (SUBSET D)
    OBVIOUS
  <2> HIDE DEF Bad
  <2> QED BY <2>1, Smallest
<1>2. IsFiniteSet(s)
  BY FS_Subset
<1>3. s # {}
  BY <1>1, SumEmpty
<1> DEFINE c == CHOOSE x \in s : TRUE
<1>4. c \in s /\ s \ {c} \subseteq s /\ s \ {c} # s /\ s \ {c} \in SUBSET D
  BY <1>1, <1>3
<1>5. SumFunctionOnSet(f, s \ {c}) = SumFunctionOnSet(g, s \ {c})
  BY <1>1, <1>4
<1>6. f[c] = g[c]
  BY <1>1, <1>4
<1>7. SumFunctionOnSet(f, s) = f[c] + SumFunctionOnSet(f, s \ {c})
  BY <1>2, <1>3, SumStep
<1>8. SumFunctionOnSet(g, s) = g[c] + SumFunctionOnSet(g, s \ {c})
  BY <1>2, <1>3, SumStep
<1> QED BY <1>1, <1>5, <1>6, <1>7, <1>8

\* Where two functions differ at one place, their sums differ by as much.
LEMMA SumChange ==
    ASSUME NEW f, NEW g, NEW D, IsFiniteSet(D), NEW x \in D,
           \A y \in D : f[y] \in Int /\ g[y] \in Int,
           \A y \in D \ {x} : g[y] = f[y]
    PROVE  SumFunctionOnSet(g, D) = SumFunctionOnSet(f, D) + (g[x] - f[x])
<1> DEFINE T == D \ {x}
<1>1. T \in SUBSET D /\ x \notin T /\ T \cup {x} = D /\ IsFiniteSet(T)
  BY FS_Subset
<1>2. SumFunctionOnSet(f, D) = f[x] + SumFunctionOnSet(f, T)
  BY <1>1, SumAdd
<1>3. SumFunctionOnSet(g, D) = g[x] + SumFunctionOnSet(g, T)
  BY <1>1, SumAdd
<1>4. SumFunctionOnSet(f, T) = SumFunctionOnSet(g, T)
  BY <1>1, SumSame
<1>5. SumFunctionOnSet(f, T) \in Int
  BY <1>1, SumInt
<1> QED BY <1>2, <1>3, <1>4, <1>5

LEMMA SumZero ==
    ASSUME NEW D, IsFiniteSet(D)
    PROVE  SumFunctionOnSet([x \in D |-> 0], D) = 0
<1> DEFINE f == [x \in D |-> 0]
           Bad == {s \in SUBSET D : SumFunctionOnSet(f, s) # 0}
<1> SUFFICES ASSUME Bad # {} PROVE FALSE
  OBVIOUS
<1>1. PICK s \in Bad : \A t \in Bad : ~ (t \subseteq s /\ t # s)
  <2>1. Bad \in SUBSET (SUBSET D)
    OBVIOUS
  <2> HIDE DEF Bad
  <2> QED BY <2>1, Smallest
<1>2. IsFiniteSet(s)
  BY FS_Subset
<1>3. s # {}
  BY <1>1, SumEmpty
<1> DEFINE c == CHOOSE x \in s : TRUE
<1>4. c \in s /\ s \ {c} \subseteq s /\ s \ {c} # s /\ s \ {c} \in SUBSET D
  BY <1>1, <1>3
<1>5. SumFunctionOnSet(f, s \ {c}) = 0
  BY <1>1, <1>4
<1>6. SumFunctionOnSet(f, s) = f[c] + SumFunctionOnSet(f, s \ {c})
  BY <1>2, <1>3, SumStep
<1>7. f[c] = 0
  BY <1>1, <1>4
<1> QED BY <1>1, <1>5, <1>6, <1>7

\* A sum of natural numbers is one, and not less than any of them.
LEMMA SumNat ==
    ASSUME NEW f, NEW D, IsFiniteSet(D), \A x \in D : f[x] \in Nat
    PROVE  /\ SumFunctionOnSet(f, D) \in Nat
           /\ \A x \in D : f[x] <= SumFunctionOnSet(f, D)
<1> DEFINE Bad == {s \in SUBSET D : SumFunctionOnSet(f, s) \notin Nat}
<1>1. Bad = {}
  <2> SUFFICES ASSUME Bad # {} PROVE FALSE
    OBVIOUS
  <2>1. PICK s \in Bad : \A t \in Bad : ~ (t \subseteq s /\ t # s)
    <3>1. Bad \in SUBSET (SUBSET D)
      OBVIOUS
    <3> HIDE DEF Bad
    <3> QED BY <3>1, Smallest
  <2>2. IsFiniteSet(s)
    BY FS_Subset
  <2>3. s # {}
    <3>1. 0 \in Nat
      OBVIOUS
    <3> QED BY <2>1, <3>1, SumEmpty
  <2> DEFINE c == CHOOSE x \in s : TRUE
  <2>4. c \in s /\ s \ {c} \subseteq s /\ s \ {c} # s /\ s \ {c} \in SUBSET D
    BY <2>1, <2>3
  <2>5. SumFunctionOnSet(f, s \ {c}) \in Nat
    BY <2>1, <2>4
  <2>6. SumFunctionOnSet(f, s) = f[c] + SumFunctionOnSet(f, s \ {c})
    BY <2>2, <2>3, SumStep
  <2>7. f[c] \in Nat
    BY <2>1, <2>4
  <2> QED BY <2>1, <2>5, <2>6, <2>7
<1>2. \A S \in SUBSET D : SumFunctionOnSet(f, S) \in Nat
  BY <1>1
<1>3. ASSUME NEW x \in D
      PROVE  f[x] <= SumFunctionOnSet(f, D)
  <2> DEFINE T == D \ {x}
  <2>1. T \in SUBSET D /\ x \notin T /\ T \cup {x} = D
    OBVIOUS
  <2> HIDE DEF T
  <2>2. SumFunctionOnSet(f, D) = f[x] + SumFunctionOnSet(f, T)
    BY <2>1, SumAdd
  <2>3. SumFunctionOnSet(f, T) \in Nat
    BY <1>2, <2>1
  <2> QED BY <2>2, <2>3
<1> QED BY <1>2, <1>3

-----------------------------------------------------------------------------
(* Roles *)

USE AccessAssumption

\* init_store's state and every role change keep the role variables typed.
LEMMA AccessTyped ==
    /\ AccessInit => AccessTypeOK
    /\ AccessTypeOK /\ (RoleChange \/ UNCHANGED accessVars) => AccessTypeOK'
    /\ \A a \in Wallet, p \in Position :
          AccessTypeOK /\ WrapAccess(a, p) => AccessTypeOK'
<1>1. AccessInit => AccessTypeOK
  BY DEF AccessInit, AccessTypeOK
<1>2. ASSUME AccessTypeOK, RoleChange
      PROVE  AccessTypeOK'
  <2>1. CASE \E keys \in KeyLists : SetSnapshotters(keys) \/ SetSenders(keys)
    BY <1>2, <2>1 DEF AccessTypeOK, SetSnapshotters, SetSenders
  <2>2. CASE \E a \in Wallet, p \in Position : AttachOndemand(a, p)
    BY <1>2, <2>2 DEF AccessTypeOK, AttachOndemand
  <2>3. CASE \E a \in Wallet, p \in Position : TakeOwnership(a, p)
    BY <1>2, <2>3 DEF AccessTypeOK, TakeOwnership
  <2>4. CASE \E a \in Wallet, p \in Position, keys \in KeyLists :
                SetOndemandCallers(a, p, keys)
    BY <1>2, <2>4 DEF AccessTypeOK, SetOndemandCallers
  <2> QED BY <1>2, <2>1, <2>2, <2>3, <2>4 DEF RoleChange, ListChange
<1>3. AccessTypeOK /\ UNCHANGED accessVars => AccessTypeOK'
  BY DEF AccessTypeOK, accessVars
<1>4. ASSUME AccessTypeOK, NEW a \in Wallet, NEW p \in Position, WrapAccess(a, p)
      PROVE  AccessTypeOK'
  BY <1>4 DEF AccessTypeOK, WrapAccess
<1> QED BY <1>1, <1>2, <1>3, <1>4
=============================================================================
