-------------------------- MODULE AccountingProofs --------------------------
(***************************************************************************)
(* What the report may rely on, for every number of threads, bins, chunks  *)
(* and fastbins and whatever the core answers: every tcache chunk has one  *)
(* owner, the first; a thread is reported as unresolved when it is; and    *)
(* the numbers of an arena add up.                                         *)
(***************************************************************************)
EXTENDS Accounting, FiniteSetTheorems, SequenceTheorems, TLAPS

-----------------------------------------------------------------------------
(* Finite sets, and what is folded over them.                              *)

\* Induction over the numbers, for a set.
LEMMA NatSetInduction ==
  ASSUME NEW P, 0 \in P, \A n \in Nat : n \in P => n + 1 \in P
  PROVE  Nat \subseteq P
  <1> DEFINE R == OpToRel(<, Nat)
             bad == {n \in Nat : n \notin P}
  <1> SUFFICES ASSUME bad # {} PROVE FALSE
    OBVIOUS
  <1>1. PICK x \in bad : \A y \in bad : <<y, x>> \notin R
    <2> HIDE DEF R
    <2>1. IsWellFoundedOn(R, Nat)
      BY NatLessThanWellFounded DEF R
    <2> QED
      BY <2>1, WFMin
  <1>2. x \in Nat /\ x \notin P /\ x # 0
    BY <1>1
  <1>3. x - 1 \in Nat /\ (x - 1) + 1 = x /\ x - 1 < x
    BY <1>2
  <1>4. <<x - 1, x>> \in R
    BY <1>2, <1>3 DEF OpToRel
  <1>5. x - 1 \in P
    BY <1>1, <1>3, <1>4
  <1> QED
    BY <1>2, <1>3, <1>5

(* The parts of a finite set are finite and no larger.                     *)
LEMMA Part ==
  ASSUME NEW U, IsFiniteSet(U), NEW T \in SUBSET U
  PROVE  IsFiniteSet(T) /\ Cardinality(T) \in Nat /\ Cardinality(T) <= Cardinality(U)
  BY FS_Subset, FS_CardinalityType

LEMMA OneLess ==
  ASSUME NEW T, IsFiniteSet(T), NEW x \in T
  PROVE  Cardinality(T \ {x}) = Cardinality(T) - 1 /\ IsFiniteSet(T \ {x})
  BY FS_RemoveElement

LEMMA OneMore ==
  ASSUME NEW T, IsFiniteSet(T), NEW x, x \notin T
  PROVE  Cardinality(T \cup {x}) = Cardinality(T) + 1 /\ IsFiniteSet(T \cup {x})
  BY FS_AddElement

\* Induction over the parts of a finite set, for a set of them.
LEMMA SetInduction ==
  ASSUME NEW U, IsFiniteSet(U), NEW P, {} \in P,
         \A T \in SUBSET U : \A x \in U \ T : T \in P => T \cup {x} \in P
  PROVE  \A T \in SUBSET U : T \in P
  <1> DEFINE Q == {n \in Nat : \A T \in SUBSET U : Cardinality(T) = n => T \in P}
  <1>1. 0 \in Q
    <2> SUFFICES ASSUME NEW T \in SUBSET U, Cardinality(T) = 0 PROVE T \in P
      OBVIOUS
    <2>1. T = {}
      BY Part, FS_EmptySet
    <2> QED
      BY <2>1
  <1>2. ASSUME NEW n \in Nat, n \in Q PROVE n + 1 \in Q
    <2> SUFFICES ASSUME NEW T \in SUBSET U, Cardinality(T) = n + 1 PROVE T \in P
      OBVIOUS
    <2>1. IsFiniteSet(T)
      BY Part
    <2>2. PICK x \in T : TRUE
      BY <2>1, FS_EmptySet
    <2>3. Cardinality(T \ {x}) = Cardinality(T) - 1
      BY <2>1, <2>2, FS_RemoveElement
    <2>4. Cardinality(T \ {x}) = n
      BY <1>2, <2>3
    <2>6. T \ {x} \in P
      BY <1>2, <2>4
    <2>5. T = (T \ {x}) \cup {x} /\ x \in U \ (T \ {x}) /\ T \ {x} \in SUBSET U
      BY <2>2
    <2> QED
      BY <2>5, <2>6
  <1>3. Nat \subseteq Q
    <2> HIDE DEF Q
    <2> QED
      BY <1>1, <1>2, NatSetInduction
  <1> QED
    BY <1>3, Part

IsFold(W, U, base, op, pick) ==
  \A T \in SUBSET U : W[T] = IF T = {} THEN base ELSE op[pick[T]][W[T \ {pick[T]}]]

(* A fold over a finite set has a value, in whatever order it takes the    *)
(* elements.                                                               *)
LEMMA FoldExists ==
  ASSUME NEW U, IsFiniteSet(U), NEW D, NEW base \in D,
         NEW pick, \A T \in SUBSET U : T # {} => pick[T] \in T,
         NEW op, \A x \in U : \A d \in D : op[x][d] \in D
  PROVE  \E W \in [SUBSET U -> D] : IsFold(W, U, base, op, pick)
  <1> DEFINE Move(W, T) == IF T = {} THEN base ELSE op[pick[T]][W[T \ {pick[T]}]]
             Q == {n \in Nat : \E W \in [SUBSET U -> D] :
                     \A T \in SUBSET U : Cardinality(T) <= n => W[T] = Move(W, T)}
  <1>1. 0 \in Q
    <2> DEFINE W == [T \in SUBSET U |-> base]
    <2>1. ASSUME NEW T \in SUBSET U, Cardinality(T) <= 0 PROVE T = {}
      <3>1. IsFiniteSet(T) /\ Cardinality(T) = 0
        BY <2>1, Part
      <3> QED
        BY <3>1, FS_EmptySet
    <2>2. W \in [SUBSET U -> D] /\ \A T \in SUBSET U : Cardinality(T) <= 0 => W[T] = Move(W, T)
      BY <2>1
    <2> QED
      BY <2>2
  <1>2. ASSUME NEW n \in Nat, n \in Q PROVE n + 1 \in Q
    <2>1. PICK V \in [SUBSET U -> D] :
            \A T \in SUBSET U : Cardinality(T) <= n => V[T] = Move(V, T)
      BY <1>2
    <2> DEFINE W == [T \in SUBSET U |-> IF Cardinality(T) <= n THEN V[T] ELSE Move(V, T)]
    <2>2. \A T \in SUBSET U : Move(V, T) \in D
      OBVIOUS
    <2>3. W \in [SUBSET U -> D]
      BY <2>2
    <2>4. ASSUME NEW T \in SUBSET U, Cardinality(T) <= n + 1 PROVE W[T] = Move(W, T)
      <3>1. W[T] = Move(V, T)
        BY <2>1, <2>4
      <3>2. CASE T = {}
        BY <3>1, <3>2
      <3>3. CASE T # {}
        <4> DEFINE R == T \ {pick[T]}
        <4>1. pick[T] \in T /\ R \in SUBSET U
          BY <3>3
        <4>3. IsFiniteSet(T) /\ Cardinality(T) \in Nat
          BY Part
        <4>4. Cardinality(R) = Cardinality(T) - 1
          BY <4>1, <4>3, OneLess
        <4>2. Cardinality(R) <= n
          BY <2>4, <4>3, <4>4
        <4> QED
          BY <3>1, <3>3, <4>1, <4>2
      <3> QED
        BY <3>2, <3>3
    <2>5. \A T \in SUBSET U : Cardinality(T) <= n + 1 => W[T] = Move(W, T)
      BY <2>4
    <2>6. \E V1 \in [SUBSET U -> D] :
            \A T \in SUBSET U : Cardinality(T) <= n + 1 => V1[T] = Move(V1, T)
      <3> HIDE DEF W, Move
      <3> QED
        BY <2>3, <2>5
    <2> HIDE DEF Move
    <2> QED
      BY <2>6
  <1>3. Cardinality(U) \in Q
    <2> HIDE DEF Q
    <2> QED
      BY <1>1, <1>2, NatSetInduction, FS_CardinalityType
  <1> QED
    BY <1>3, Part DEF IsFold

-----------------------------------------------------------------------------
(* Sums over finite sets.                                                  *)

Total(f, U) == MapThenSumSet(LAMBDA x : f[x], U)

AnyOf(T) == CHOOSE x \in T : TRUE

IsTable(W, f, U) ==
  W = [T \in SUBSET U |-> IF T = {} THEN 0 ELSE f[AnyOf(T)] + W[T \ {AnyOf(T)}]]

LEMMA TableExists ==
  ASSUME NEW U, IsFiniteSet(U), NEW f, \A x \in U : f[x] \in Nat
  PROVE  \E W : IsTable(W, f, U) /\ Total(f, U) = W[U]
  <1> DEFINE pick == [T \in SUBSET U |-> AnyOf(T)]
             op == [x \in U |-> [d \in Nat |-> f[x] + d]]
  <1>1. \A T \in SUBSET U : T # {} => pick[T] \in T /\ pick[T] = AnyOf(T) /\ AnyOf(T) \in U
    BY DEF AnyOf
  <1>2. \A x \in U : \A d \in Nat : op[x][d] \in Nat /\ op[x][d] = f[x] + d
    OBVIOUS
  <1>3. \E W \in [SUBSET U -> Nat] : IsFold(W, U, 0, op, pick)
    <2> HIDE DEF pick, op
    <2>1. /\ \A T \in SUBSET U : T # {} => pick[T] \in T
          /\ \A x \in U : \A d \in Nat : op[x][d] \in Nat
          /\ 0 \in Nat
      BY <1>1, <1>2
    <2> QED
      BY <2>1, FoldExists
  <1>4. PICK V \in [SUBSET U -> Nat] :
          \A T \in SUBSET U :
            V[T] = IF T = {} THEN 0 ELSE op[pick[T]][V[T \ {pick[T]}]]
    BY <1>3 DEF IsFold
  <1> HIDE DEF pick, op
  <1>5. ASSUME NEW T \in SUBSET U
        PROVE  V[T] = IF T = {} THEN 0 ELSE f[AnyOf(T)] + V[T \ {AnyOf(T)}]
    <2>1. CASE T = {}
      BY <1>4, <2>1
    <2>2. CASE T # {}
      <3>1. pick[T] = AnyOf(T) /\ AnyOf(T) \in U
        BY <1>1, <2>2
      <3>2. V[T \ {AnyOf(T)}] \in Nat
        OBVIOUS
      <3> QED
        BY <1>2, <1>4, <2>2, <3>1, <3>2
    <2> QED
      BY <2>1, <2>2
  <1>6. IsTable(V, f, U)
    BY <1>5 DEF IsTable
  <1>7. IsTable(CHOOSE W : IsTable(W, f, U), f, U)
    BY <1>6
  <1>8. Total(f, U) = (CHOOSE W : IsTable(W, f, U))[U]
    BY DEF Total, MapThenSumSet, MapThenFoldSet, IsTable, AnyOf
  <1> QED
    BY <1>7, <1>8

LEMMA TableValues ==
  ASSUME NEW U, IsFiniteSet(U), NEW f, \A x \in U : f[x] \in Nat,
         NEW W, IsTable(W, f, U)
  PROVE  /\ \A T \in SUBSET U : W[T] \in Nat
         /\ W[{}] = 0
         /\ \A T \in SUBSET U : \A x \in T : W[T] = f[x] + W[T \ {x}]
  <1>1. \A T \in SUBSET U : W[T] = IF T = {} THEN 0 ELSE f[AnyOf(T)] + W[T \ {AnyOf(T)}]
    BY DEF IsTable
  <1>2. \A T \in SUBSET U : T # {} => AnyOf(T) \in T
    BY DEF AnyOf
  <1> DEFINE P == {n \in Nat : \A T \in SUBSET U : Cardinality(T) <= n =>
                     W[T] \in Nat /\ \A x \in T : W[T] = f[x] + W[T \ {x}]}
  <1>3. 0 \in P
    <2> SUFFICES ASSUME NEW T \in SUBSET U, Cardinality(T) <= 0
                 PROVE  W[T] \in Nat /\ \A x \in T : W[T] = f[x] + W[T \ {x}]
      OBVIOUS
    <2>1. IsFiniteSet(T) /\ Cardinality(T) = 0
      BY Part
    <2>2. T = {}
      BY <2>1, FS_EmptySet
    <2>3. W[{}] = 0
      BY <1>1
    <2> QED
      BY <2>2, <2>3
  <1>4. ASSUME NEW n \in Nat, n \in P PROVE n + 1 \in P
    <2> SUFFICES ASSUME NEW T \in SUBSET U, Cardinality(T) = n + 1
                 PROVE  W[T] \in Nat /\ \A x \in T : W[T] = f[x] + W[T \ {x}]
      <3>1. \A T \in SUBSET U : Cardinality(T) \in Nat
        BY Part
      <3> QED
        BY <1>4, <3>1
    <2>1. IsFiniteSet(T) /\ T # {}
      BY Part, FS_EmptySet
    <2>2. ASSUME NEW x \in T PROVE Cardinality(T \ {x}) = n /\ W[T \ {x}] \in Nat
      <3>1. Cardinality(T \ {x}) = n
        BY <2>1, OneLess
      <3> QED
        BY <1>4, <3>1
    <2> DEFINE p == AnyOf(T)
    <2>3. p \in T /\ W[T] = f[p] + W[T \ {p}] /\ f[p] \in Nat
      BY <1>1, <1>2, <2>1
    <2> HIDE DEF p
    <2>4. ASSUME NEW x \in T PROVE W[T] = f[x] + W[T \ {x}]
      <3>1. CASE x = p
        BY <2>3, <3>1
      <3>2. CASE x # p
        <4>1. x \in T \ {p} /\ p \in T \ {x} /\ (T \ {p}) \ {x} = (T \ {x}) \ {p}
          BY <2>3, <3>2
        <4>2. W[T \ {p}] = f[x] + W[(T \ {p}) \ {x}]
          BY <1>4, <2>2, <2>3, <4>1
        <4>3. W[T \ {x}] = f[p] + W[(T \ {p}) \ {x}]
          BY <1>4, <2>2, <4>1
        <4>4. W[(T \ {p}) \ {x}] \in Nat
          <5>1. Cardinality((T \ {p}) \ {x}) <= Cardinality(T \ {p})
            BY <2>1, <2>3, FS_RemoveElement, Part
          <5> QED
            BY <1>4, <2>2, <2>3, <5>1, Part
        <4> QED
          BY <2>3, <4>2, <4>3, <4>4
      <3> QED
        BY <3>1, <3>2
    <2>5. W[T] \in Nat
      BY <2>2, <2>3
    <2> QED
      BY <2>4, <2>5
  <1>5. Nat \subseteq P
    <2> HIDE DEF P
    <2> QED
      BY <1>3, <1>4, NatSetInduction
  <1> QED
    BY <1>1, <1>5, Part

LEMMA TablesAgree ==
  ASSUME NEW U, IsFiniteSet(U), NEW V \in SUBSET U, NEW f, \A x \in U : f[x] \in Nat,
         NEW W, IsTable(W, f, U), NEW X, IsTable(X, f, V)
  PROVE  \A T \in SUBSET V : W[T] = X[T]
  <1> DEFINE P == {T \in SUBSET V : W[T] = X[T]}
  <1>1. IsFiniteSet(V) /\ \A x \in V : f[x] \in Nat
    BY Part
  <1>2. /\ W[{}] = 0 /\ \A T \in SUBSET U : \A x \in T : W[T] = f[x] + W[T \ {x}]
        /\ X[{}] = 0 /\ \A T \in SUBSET V : \A x \in T : X[T] = f[x] + X[T \ {x}]
    BY <1>1, TableValues
  <1>3. {} \in P
    BY <1>2
  <1>4. ASSUME NEW T \in SUBSET V, NEW x \in V \ T, T \in P PROVE T \cup {x} \in P
    <2> DEFINE R == T \cup {x}
    <2>1. R \in SUBSET V /\ R \in SUBSET U /\ x \in R /\ R \ {x} = T
      OBVIOUS
    <2>2. W[R] = f[x] + W[T] /\ X[R] = f[x] + X[T]
      <3> HIDE DEF R, P
      <3> QED
        BY <1>2, <2>1
    <2> QED
      BY <1>4, <2>2
  <1>5. \A T \in SUBSET V : T \in P
    <2> HIDE DEF P
    <2> QED
      BY <1>1, <1>3, <1>4, SetInduction
  <1> QED
    BY <1>5

(* A sum is the value at an element and the sum over the others.           *)
LEMMA TotalIs ==
  ASSUME NEW U, IsFiniteSet(U), NEW f, \A x \in U : f[x] \in Nat
  PROVE  /\ Total(f, U) \in Nat
         /\ \A x \in U : Total(f, U) = f[x] + Total(f, U \ {x})
  <1>1. PICK W : IsTable(W, f, U) /\ Total(f, U) = W[U]
    BY TableExists
  <1>2. W[U] \in Nat
    BY <1>1, TableValues
  <1>3. ASSUME NEW x \in U PROVE Total(f, U) = f[x] + Total(f, U \ {x})
    <2> DEFINE V == U \ {x}
    <2>1. V \in SUBSET U /\ IsFiniteSet(V) /\ \A y \in V : f[y] \in Nat
      BY FS_RemoveElement
    <2>2. PICK X : IsTable(X, f, V) /\ Total(f, V) = X[V]
      <3> HIDE DEF V
      <3> QED
        BY <2>1, TableExists
    <2>3. W[V] = X[V]
      <3> HIDE DEF V
      <3>1. V \in SUBSET V
        OBVIOUS
      <3> QED
        BY <1>1, <2>1, <2>2, <3>1, TablesAgree
    <2>4. W[U] = f[x] + W[U \ {x}]
      BY <1>1, TableValues
    <2> QED
      BY <1>1, <2>2, <2>3, <2>4
  <1> QED
    BY <1>1, <1>2, <1>3

LEMMA TotalEmpty == ASSUME NEW f PROVE Total(f, {}) = 0
  <1>1. IsFiniteSet({}) /\ \A x \in {} : f[x] \in Nat
    BY FS_EmptySet
  <1>2. PICK W : IsTable(W, f, {}) /\ Total(f, {}) = W[{}]
    BY <1>1, TableExists
  <1> QED
    BY <1>1, <1>2, TableValues

LEMMA TotalAdd ==
  ASSUME NEW U, IsFiniteSet(U), NEW x, x \notin U, NEW f,
         \A y \in U : f[y] \in Nat, f[x] \in Nat
  PROVE  Total(f, U \cup {x}) = f[x] + Total(f, U)
  <1> DEFINE V == U \cup {x}
  <1>1. IsFiniteSet(V) /\ x \in V /\ V \ {x} = U /\ \A y \in V : f[y] \in Nat
    BY FS_AddElement
  <1> HIDE DEF V
  <1>2. Total(f, V) = f[x] + Total(f, V \ {x})
    BY <1>1, TotalIs
  <1> QED
    BY <1>1, <1>2 DEF V

(* Equal values have equal sums, and zeros do not count.                   *)
LEMMA TotalSame ==
  ASSUME NEW U, IsFiniteSet(U), NEW V \in SUBSET U, NEW f, NEW g,
         \A x \in U : f[x] \in Nat,
         \A x \in V : g[x] = f[x], \A x \in U \ V : f[x] = 0
  PROVE  Total(f, U) = Total(g, V)
  <1> DEFINE P == {T \in SUBSET U : Total(f, T) = Total(g, T \cap V)}
  <1>1. {} \in P
    <2>1. {} \cap V = {}
      OBVIOUS
    <2> QED
      BY <2>1, TotalEmpty
  <1>2. ASSUME NEW T \in SUBSET U, NEW x \in U \ T, T \in P PROVE T \cup {x} \in P
    <2> DEFINE A == T \cap V
    <2>1. IsFiniteSet(T) /\ IsFiniteSet(A)
      BY Part
    <2>2. Total(f, T \cup {x}) = f[x] + Total(f, T)
      BY <2>1, TotalAdd
    <2>3. Total(f, T) \in Nat
      BY <2>1, TotalIs
    <2>4. CASE x \in V
      <3>1. (T \cup {x}) \cap V = A \cup {x} /\ x \notin A
        BY <2>4
      <3>2. Total(g, A \cup {x}) = g[x] + Total(g, A)
        <4>1. \A y \in A : g[y] \in Nat /\ g[x] \in Nat
          BY <2>4
        <4>2. g[x] \in Nat
          BY <2>4
        <4> HIDE DEF A
        <4> QED
          BY <2>1, <3>1, <4>1, <4>2, TotalAdd
      <3> QED
        BY <1>2, <2>2, <2>4, <3>1, <3>2
    <2>5. CASE x \notin V
      <3>1. (T \cup {x}) \cap V = A /\ f[x] = 0
        BY <2>5
      <3>2. Total(f, T \cup {x}) = Total(f, T)
        BY <2>2, <2>3, <3>1
      <3> QED
        BY <1>2, <3>1, <3>2
    <2> QED
      BY <2>4, <2>5
  <1>3. \A T \in SUBSET U : T \in P
    <2> HIDE DEF P
    <2> QED
      BY <1>1, <1>2, SetInduction
  <1>4. U \in P /\ U \cap V = V
    BY <1>3
  <1> QED
    BY <1>4

(* One value changed.                                                      *)
LEMMA TotalUpdate ==
  ASSUME NEW U, IsFiniteSet(U), NEW x \in U, NEW f, NEW g,
         \A y \in U : f[y] \in Nat, g[x] \in Nat,
         \A y \in U \ {x} : g[y] = f[y]
  PROVE  Total(g, U) = g[x] + (Total(f, U) - f[x])
  <1> DEFINE V == U \ {x}
  <1>1. IsFiniteSet(V) /\ V \in SUBSET U
    BY FS_RemoveElement
  <1>2. \A y \in U : g[y] \in Nat
    OBVIOUS
  <1>3. Total(f, U) = f[x] + Total(f, V) /\ Total(g, U) = g[x] + Total(g, V)
    BY <1>2, TotalIs
  <1>4. Total(f, V) = Total(g, V) /\ Total(f, V) \in Nat
    <2>1. \A y \in V : f[y] \in Nat /\ g[y] = f[y]
      OBVIOUS
    <2> HIDE DEF V
    <2>2. V \in SUBSET V /\ \A y \in V \ V : f[y] = 0
      OBVIOUS
    <2> QED
      BY <1>1, <2>1, <2>2, TotalSame, TotalIs
  <1> QED
    BY <1>3, <1>4

(* No value is more than the sum.                                          *)
LEMMA TotalCovers ==
  ASSUME NEW U, IsFiniteSet(U), NEW f, \A y \in U : f[y] \in Nat
  PROVE  \A x \in U : f[x] <= Total(f, U)
  <1> SUFFICES ASSUME NEW x \in U PROVE f[x] <= Total(f, U)
    OBVIOUS
  <1>1. IsFiniteSet(U \ {x}) /\ \A y \in U \ {x} : f[y] \in Nat
    BY FS_RemoveElement
  <1>2. Total(f, U \ {x}) \in Nat
    BY <1>1, TotalIs
  <1> QED
    BY <1>2, TotalIs

(* A sum over a set is the sum over its elements in a row.                 *)
IsRow(r, n, U) ==
  /\ n \in Nat /\ r \in [1 .. n -> U]
  /\ \A k, m \in 1 .. n : r[k] = r[m] => k = m
  /\ \A y \in U : \E k \in 1 .. n : r[k] = y

AllNat(f, U) == \A y \in U : f[y] \in Nat

ReadsAlong(g, f, r, n) == \A k \in 1 .. n : g[k] = f[r[k]]

LEMMA TotalInARow ==
  ASSUME NEW n, NEW U, NEW r, IsRow(r, n, U),
         NEW f, AllNat(f, U), NEW g, ReadsAlong(g, f, r, n)
  PROVE  Total(g, 1 .. n) = Total(f, U)
  <1> USE DEF IsRow, AllNat, ReadsAlong
  <1> DEFINE A(m) == {r[k] : k \in 1 .. m}
             P == {m \in Nat : m <= n => IsFiniteSet(A(m)) /\ Total(g, 1 .. m) = Total(f, A(m))}
  <1>1. 0 \in P
    <2>1. A(0) = {} /\ 1 .. 0 = {}
      OBVIOUS
    <2>2. IsFiniteSet(A(0))
      BY <2>1, FS_EmptySet
    <2>3. Total(g, 1 .. 0) = 0 /\ Total(f, A(0)) = 0
      BY <2>1, TotalEmpty
    <2> QED
      BY <2>2, <2>3
  <1>2. ASSUME NEW m \in Nat, m \in P PROVE m + 1 \in P
    <2> SUFFICES ASSUME m + 1 <= n
                 PROVE  IsFiniteSet(A(m + 1)) /\ Total(g, 1 .. m + 1) = Total(f, A(m + 1))
      <3> HIDE DEF A
      <3> QED
        OBVIOUS
    <2> DEFINE B == A(m)
               x == r[m + 1]
    <2>1. IsFiniteSet(B) /\ Total(g, 1 .. m) = Total(f, B)
      BY <1>2
    <2>2. 1 .. m + 1 = (1 .. m) \cup {m + 1} /\ m + 1 \notin 1 .. m /\ m + 1 \in 1 .. n
      OBVIOUS
    <2>3. A(m + 1) = B \cup {x} /\ x \notin B /\ B \in SUBSET U /\ x \in U
      <3>1. x \in U
        BY <2>2
      <3>2. ASSUME NEW y PROVE y \in A(m + 1) <=> y \in B \cup {x}
        BY <2>2
      <3>3. x \notin B
        <4> SUFFICES ASSUME NEW k \in 1 .. m, r[k] = x PROVE FALSE
          OBVIOUS
        <4>1. k \in 1 .. n /\ k # m + 1
          OBVIOUS
        <4> QED
          BY <2>2, <4>1
      <3> QED
        BY <3>1, <3>2, <3>3
    <2> HIDE DEF B, x
    <2>4. IsFiniteSet(B \cup {x})
      BY <2>1, FS_AddElement
    <2>5. Total(f, B \cup {x}) = f[x] + Total(f, B)
      BY <2>1, <2>3, TotalAdd
    <2>6. Total(g, (1 .. m) \cup {m + 1}) = g[m + 1] + Total(g, 1 .. m)
      <3>1. IsFiniteSet(1 .. m)
        BY FS_Interval
      <3>2. \A k \in 1 .. m : g[k] \in Nat
        BY <2>2
      <3>3. g[m + 1] \in Nat
        BY <2>2
      <3> QED
        BY <2>2, <3>1, <3>2, <3>3, TotalAdd
    <2>7. g[m + 1] = f[x]
      BY <2>2 DEF x
    <2> QED
      BY <2>1, <2>2, <2>3, <2>4, <2>5, <2>6, <2>7
  <1>3. n \in P
    <2> HIDE DEF P
    <2> QED
      BY <1>1, <1>2, NatSetInduction
  <1>4. A(n) = U
    OBVIOUS
  <1> HIDE DEF A
  <1> QED
    BY <1>3, <1>4
-----------------------------------------------------------------------------
(* Sequences: how often x is in s, and what FlattenSeq does.               *)

Hits(s, x) == {k \in DOMAIN s : s[k] = x}

Times(s, x) == Cardinality(Hits(s, x))

LEMMA HitsFinite ==
  ASSUME NEW A, NEW s \in Seq(A), NEW x
  PROVE  IsFiniteSet(Hits(s, x)) /\ Times(s, x) \in Nat
  <1>1. IsFiniteSet(1 .. Len(s)) /\ Hits(s, x) \in SUBSET (1 .. Len(s))
    BY FS_Interval DEF Hits
  <1> QED
    BY <1>1, Part DEF Times

LEMMA TimesNone ==
  ASSUME NEW s, NEW x, \A k \in DOMAIN s : s[k] # x
  PROVE  Times(s, x) = 0
  BY FS_EmptySet DEF Times, Hits

LEMMA TimesAppend ==
  ASSUME NEW A, NEW s \in Seq(A), NEW y \in A, NEW x
  PROVE  Times(Append(s, y), x) = Times(s, x) + (IF y = x THEN 1 ELSE 0)
  <1> DEFINE n == Len(s) + 1
  <1>1. /\ DOMAIN Append(s, y) = DOMAIN s \cup {n} /\ n \notin DOMAIN s
        /\ Append(s, y)[n] = y
        /\ \A k \in DOMAIN s : Append(s, y)[k] = s[k]
    OBVIOUS
  <1>2. IsFiniteSet(Hits(s, x)) /\ Times(s, x) \in Nat /\ n \notin Hits(s, x)
    BY <1>1, HitsFinite DEF Hits
  <1> HIDE DEF n
  <1>3. CASE y = x
    <2>1. Hits(Append(s, y), x) = Hits(s, x) \cup {n}
      BY <1>1, <1>3 DEF Hits
    <2> QED
      BY <1>2, <1>3, <2>1, OneMore DEF Times
  <1>4. CASE y # x
    <2>1. Hits(Append(s, y), x) = Hits(s, x)
      BY <1>1, <1>4 DEF Hits
    <2> QED
      BY <1>2, <1>4, <2>1 DEF Times
  <1> QED
    BY <1>3, <1>4

LEMMA TimesJoin ==
  ASSUME NEW A, NEW s \in Seq(A), NEW t \in Seq(A), NEW x
  PROVE  Times(s \o t, x) = Times(s, x) + Times(t, x)
  <1> DEFINE n == Len(s)
             Adds(u) == Times(s \o u, x) = Times(s, x) + Times(u, x)
             P == {m \in Nat : m <= Len(t) => Adds(SubSeq(t, 1, m))}
  <1>1. 0 \in P
    <2>1. SubSeq(t, 1, 0) = <<>> /\ s \o <<>> = s
      OBVIOUS
    <2>2. Times(<<>>, x) = 0 /\ Times(s, x) \in Nat
      BY TimesNone, HitsFinite
    <2>3. Adds(<<>>)
      BY <2>1, <2>2
    <2> HIDE DEF Adds
    <2> QED
      BY <2>1, <2>3
  <1>2. ASSUME NEW m \in Nat, m \in P PROVE m + 1 \in P
    <2> SUFFICES ASSUME m + 1 <= Len(t) PROVE Adds(SubSeq(t, 1, m + 1))
      <3> HIDE DEF Adds
      <3> QED
        OBVIOUS
    <2> DEFINE u == SubSeq(t, 1, m)
               y == t[m + 1]
    <2>1. y \in A /\ u \in Seq(A) /\ s \o u \in Seq(A)
      OBVIOUS
    <2>2. SubSeq(t, 1, m + 1) = Append(u, y)
      OBVIOUS
    <2>3. Adds(u)
      <3> HIDE DEF Adds
      <3> QED
        BY <1>2
    <2> HIDE DEF u, y
    <2>4. s \o Append(u, y) = Append(s \o u, y)
      BY <2>1
    <2>5. Times(Append(u, y), x) = Times(u, x) + (IF y = x THEN 1 ELSE 0)
      BY <2>1, TimesAppend
    <2>6. Times(Append(s \o u, y), x) = Times(s \o u, x) + (IF y = x THEN 1 ELSE 0)
      <3> DEFINE v == s \o u
      <3> HIDE DEF v
      <3>1. v \in Seq(A)
        BY <2>1 DEF v
      <3>2. Times(Append(v, y), x) = Times(v, x) + (IF y = x THEN 1 ELSE 0)
        BY <2>1, <3>1, TimesAppend
      <3> QED
        BY <3>2 DEF v
    <2>7. Times(u, x) \in Nat /\ Times(s, x) \in Nat
      BY <2>1, HitsFinite
    <2>8. Adds(Append(u, y))
      BY <2>3, <2>4, <2>5, <2>6, <2>7
    <2> HIDE DEF Adds
    <2> QED
      BY <2>2, <2>8
  <1>3. Len(t) \in P
    <2> HIDE DEF P
    <2> QED
      BY <1>1, <1>2, NatSetInduction
  <1>4. SubSeq(t, 1, Len(t)) = t
    OBVIOUS
  <1>5. Adds(SubSeq(t, 1, Len(t)))
    <2>1. Len(t) \in Nat /\ Len(t) <= Len(t)
      OBVIOUS
    <2> HIDE DEF Adds
    <2> QED
      BY <1>3, <2>1
  <1>6. Adds(t)
    <2> HIDE DEF Adds
    <2> QED
      BY <1>4, <1>5
  <1> QED
    BY <1>6

Joined(f, seqs, m) ==
  f = [j \in 1 .. m |-> IF j = 1 THEN seqs[j] ELSE f[j - 1] \o seqs[j]]

(* FlattenSeq joins the sequences one by one.                              *)
LEMMA FlattenIs ==
  ASSUME NEW A, NEW seqs \in Seq(Seq(A)), Len(seqs) # 0
  PROVE  \E f : /\ FlattenSeq(seqs) = f[Len(seqs)]
                /\ \A j \in 1 .. Len(seqs) :
                     f[j] = IF j = 1 THEN seqs[j] ELSE f[j - 1] \o seqs[j]
  <1> DEFINE n == Len(seqs)
             P == {m \in Nat : m <= n => \E f : Joined(f, seqs, m)}
  <1>1. 0 \in P
    <2>1. Joined([j \in 1 .. 0 |-> <<>>], seqs, 0)
      BY DEF Joined
    <2> QED
      BY <2>1
  <1>2. ASSUME NEW m \in Nat, m \in P PROVE m + 1 \in P
    <2> SUFFICES ASSUME m + 1 <= n PROVE \E g : Joined(g, seqs, m + 1)
      OBVIOUS
    <2>1. PICK h : Joined(h, seqs, m)
      BY <1>2
    <2>2. \A j \in 1 .. m : h[j] = IF j = 1 THEN seqs[j] ELSE h[j - 1] \o seqs[j]
      BY <2>1 DEF Joined
    <2> DEFINE last == IF m + 1 = 1 THEN seqs[m + 1] ELSE h[m] \o seqs[m + 1]
    <2>3. last = IF m + 1 = 1 THEN seqs[m + 1] ELSE h[m] \o seqs[m + 1]
      OBVIOUS
    <2> HIDE DEF last
    <2> DEFINE g == [j \in 1 .. m + 1 |-> IF j = m + 1 THEN last ELSE h[j]]
    <2>4. (\A j \in 1 .. m : g[j] = h[j]) /\ g[m + 1] = last
      OBVIOUS
    <2>5. g = [j \in 1 .. m + 1 |-> g[j]]
      OBVIOUS
    <2> HIDE DEF g
    <2>6. ASSUME NEW j \in 1 .. m + 1
          PROVE  g[j] = IF j = 1 THEN seqs[j] ELSE g[j - 1] \o seqs[j]
      <3>1. CASE j = m + 1
        <4>1. j # 1 => (j - 1 = m /\ m \in 1 .. m)
          BY <3>1
        <4>2. j # 1 => g[j - 1] = h[m]
          BY <2>4, <4>1
        <4> QED
          BY <2>3, <2>4, <3>1, <4>2
      <3>2. CASE j \in 1 .. m
        <4>1. j # 1 => j - 1 \in 1 .. m
          BY <3>2
        <4>2. g[j] = h[j] /\ (j # 1 => g[j - 1] = h[j - 1])
          BY <2>4, <3>2, <4>1
        <4> QED
          BY <2>2, <3>2, <4>2
      <3> QED
        BY <3>1, <3>2
    <2>7. [j \in 1 .. m + 1 |-> g[j]]
            = [j \in 1 .. m + 1 |-> IF j = 1 THEN seqs[j] ELSE g[j - 1] \o seqs[j]]
      BY <2>6
    <2> QED
      BY <2>5, <2>7 DEF Joined
  <1>3. n \in P
    <2> HIDE DEF P
    <2> QED
      BY <1>1, <1>2, NatSetInduction
  <1> DEFINE flat == CHOOSE f : Joined(f, seqs, n)
  <1>4. Joined(flat, seqs, n)
    BY <1>3
  <1>5. FlattenSeq(seqs) = flat[n]
    BY DEF FlattenSeq, Joined
  <1> HIDE DEF flat
  <1>6. \A j \in 1 .. n : flat[j] = IF j = 1 THEN seqs[j] ELSE flat[j - 1] \o seqs[j]
    BY <1>4 DEF Joined
  <1> QED
    BY <1>5, <1>6

(* What occurs at most once in them occurs as often when they are joined.  *)
LEMMA TimesFlat ==
  ASSUME NEW A, NEW seqs \in Seq(Seq(A)), NEW x,
         \A j \in DOMAIN seqs : Times(seqs[j], x) \in {0, 1},
         \A j, k \in DOMAIN seqs : Times(seqs[j], x) = 1 /\ Times(seqs[k], x) = 1 => j = k
  PROVE  /\ FlattenSeq(seqs) \in Seq(A)
         /\ Times(FlattenSeq(seqs), x)
              = IF \E j \in DOMAIN seqs : Times(seqs[j], x) = 1 THEN 1 ELSE 0
  <1>1. CASE Len(seqs) = 0
    <2>1. FlattenSeq(seqs) = <<>> /\ DOMAIN seqs = {}
      BY <1>1 DEF FlattenSeq
    <2>2. Times(<<>>, x) = 0
      BY TimesNone
    <2> QED
      BY <2>1, <2>2
  <1>2. CASE Len(seqs) # 0
    <2> DEFINE n == Len(seqs)
    <2>1. PICK f : /\ FlattenSeq(seqs) = f[n]
                   /\ \A j \in 1 .. n : f[j] = IF j = 1 THEN seqs[j] ELSE f[j - 1] \o seqs[j]
      BY <1>2, FlattenIs
    <2>2. n \in Nat \ {0} /\ DOMAIN seqs = 1 .. n /\ \A j \in 1 .. n : seqs[j] \in Seq(A)
      BY <1>2
    <2> HIDE DEF n
    <2> DEFINE Upto(m) == IF \E j \in 1 .. m : Times(seqs[j], x) = 1 THEN 1 ELSE 0
               P == {m \in Nat : m + 1 <= n =>
                       f[m + 1] \in Seq(A) /\ Times(f[m + 1], x) = Upto(m + 1)}
    <2>3. 0 \in P
      <3>1. 0 + 1 = 1 /\ 1 \in 1 .. n /\ 1 .. 1 = {1}
        BY <2>2
      <3>2. f[1] = seqs[1] /\ seqs[1] \in Seq(A) /\ Times(seqs[1], x) \in {0, 1}
        BY <2>1, <2>2, <3>1
      <3>3. Times(f[1], x) = Upto(1)
        BY <3>1, <3>2
      <3> HIDE DEF Upto
      <3> QED
        BY <3>1, <3>2, <3>3
    <2>4. ASSUME NEW m \in Nat, m \in P PROVE m + 1 \in P
      <3> DEFINE k == m + 2
      <3> SUFFICES ASSUME k <= n
                   PROVE  f[k] \in Seq(A) /\ Times(f[k], x) = Upto(k)
        <4>1. (m + 1) + 1 = k
          OBVIOUS
        <4> HIDE DEF Upto, k
        <4> QED
          BY <4>1
      <3>1. /\ k \in 1 .. n /\ k # 1 /\ k - 1 = m + 1 /\ m + 1 <= n /\ m + 1 \in 1 .. n
            /\ 1 .. k = (1 .. m + 1) \cup {k} /\ k \notin 1 .. m + 1
            /\ 1 .. k \subseteq 1 .. n
        BY <2>2
      <3> HIDE DEF k
      <3>2. f[k] = f[m + 1] \o seqs[k] /\ seqs[k] \in Seq(A)
        BY <2>1, <2>2, <3>1
      <3>3. f[m + 1] \in Seq(A) /\ Times(f[m + 1], x) = Upto(m + 1)
        <4> HIDE DEF Upto
        <4> QED
          BY <2>4, <3>1
      <3>4. Times(f[k], x) = Upto(m + 1) + Times(seqs[k], x)
        <4> HIDE DEF Upto
        <4> QED
          BY <3>2, <3>3, TimesJoin
      <3>5. f[k] \in Seq(A)
        BY <3>2, <3>3
      <3>6. CASE Times(seqs[k], x) = 1
        <4>1. \A j \in 1 .. m + 1 : Times(seqs[j], x) # 1
          BY <2>2, <3>1, <3>6
        <4>2. Upto(m + 1) = 0 /\ Upto(k) = 1
          BY <3>1, <3>6, <4>1
        <4> HIDE DEF Upto
        <4> QED
          BY <3>4, <3>5, <3>6, <4>2
      <3>7. CASE Times(seqs[k], x) = 0
        <4>1. Upto(m + 1) = Upto(k) /\ Upto(k) \in Nat
          BY <3>1, <3>7
        <4> HIDE DEF Upto
        <4> QED
          BY <3>4, <3>5, <3>7, <4>1
      <3> QED
        BY <2>2, <3>1, <3>6, <3>7
    <2>5. n - 1 \in P
      <3>1. n - 1 \in Nat
        BY <2>2
      <3>2. Nat \subseteq P
        <4> HIDE DEF P
        <4> QED
          BY <2>3, <2>4, NatSetInduction
      <3> HIDE DEF P
      <3> QED
        BY <3>1, <3>2
    <2>6. f[n] \in Seq(A) /\ Times(f[n], x) = Upto(n)
      <3>1. (n - 1) + 1 = n /\ n <= n
        BY <2>2
      <3> HIDE DEF Upto
      <3> QED
        BY <2>5, <3>1
    <2> QED
      BY <2>1, <2>2, <2>6
  <1> QED
    BY <1>1, <1>2

-----------------------------------------------------------------------------
(* The lists of the tcache bins.                                           *)

IsNth(nth, p, head) ==
  nth = [k \in 1 .. Cardinality(Node) + 1 |->
           IF k = 1 THEN head
           ELSE IF nth[k - 1] \in Node THEN p.link[nth[k - 1]] ELSE 0]

Nth(p, head) == CHOOSE nth : IsNth(nth, p, head)

InList(nth, n) == /\ n <= MaxChain
                  /\ \A k \in 1 .. n : nth[k] \in Node
                  /\ \A j, k \in 1 .. n : nth[j] = nth[k] => j = k

LengthOf(nth) ==
  CHOOSE n \in 0 .. Cardinality(Node) : InList(nth, n) /\ ~ InList(nth, n + 1)

(* Chain, of a process that does not change.                               *)
ChainIn(p, head) == [k \in 1 .. LengthOf(Nth(p, head)) |-> Nth(p, head)[k]]

LEMMA ChainOf == ASSUME NEW head PROVE Chain(head) = ChainIn(proc, head)
  BY DEF Chain, ChainIn, LengthOf, InList, Nth, IsNth

LEMMA LengthExists ==
  ASSUME NEW nth
  PROVE  /\ LengthOf(nth) \in 0 .. Cardinality(Node)
         /\ InList(nth, LengthOf(nth))
  <1> DEFINE N == Cardinality(Node)
             P == {n \in Nat : n <= N + 1 => InList(nth, n)}
             Ends(n) == InList(nth, n) /\ ~ InList(nth, n + 1)
  <1>1. IsFiniteSet(Node) /\ N \in Nat
    BY TlsResolveAssumption, FS_CardinalityType
  <1>2. ~ InList(nth, N + 1)
    <2> SUFFICES ASSUME InList(nth, N + 1) PROVE FALSE
      OBVIOUS
    <2> DEFINE f == [k \in 1 .. N + 1 |-> nth[k]]
    <2>1. f \in [1 .. N + 1 -> Node]
      BY DEF InList
    <2>2. IsFiniteSet(1 .. N + 1) /\ Cardinality(1 .. N + 1) = N + 1
      BY <1>1, FS_Interval
    <2>3. N < Cardinality(1 .. N + 1)
      BY <1>1, <2>2
    <2>4. PICK j \in 1 .. N + 1, k \in 1 .. N + 1 : j # k /\ f[j] = f[k]
      <3> HIDE DEF f
      <3> QED
        BY <1>1, <2>1, <2>2, <2>3, FS_PigeonHole
    <2> QED
      BY <2>4 DEF InList
  <1>3. \E n \in 0 .. N : Ends(n)
    <2> SUFFICES ASSUME \A n \in 0 .. N : ~ Ends(n) PROVE FALSE
      OBVIOUS
    <2>1. 0 \in P
      BY TlsResolveAssumption DEF InList
    <2>2. ASSUME NEW n \in Nat, n \in P PROVE n + 1 \in P
      <3> HIDE DEF N
      <3> QED
        BY <1>1, <2>2
    <2>3. Nat \subseteq P
      <3> HIDE DEF P
      <3> QED
        BY <2>1, <2>2, NatSetInduction
    <2>4. N + 1 \in Nat /\ N + 1 <= N + 1
      BY <1>1
    <2> HIDE DEF N
    <2> QED
      BY <1>2, <2>3, <2>4
  <1>4. LengthOf(nth) \in 0 .. N /\ Ends(LengthOf(nth))
    BY <1>3 DEF LengthOf
  <1> QED
    BY <1>4

(* A list is a sequence of chunks without repeats, and empty if its head   *)
(* is not a chunk.                                                         *)
LEMMA ChainIs ==
  ASSUME NEW p, NEW head
  PROVE  /\ ChainIn(p, head) \in Seq(Node)
         /\ \A j, k \in DOMAIN ChainIn(p, head) :
              ChainIn(p, head)[j] = ChainIn(p, head)[k] => j = k
         /\ head \notin Node => Range(ChainIn(p, head)) = {}
  <1> DEFINE nth == Nth(p, head)
             n == LengthOf(nth)
             c == ChainIn(p, head)
  <1>1. IsFiniteSet(Node) /\ Cardinality(Node) \in Nat
    BY TlsResolveAssumption, FS_CardinalityType
  <1>2. n \in Nat /\ InList(nth, n)
    BY <1>1, LengthExists
  <1>3. c = [k \in 1 .. n |-> nth[k]]
    BY DEF ChainIn
  <1> HIDE DEF nth, n, c
  <1>4. \A k \in 1 .. n : nth[k] \in Node
    BY <1>2 DEF InList
  <1>5. \A j, k \in 1 .. n : nth[j] = nth[k] => j = k
    BY <1>2 DEF InList
  <1>6. c \in Seq(Node) /\ DOMAIN c = 1 .. n
    BY <1>2, <1>3, <1>4
  <1>7. \A j, k \in DOMAIN c : c[j] = c[k] => j = k
    BY <1>3, <1>5, <1>6
  <1>8. ASSUME head \notin Node PROVE Range(c) = {}
    <2> DEFINE N == Cardinality(Node) + 1
               f == [k \in 1 .. N |-> IF k = 1 THEN head ELSE 0]
    <2>1. 0 \notin Node
      BY TlsResolveAssumption
    <2>2. \A k \in 1 .. N : k # 1 => k - 1 \in 1 .. N /\ f[k - 1] \notin Node
      BY <1>1, <1>8, <2>1
    <2>3. f = [k \in 1 .. N |-> IF k = 1 THEN head
                                ELSE IF f[k - 1] \in Node THEN p.link[f[k - 1]] ELSE 0]
      BY <2>2
    <2>4. IsNth(f, p, head)
      BY <2>3 DEF IsNth
    <2>5. IsNth(nth, p, head)
      BY <2>4 DEF nth, Nth
    <2>6. nth[1] = head
      <3>1. 1 \in 1 .. Cardinality(Node) + 1
        BY <1>1
      <3> QED
        BY <2>5, <3>1 DEF IsNth
    <2>7. n = 0
      BY <1>2, <1>4, <1>8, <2>6
    <2> QED
      BY <1>6, <2>7 DEF Range
  <1> QED
    BY <1>6, <1>7, <1>8 DEF c

(* TcacheOf and OwnersOf, of a process that does not change.               *)
TcacheIn(p) ==
  LET reached == {t \in DOMAIN p.threads :
                    /\ p.reloc
                    /\ p.hasTcache
                    /\ p.threads[t].tp
                    /\ p.tpOffset # Unreadable
                    /\ p.threads[t].tcache \in Bases}
  IN  [t \in reached |-> p.threads[t].tcache]

OwnersIn(p, a) ==
  {o \in [thread : DOMAIN p.threads, bin : 0 .. MaxBins - 1] :
     /\ o.thread \in DOMAIN TcacheIn(p)
     /\ a \in Range(ChainIn(p, p.heads[TcacheIn(p)[o.thread]][o.bin]))}

LEMMA OwnersAre ==
  ASSUME NEW a
  PROVE  OwnersOf(a) = OwnersIn(proc, a)
  <1>1. TcacheOf = TcacheIn(proc)
    BY DEF TcacheOf, TcacheIn
  <1> QED
    BY <1>1, ChainOf DEF OwnersOf, OwnersIn, Owner

-----------------------------------------------------------------------------
(* The TLS pass.                                                           *)

Report ==
  {"ThreadTlsResolutionFailed", "TcacheChunkReadFailed", "TcacheCycleDetected",
   "DuplicateTcacheEntry"} \X Nat \X Nat \X (Node \cup {0})

Cur == [thread |-> thread, bin |-> bin]

(* Where the pass is, and what it has found out to get there.              *)
Phases ==
  /\ problems \in Seq(Report)
  /\ thread <= Len(proc.threads) =>
       /\ proc.reloc
       /\ step # "tp" => ThreadIn.tp
       /\ step = "bins" =>
            /\ bin < MaxBins
            /\ thread \in DOMAIN TcacheIn(proc)
            /\ Tcache = TcacheIn(proc)[thread]
       /\ step = "end" => bin = MaxBins \/ thread \notin DOMAIN TcacheIn(proc)

(* The bins the pass is done with.                                         *)
WalkedAt(t, at, b, o) ==
  \/ o.thread < t
  \/ o.thread = t /\ at \in {"bins", "end"} /\ o.bin < b

Walked(o) == WalkedAt(thread, step, bin, o)

(* The membership is right for the bins walked so far.                     *)
FirstSoFar ==
  \A a \in Node :
    /\ a \in DOMAIN membership => membership[a] \in OwnersIn(proc, a) /\ Walked(membership[a])
    /\ \A o \in OwnersIn(proc, a) :
         Walked(o) => /\ a \in DOMAIN membership
                      /\ o = membership[a] \/ Before(membership[a], o)

Dup(o, a) == <<"DuplicateTcacheEntry", o.thread, o.bin, a>>

(* So are the duplicates reported.                                         *)
DuplicatesSoFar ==
  \A a \in Node, o \in Owner :
    Times(problems, Dup(o, a))
      = IF o \in OwnersIn(proc, a) /\ Walked(o) /\ o # membership[a] THEN 1 ELSE 0

(* A thread is lost: see UnresolvedReportedOnce.                           *)
Reads(t) == (IF proc.arenaVar THEN {t.arena} ELSE {})
              \cup (IF proc.hasTcache THEN {t.tcache} ELSE {})

Lost(t) == \/ ~ t.tp
           \/ Unreadable \in Reads(t)
           \/ Reads(t) # {} /\ proc.tpOffset = Unreadable

LostArena(t) == proc.arenaVar /\ (t.arena = Unreadable \/ proc.tpOffset = Unreadable)

Failure(k) == <<"ThreadTlsResolutionFailed", k, NoBin, 0>>

(* The failures reported so far, and the arenas bound, are right too.      *)
FailuresSoFar ==
  /\ \A k \in DOMAIN proc.threads :
       Times(problems, Failure(k)) = IF k < thread /\ proc.reloc /\ Lost(proc.threads[k])
                                     THEN 1 ELSE 0
  /\ thread <= Len(proc.threads) =>
       /\ step = "arena" => ~ failed
       /\ step = "tcache" => (failed <=> LostArena(ThreadIn))
       /\ step \in {"bins", "end"} => (failed <=> Lost(ThreadIn))

ArenasSoFar ==
  \A k \in DOMAIN proc.threads :
    /\ k \in DOMAIN arenaOf =>
         arenaOf[k] = IF proc.threads[k].arena = 0 THEN proc.main ELSE proc.threads[k].arena
    /\ proc.reloc /\ proc.arenaVar /\ k \notin DOMAIN arenaOf =>
         \/ Lost(proc.threads[k])
         \/ k > thread
         \/ k = thread /\ step \in {"tp", "arena"}

TlsInv == TypeOK /\ Phases

LEMMA TlsInit ==
  Init => TlsInv /\ FirstSoFar /\ DuplicatesSoFar /\ FailuresSoFar /\ ArenasSoFar
  <1> SUFFICES ASSUME Init
               PROVE  TlsInv /\ FirstSoFar /\ DuplicatesSoFar /\ FailuresSoFar /\ ArenasSoFar
    OBVIOUS
  <1>1. IsProc(proc) /\ proc.threads \in Seq([tp : BOOLEAN, arena : Value(ArenaAddr), tcache : Value(Bases)])
    BY TlsResolveAssumption DEF Init, IsProc
  <1>2. Len(proc.threads) \in Nat /\ DOMAIN proc.threads = 1 .. Len(proc.threads)
    BY <1>1
  <1>3. MaxBins \in Nat \ {0} /\ proc.reloc \in BOOLEAN
    BY <1>1, TlsResolveAssumption DEF IsProc
  <1>4. TypeOK
    <2>1. thread \in 1 .. Len(proc.threads) + 1
      BY <1>2, <1>3 DEF Init
    <2>2. DOMAIN membership = {} /\ DOMAIN arenaOf = {}
      BY DEF Init
    <2>3. 0 \in 0 .. MaxBins
      BY <1>3
    <2> QED
      BY <1>1, <2>1, <2>2, <2>3 DEF Init, TypeOK
  <1>5. Phases
    BY <1>1, <1>2, <1>3 DEF Init, Phases
  <1>6. \A x : Times(problems, x) = 0
    BY TimesNone DEF Init
  <1>7. \A a : \A o \in OwnersIn(proc, a) : ~ Walked(o)
    <2> SUFFICES ASSUME NEW a, NEW o \in OwnersIn(proc, a), Walked(o) PROVE FALSE
      OBVIOUS
    <2>1. o.thread \in DOMAIN proc.threads /\ proc.reloc
      BY DEF OwnersIn, TcacheIn
    <2> QED
      BY <1>2, <2>1 DEF Walked, WalkedAt, Init
  <1>8. FirstSoFar
    BY <1>7 DEF FirstSoFar, Init
  <1>9. DuplicatesSoFar
    BY <1>6, <1>7 DEF DuplicatesSoFar
  <1>10. FailuresSoFar
    BY <1>2, <1>3, <1>6 DEF FailuresSoFar, Init
  <1>11. ArenasSoFar
    BY <1>2, <1>3 DEF ArenasSoFar, Init
  <1> QED
    BY <1>4, <1>5, <1>8, <1>9, <1>10, <1>11 DEF TlsInv

(* The Problems of one list are reports, and none is of another kind than  *)
(* it may be.                                                              *)
LEMMA ListReports ==
  ASSUME TlsInv, Busy("bins"), NEW head
  PROVE  /\ ChainProblems(head) \in Seq(Report)
         /\ \A k, o, a : /\ Times(ChainProblems(head), Failure(k)) = 0
                         /\ Times(ChainProblems(head), Dup(o, a)) = 0
  <1> DEFINE c == Chain(head)
             p == ChainProblems(head)
  <1>1. c \in Seq(Node)
    BY ChainOf, ChainIs
  <1>2. thread \in Nat /\ bin \in Nat
    BY TlsResolveAssumption DEF TlsInv, TypeOK, Busy
  <1>3. c # <<>> => Last(c) \in Node
    BY <1>1 DEF Last
  <1> HIDE DEF c
  <1>4. \/ p = <<>>
        \/ c # <<>> /\ p = <<<<"TcacheChunkReadFailed", thread, bin, Last(c)>>>>
        \/ p = <<<<"TcacheCycleDetected", thread, bin, 0>>>>
    BY DEF ChainProblems, c
  <1>5. p \in Seq(Report)
    <2>1. /\ c # <<>> => <<"TcacheChunkReadFailed", thread, bin, Last(c)>> \in Report
          /\ <<"TcacheCycleDetected", thread, bin, 0>> \in Report
      BY <1>2, <1>3 DEF Report
    <2>2. \A r \in Report : <<r>> \in Seq(Report)
      OBVIOUS
    <2>3. <<>> \in Seq(Report)
      OBVIOUS
    <2> HIDE DEF p
    <2> QED
      BY <1>4, <2>1, <2>2, <2>3
  <1>6. \A k \in DOMAIN p : p[k][1] \in {"TcacheChunkReadFailed", "TcacheCycleDetected"}
    BY <1>4
  <1> HIDE DEF p
  <1>7. ASSUME NEW k, NEW o, NEW a
        PROVE  Times(p, Failure(k)) = 0 /\ Times(p, Dup(o, a)) = 0
    <2>1. Failure(k)[1] = "ThreadTlsResolutionFailed" /\ Dup(o, a)[1] = "DuplicateTcacheEntry"
      BY DEF Failure, Dup
    <2>2. \A m \in DOMAIN p : p[m] # Failure(k) /\ p[m] # Dup(o, a)
      BY <1>6, <2>1
    <2> QED
      BY <2>2, TimesNone
  <1> QED
    BY <1>5, <1>7 DEF p

(* A list reports as duplicates the chunks that have an owner already.     *)
LEMMA DuplicateReports ==
  ASSUME TlsInv, Busy("bins"), NEW c \in Seq(Node),
         \A j, k \in DOMAIN c : c[j] = c[k] => j = k
  PROVE  /\ Duplicates(c) \in Seq(Report)
         /\ \A k : Times(Duplicates(c), Failure(k)) = 0
         /\ \A o, a : Times(Duplicates(c), Dup(o, a))
                        = IF /\ o.thread = thread /\ o.bin = bin
                             /\ a \in Range(c) /\ a \in DOMAIN membership
                          THEN 1 ELSE 0
  <1> DEFINE d == [k \in DOMAIN c |-> IF IsTaken(c[k]) THEN <<Duplicate(c[k])>> ELSE <<>>]
  <1>1. Duplicates(c) = FlattenSeq(d)
    BY DEF Duplicates
  <1>2. thread \in Nat /\ bin \in Nat
    BY TlsResolveAssumption DEF TlsInv, TypeOK, Busy
  <1>3. \A a \in Node : Duplicate(a) \in Report
    BY <1>2 DEF Report, Duplicate
  <1>4. d \in Seq(Seq(Report)) /\ DOMAIN d = DOMAIN c
    <2>1. \A k \in DOMAIN c : d[k] \in Seq(Report)
      BY <1>3
    <2>2. DOMAIN d = 1 .. Len(c)
      OBVIOUS
    <2> QED
      BY <2>1, <2>2
  <1>5. ASSUME NEW x, NEW k \in DOMAIN c
        PROVE  Times(d[k], x) = IF IsTaken(c[k]) /\ Duplicate(c[k]) = x THEN 1 ELSE 0
    <2>1. Times(<<>>, x) = 0
      BY TimesNone
    <2> DEFINE r == Duplicate(c[k])
               e == <<>>
    <2>2. r \in Report /\ e \in Seq(Report)
      BY <1>3
    <2>3. Append(e, r) = <<r>>
      OBVIOUS
    <2> HIDE DEF r, e
    <2>4. Times(Append(e, r), x) = Times(e, x) + (IF r = x THEN 1 ELSE 0)
      BY <2>2, TimesAppend
    <2>5. Times(<<r>>, x) = IF r = x THEN 1 ELSE 0
      BY <2>1, <2>3, <2>4 DEF e
    <2> QED
      BY <2>1, <2>5 DEF r
  <1> HIDE DEF d
  <1>6. ASSUME NEW x
        PROVE  /\ FlattenSeq(d) \in Seq(Report)
               /\ Times(FlattenSeq(d), x)
                    = IF \E k \in DOMAIN c : IsTaken(c[k]) /\ Duplicate(c[k]) = x
                      THEN 1 ELSE 0
    <2>1. \A k \in DOMAIN d : Times(d[k], x) \in {0, 1}
      BY <1>4, <1>5
    <2>2. ASSUME NEW j \in DOMAIN d, NEW k \in DOMAIN d,
                 Times(d[j], x) = 1, Times(d[k], x) = 1
          PROVE  j = k
      <3>1. Duplicate(c[j]) = Duplicate(c[k])
        BY <1>4, <1>5, <2>2
      <3> QED
        BY <1>4, <3>1 DEF Duplicate
    <2>3. /\ FlattenSeq(d) \in Seq(Report)
          /\ Times(FlattenSeq(d), x)
               = IF \E k \in DOMAIN d : Times(d[k], x) = 1 THEN 1 ELSE 0
      BY <1>4, <2>1, <2>2, TimesFlat
    <2>4. (\E k \in DOMAIN d : Times(d[k], x) = 1)
            <=> (\E k \in DOMAIN c : IsTaken(c[k]) /\ Duplicate(c[k]) = x)
      BY <1>4, <1>5
    <2> QED
      BY <2>3, <2>4
  <1>7. ASSUME NEW k PROVE Times(FlattenSeq(d), Failure(k)) = 0
    <2>1. \A m : Duplicate(m) # Failure(k)
      BY DEF Duplicate, Failure
    <2> QED
      BY <1>6, <2>1
  <1>8. ASSUME NEW o, NEW a
        PROVE  Times(FlattenSeq(d), Dup(o, a))
                 = IF /\ o.thread = thread /\ o.bin = bin
                      /\ a \in Range(c) /\ a \in DOMAIN membership
                   THEN 1 ELSE 0
    <2>1. \A m : Duplicate(m) = Dup(o, a) <=> o.thread = thread /\ o.bin = bin /\ m = a
      BY DEF Duplicate, Dup
    <2>2. (\E k \in DOMAIN c : IsTaken(c[k]) /\ Duplicate(c[k]) = Dup(o, a))
            <=> /\ o.thread = thread /\ o.bin = bin
                /\ a \in Range(c) /\ a \in DOMAIN membership
      BY <2>1 DEF Range, IsTaken
    <2> QED
      BY <1>6, <2>2
  <1> QED
    BY <1>1, <1>6, <1>7, <1>8

LEMMA TlsFacts ==
  ASSUME TlsInv
  PROVE  /\ MaxBins \in Nat \ {0}
         /\ Len(proc.threads) \in Nat /\ DOMAIN proc.threads = 1 .. Len(proc.threads)
         /\ \A k \in DOMAIN proc.threads :
              proc.threads[k] \in [tp : BOOLEAN, arena : Value(ArenaAddr), tcache : Value(Bases)]
         /\ {proc.reloc, proc.arenaVar, proc.hasTcache} \subseteq BOOLEAN
         /\ proc.main \in ArenaAddr /\ proc.tpOffset \in Value({})
         /\ thread \in Nat \ {0} /\ thread <= Len(proc.threads) + 1
         /\ thread <= Len(proc.threads) <=> thread \in DOMAIN proc.threads
         /\ bin \in Nat /\ bin <= MaxBins
         /\ Unreadable # 0
  <1>1. IsProc(proc)
    BY DEF TlsInv, TypeOK
  <1>2. proc.threads \in Seq([tp : BOOLEAN, arena : Value(ArenaAddr), tcache : Value(Bases)])
    BY <1>1 DEF IsProc
  <1>3. /\ Len(proc.threads) \in Nat /\ DOMAIN proc.threads = 1 .. Len(proc.threads)
        /\ \A k \in DOMAIN proc.threads :
             proc.threads[k] \in [tp : BOOLEAN, arena : Value(ArenaAddr), tcache : Value(Bases)]
    <2> DEFINE R == [tp : BOOLEAN, arena : Value(ArenaAddr), tcache : Value(Bases)]
    <2>1. proc.threads \in Seq(R)
      BY <1>2
    <2> HIDE DEF R
    <2>2. /\ Len(proc.threads) \in Nat /\ DOMAIN proc.threads = 1 .. Len(proc.threads)
          /\ \A k \in DOMAIN proc.threads : proc.threads[k] \in R
      BY <2>1
    <2> QED
      BY <2>2 DEF R
  <1>4. MaxBins \in Nat \ {0} /\ Unreadable # 0
    BY TlsResolveAssumption
  <1>5. thread \in 1 .. Len(proc.threads) + 1 /\ bin \in 0 .. MaxBins
    BY DEF TlsInv, TypeOK
  <1>6. /\ {proc.reloc, proc.arenaVar, proc.hasTcache} \subseteq BOOLEAN
        /\ proc.main \in ArenaAddr /\ proc.tpOffset \in Value({})
    BY <1>1 DEF IsProc
  <1> QED
    BY <1>3, <1>4, <1>5, <1>6

LEMMA TypeStep ==
  ASSUME TlsInv, [Next]_vars
  PROVE  TypeOK' /\ proc' = proc
  <1>1. MaxBins \in Nat \ {0} /\ Len(proc.threads) \in Nat /\ thread \in Nat \ {0} /\ bin \in Nat
    BY TlsFacts
  <1>2. proc' = proc
    BY DEF Next, NullTp, HasTp, BindArena, ReadTcache, HeadUnreadable, WalkBin, EndThread, BinDone, vars
  <1>3. TypeOK
    BY DEF TlsInv
  <1>4. CASE NullTp
    BY <1>1, <1>2, <1>3, <1>4 DEF NullTp, TypeOK, Busy, Owner
  <1>5. CASE HasTp
    BY <1>1, <1>2, <1>3, <1>5 DEF HasTp, TypeOK, Busy, Owner
  <1>6. CASE BindArena
    <2>1. thread \in DOMAIN proc.threads
      BY <1>6, TlsFacts DEF BindArena, Busy
    <2>2. proc.arenaVar /\ ThreadArena # Unreadable => Resolved(ThreadArena) \in ArenaAddr
      <3>1. ThreadIn.arena \in Value(ArenaAddr) /\ proc.main \in ArenaAddr
        BY <2>1, TlsFacts DEF ThreadIn
      <3> QED
        BY <3>1 DEF Resolved, ThreadArena, ReadTlsVar, Value
    <2>3. DOMAIN arenaOf' \subseteq DOMAIN proc.threads /\ \A k \in DOMAIN arenaOf' : arenaOf'[k] \in ArenaAddr
      <3>1. CASE proc.arenaVar /\ ThreadArena # Unreadable
        BY <1>3, <1>6, <2>1, <2>2, <3>1 DEF BindArena, TypeOK
      <3>2. CASE ~ (proc.arenaVar /\ ThreadArena # Unreadable)
        BY <1>3, <1>6, <3>2 DEF BindArena, TypeOK
      <3> QED
        BY <3>1, <3>2
    <2> QED
      BY <1>1, <1>2, <1>3, <1>6, <2>3 DEF BindArena, TypeOK, Busy, Owner
  <1>7. CASE ReadTcache
    <2>1. failed' \in BOOLEAN
      BY <1>3, <1>7 DEF ReadTcache, TypeOK
    <2>2. step' \in {"end", "bins"} /\ bin' = 0 /\ 0 \in 0 .. MaxBins
      BY <1>1, <1>7 DEF ReadTcache
    <2> QED
      BY <1>2, <1>3, <1>7, <2>1, <2>2 DEF ReadTcache, TypeOK, Owner
  <1>8. CASE HeadUnreadable \/ WalkBin
    <2>1. step = "bins" /\ thread \in DOMAIN proc.threads
      BY <1>8, TlsFacts DEF HeadUnreadable, WalkBin, Busy
    <2>2. bin < MaxBins
      BY <2>1, TlsFacts DEF TlsInv, Phases
    <2>3. bin' \in 0 .. MaxBins /\ step' \in {"end", "bins"}
      BY <1>1, <1>8, <2>2 DEF HeadUnreadable, WalkBin, BinDone
    <2>4. DOMAIN membership' \subseteq Node /\ \A a \in DOMAIN membership' : membership'[a] \in Owner
      <3>1. CASE HeadUnreadable
        BY <1>3, <3>1 DEF HeadUnreadable, TypeOK
      <3>2. CASE WalkBin
        <4> DEFINE c == Chain(HeadRead)
        <4>1. Range(c) \subseteq Node
          BY ChainOf, ChainIs DEF Range
        <4>2. membership' = Claim(c)
          BY <3>2 DEF WalkBin
        <4>3. [thread |-> thread, bin |-> bin] \in Owner
          BY <1>1, <2>1, <2>2 DEF Owner
        <4> HIDE DEF c
        <4> QED
          BY <1>3, <4>1, <4>2, <4>3 DEF Claim, TypeOK
      <3> QED
        BY <1>8, <3>1, <3>2
    <2> QED
      BY <1>2, <1>3, <1>8, <2>3, <2>4 DEF HeadUnreadable, WalkBin, BinDone, TypeOK, Owner
  <1>9. CASE EndThread
    BY <1>1, <1>2, <1>3, <1>9 DEF EndThread, TypeOK, Busy, Owner
  <1>10. CASE UNCHANGED vars
    BY <1>3, <1>10 DEF vars, TypeOK, Owner
  <1> QED
    BY <1>2, <1>4, <1>5, <1>6, <1>7, <1>8, <1>9, <1>10 DEF Next

LEMMA PhaseStep ==
  ASSUME TlsInv, [Next]_vars
  PROVE  Phases'
  <1>1. /\ MaxBins \in Nat \ {0} /\ Len(proc.threads) \in Nat /\ thread \in Nat \ {0}
        /\ bin \in Nat /\ thread <= Len(proc.threads) + 1
        /\ DOMAIN proc.threads = 1 .. Len(proc.threads)
    BY TlsFacts
  <1>2. proc' = proc
    BY TypeStep
  <1>3. Phases /\ problems \in Seq(Report)
    BY DEF TlsInv, Phases
  <1>4. thread <= Len(proc.threads) => TlsFailure \in Report
    BY <1>1 DEF TlsFailure, Report, NoBin
  <1>5. \A r \in Report : Append(problems, r) \in Seq(Report)
    BY <1>3
  <1>6. CASE NullTp
    <2>1. problems' \in Seq(Report) /\ step' = "tp" /\ proc.reloc
      BY <1>3, <1>4, <1>5, <1>6 DEF NullTp, Busy, Phases
    <2> QED
      BY <1>2, <2>1 DEF Phases
  <1>7. CASE HasTp
    BY <1>2, <1>3, <1>7 DEF HasTp, Busy, Phases, ThreadIn
  <1>8. CASE BindArena
    BY <1>2, <1>3, <1>8 DEF BindArena, Busy, Phases, ThreadIn
  <1>9. CASE ReadTcache
    <2>1. problems' \in Seq(Report) /\ thread' = thread /\ bin' = 0 /\ proc.reloc /\ ThreadIn.tp
      BY <1>3, <1>9 DEF ReadTcache, Busy, Phases
    <2>2. thread \in DOMAIN TcacheIn(proc)
            <=> ~ (SkipTcache \/ Tcache = Unreadable)
      <3>1. thread \in DOMAIN proc.threads
        BY <1>9, TlsFacts DEF ReadTcache, Busy
      <3>2. ThreadIn.tcache \in Value(Bases)
        BY <3>1, TlsFacts DEF ThreadIn
      <3>3. thread \in DOMAIN TcacheIn(proc)
              <=> /\ proc.hasTcache
                  /\ proc.tpOffset # Unreadable
                  /\ ThreadIn.tcache \in Bases
        BY <2>1, <3>1 DEF TcacheIn, ThreadIn
      <3>4. 0 \notin Bases /\ Unreadable \notin Bases
        BY TlsResolveAssumption
      <3>5. Unreadable # 0
        BY TlsFacts
      <3> QED
        BY <3>2, <3>3, <3>4, <3>5 DEF SkipTcache, Tcache, ReadTlsVar, Value
    <2>3. thread \in DOMAIN TcacheIn(proc) => Tcache = TcacheIn(proc)[thread]
      BY DEF TcacheIn, Tcache, ReadTlsVar, ThreadIn
    <2>4. ThreadIn' = ThreadIn /\ Tcache' = Tcache
      BY <1>2, <2>1 DEF ThreadIn, Tcache, ReadTlsVar
    <2>5. step' = IF thread \in DOMAIN TcacheIn(proc) THEN "bins" ELSE "end"
      BY <1>9, <2>2 DEF ReadTcache
    <2> QED
      BY <1>1, <1>2, <2>1, <2>3, <2>4, <2>5 DEF Phases
  <1>10. CASE HeadUnreadable \/ WalkBin
    <2>1. /\ proc.reloc /\ ThreadIn.tp /\ bin < MaxBins /\ thread \in DOMAIN TcacheIn(proc)
          /\ Tcache = TcacheIn(proc)[thread] /\ Busy("bins") /\ thread \in DOMAIN proc.threads
      BY <1>3, <1>10, TlsFacts DEF HeadUnreadable, WalkBin, Busy, Phases
    <2>2. thread' = thread /\ bin' = bin + 1 /\ step' = IF bin + 1 = MaxBins THEN "end" ELSE "bins"
      BY <1>10 DEF HeadUnreadable, WalkBin, BinDone
    <2>3. ThreadIn' = ThreadIn /\ Tcache' = Tcache
      BY <1>2, <2>2 DEF ThreadIn, Tcache, ReadTlsVar
    <2>4. problems' \in Seq(Report)
      <3>1. CASE HeadUnreadable
        <4>1. <<"TcacheChunkReadFailed", thread, bin, 0>> \in Report
          BY <1>1 DEF Report
        <4> QED
          BY <1>5, <3>1, <4>1 DEF HeadUnreadable
      <3>2. CASE WalkBin
        <4> DEFINE c == Chain(HeadRead)
                   d == Duplicates(c)
                   e == ChainProblems(HeadRead)
        <4>1. c \in Seq(Node) /\ \A j, k \in DOMAIN c : c[j] = c[k] => j = k
          BY ChainOf, ChainIs
        <4>2. d \in Seq(Report)
          <5> HIDE DEF c
          <5> QED
            BY <2>1, <4>1, DuplicateReports
        <4>3. e \in Seq(Report)
          BY <2>1, ListReports
        <4>4. problems' = problems \o e \o d
          BY <3>2 DEF WalkBin
        <4> HIDE DEF d, e
        <4> QED
          BY <1>3, <4>2, <4>3, <4>4
      <3> QED
        BY <1>10, <3>1, <3>2
    <2> QED
      BY <1>1, <1>2, <2>1, <2>2, <2>3, <2>4 DEF Phases
  <1>11. CASE EndThread
    <2>1. problems' \in Seq(Report) /\ step' = "tp" /\ proc.reloc
      BY <1>3, <1>4, <1>5, <1>11 DEF EndThread, Busy, Phases
    <2> QED
      BY <1>2, <2>1 DEF Phases
  <1>12. CASE UNCHANGED vars
    BY <1>3, <1>12 DEF vars, Phases, ThreadIn, Tcache, ReadTlsVar
  <1> QED
    BY <1>6, <1>7, <1>8, <1>9, <1>10, <1>11, <1>12 DEF Next

WalkedNext(o) == WalkedAt(thread', step', bin', o)

(* A step adds to the bins walked only the one at hand.                    *)
LEMMA WalkedStep ==
  ASSUME TlsInv, [Next]_vars, NEW a, NEW o \in OwnersIn(proc, a)
  PROVE  /\ ~ (HeadUnreadable \/ WalkBin) => (WalkedNext(o) <=> Walked(o))
         /\ HeadUnreadable => (WalkedNext(o) <=> Walked(o))
         /\ WalkBin => (WalkedNext(o) <=> Walked(o) \/ o = Cur)
  <1>1. /\ MaxBins \in Nat \ {0} /\ thread \in Nat \ {0} /\ bin \in Nat
        /\ DOMAIN proc.threads = 1 .. Len(proc.threads) /\ Len(proc.threads) \in Nat
    BY TlsFacts
  <1>2. /\ o \in [thread : DOMAIN proc.threads, bin : 0 .. MaxBins - 1]
        /\ o.thread \in DOMAIN TcacheIn(proc)
        /\ a \in Range(ChainIn(proc, proc.heads[TcacheIn(proc)[o.thread]][o.bin]))
    BY DEF OwnersIn
  <1>3. o.thread \in Nat /\ o.bin \in Nat /\ o.bin < MaxBins
    BY <1>1, <1>2
  <1>4. proc.threads[o.thread].tp
    BY <1>2 DEF TcacheIn
  <1>5. Phases
    BY DEF TlsInv
  <1>6. CASE NullTp
    <2>1. thread' = thread + 1 /\ step' = "tp" /\ step = "tp" /\ o.thread # thread
      BY <1>4, <1>6 DEF NullTp, Busy, ThreadIn
    <2> QED
      BY <1>1, <1>3, <1>6, <2>1 DEF Walked, WalkedAt, WalkedNext, NullTp, HeadUnreadable, WalkBin, Busy
  <1>7. CASE HasTp \/ BindArena
    <2>1. thread' = thread /\ step' \notin {"bins", "end"} /\ step \notin {"bins", "end"}
      BY <1>7 DEF HasTp, BindArena, Busy
    <2> QED
      BY <1>1, <1>3, <2>1 DEF Walked, WalkedAt, WalkedNext, HeadUnreadable, WalkBin, Busy
  <1>8. CASE ReadTcache
    <2>1. thread' = thread /\ bin' = 0 /\ step = "tcache"
      BY <1>8 DEF ReadTcache, Busy
    <2> QED
      BY <1>1, <1>3, <2>1 DEF Walked, WalkedAt, WalkedNext, HeadUnreadable, WalkBin, Busy
  <1>9. CASE EndThread
    <2>1. thread' = thread + 1 /\ step' = "tp" /\ step = "end" /\ thread <= Len(proc.threads)
      BY <1>9 DEF EndThread, Busy
    <2>2. o.thread = thread => o.bin < bin
      BY <1>1, <1>2, <1>3, <1>5, <2>1 DEF Phases
    <2> QED
      BY <1>1, <1>3, <2>1, <2>2 DEF Walked, WalkedAt, WalkedNext, HeadUnreadable, WalkBin, Busy
  <1>10. CASE HeadUnreadable \/ WalkBin
    <2>1. /\ thread' = thread /\ bin' = bin + 1 /\ step' \in {"end", "bins"} /\ step = "bins"
          /\ thread <= Len(proc.threads)
      BY <1>10 DEF HeadUnreadable, WalkBin, BinDone, Busy
    <2>2. WalkedNext(o) <=> Walked(o) \/ (o.thread = thread /\ o.bin = bin)
      BY <1>1, <1>3, <2>1 DEF Walked, WalkedAt, WalkedNext
    <2>3. o = Cur <=> o.thread = thread /\ o.bin = bin
      BY <1>2 DEF Cur
    <2>4. HeadUnreadable => ~ (o.thread = thread /\ o.bin = bin)
      <3> SUFFICES ASSUME HeadUnreadable, o.thread = thread, o.bin = bin PROVE FALSE
        OBVIOUS
      <3>1. HeadRead = proc.heads[TcacheIn(proc)[o.thread]][o.bin]
        BY <1>5, <2>1 DEF Phases, HeadRead
      <3>2. HeadRead \notin Node
        BY TlsResolveAssumption DEF HeadUnreadable
      <3>3. Range(ChainIn(proc, HeadRead)) = {}
        BY <3>2, ChainIs
      <3> QED
        BY <1>2, <3>1, <3>3
    <2>5. ~ (HeadUnreadable /\ WalkBin)
      BY DEF HeadUnreadable, WalkBin
    <2> QED
      BY <1>10, <2>2, <2>3, <2>4, <2>5
  <1>11. CASE UNCHANGED vars
    <2>1. (WalkedNext(o) <=> Walked(o))
      BY <1>11 DEF vars, Walked, WalkedNext
    <2>2. ~ HeadUnreadable /\ ~ WalkBin
      <3>1. bin' = bin
        BY <1>11 DEF vars
      <3> QED
        BY <1>1, <3>1 DEF HeadUnreadable, WalkBin, BinDone
    <2> QED
      BY <2>1, <2>2
  <1> QED
    BY <1>6, <1>7, <1>8, <1>9, <1>10, <1>11 DEF Next

(* What the walk of a bin does to the membership: the bin owns the chunks  *)
(* it lists that had no owner.                                             *)
LEMMA WalkBinIs ==
  ASSUME TlsInv, WalkBin
  PROVE  /\ \A a : Cur \in OwnersIn(proc, a) <=> a \in Range(Chain(HeadRead))
         /\ Cur \in Owner
         /\ DOMAIN membership' = DOMAIN membership \cup Range(Chain(HeadRead))
         /\ \A a \in DOMAIN membership' :
              membership'[a] = IF a \in DOMAIN membership THEN membership[a] ELSE Cur
         /\ ~ Walked(Cur)
  <1>1. /\ step = "bins" /\ thread \in DOMAIN proc.threads /\ thread \in Nat
        /\ bin \in Nat /\ MaxBins \in Nat
    BY TlsFacts DEF WalkBin, Busy
  <1>2. bin < MaxBins /\ thread \in DOMAIN TcacheIn(proc) /\ Tcache = TcacheIn(proc)[thread]
    BY <1>1, TlsFacts DEF TlsInv, Phases
  <1>3. Cur \in Owner
    BY <1>1, <1>2 DEF Cur, Owner
  <1>4. Chain(HeadRead) = ChainIn(proc, proc.heads[TcacheIn(proc)[thread]][bin])
    BY <1>2, ChainOf DEF HeadRead
  <1>5. Cur.thread = thread /\ Cur.bin = bin
    BY DEF Cur
  <1>6. \A a : Cur \in OwnersIn(proc, a) <=> a \in Range(Chain(HeadRead))
    BY <1>2, <1>3, <1>4, <1>5 DEF OwnersIn, Owner
  <1>7. /\ DOMAIN membership' = DOMAIN membership \cup Range(Chain(HeadRead))
        /\ \A a \in DOMAIN membership' :
             membership'[a] = IF a \in DOMAIN membership THEN membership[a] ELSE Cur
    <2> DEFINE r == Range(Chain(HeadRead))
    <2>1. membership' = [a \in DOMAIN membership \cup r |->
                           IF a \in DOMAIN membership THEN membership[a] ELSE Cur]
      BY DEF WalkBin, Claim, Cur
    <2> HIDE DEF r
    <2>2. /\ DOMAIN membership' = DOMAIN membership \cup r
          /\ \A a \in DOMAIN membership' :
               membership'[a] = IF a \in DOMAIN membership THEN membership[a] ELSE Cur
      BY <2>1
    <2> QED
      BY <2>2 DEF r
  <1>8. ~ Walked(Cur)
    BY <1>1, <1>5 DEF Walked, WalkedAt, WalkedNext
  <1> QED
    BY <1>3, <1>6, <1>7, <1>8

LEMMA FirstStep ==
  ASSUME TlsInv, FirstSoFar, [Next]_vars
  PROVE  FirstSoFar'
  <1>1. proc' = proc
    BY TypeStep
  <1>2. \A a : OwnersIn(proc', a) = OwnersIn(proc, a)
    BY <1>1
  <1>3. CASE WalkBin
    <2> DEFINE r == Range(Chain(HeadRead))
    <2>1. /\ \A a : Cur \in OwnersIn(proc, a) <=> a \in r
          /\ DOMAIN membership' = DOMAIN membership \cup r
          /\ \A a \in DOMAIN membership' :
               membership'[a] = IF a \in DOMAIN membership THEN membership[a] ELSE Cur
          /\ ~ Walked(Cur)
      BY <1>3, WalkBinIs
    <2>2. \A a : \A o \in OwnersIn(proc, a) : WalkedNext(o) <=> Walked(o) \/ o = Cur
      BY <1>3, WalkedStep
    <2>3. ASSUME NEW a \in Node
          PROVE  /\ a \in DOMAIN membership' =>
                      membership'[a] \in OwnersIn(proc, a) /\ WalkedNext(membership'[a])
                 /\ \A o \in OwnersIn(proc, a) :
                      WalkedNext(o) =>
                        /\ a \in DOMAIN membership'
                        /\ o = membership'[a] \/ Before(membership'[a], o)
      <3> HIDE DEF r
      <3>1. /\ a \in DOMAIN membership => membership[a] \in OwnersIn(proc, a) /\ Walked(membership[a])
            /\ \A o \in OwnersIn(proc, a) :
                 Walked(o) => a \in DOMAIN membership /\ (o = membership[a] \/ Before(membership[a], o))
        BY DEF FirstSoFar
      <3>2. ASSUME a \in DOMAIN membership'
            PROVE  membership'[a] \in OwnersIn(proc, a) /\ WalkedNext(membership'[a])
        BY <2>1, <2>2, <3>1, <3>2
      <3>3. ASSUME NEW o \in OwnersIn(proc, a), WalkedNext(o)
            PROVE  a \in DOMAIN membership' /\ (o = membership'[a] \/ Before(membership'[a], o))
        <4>1. CASE Walked(o)
          BY <2>1, <3>1, <4>1
        <4>2. CASE o = Cur
          <5>1. a \in r /\ a \in DOMAIN membership'
            BY <2>1, <4>2
          <5>2. CASE a \in DOMAIN membership
            <6>1. membership[a] \in OwnersIn(proc, a) /\ Walked(membership[a])
              BY <3>1, <5>2
            <6>2. step = "bins" /\ Cur.thread = thread /\ Cur.bin = bin
              BY <1>3 DEF WalkBin, Busy, Cur
            <6>3. Before(membership[a], Cur)
              BY <6>1, <6>2 DEF Walked, WalkedAt, WalkedNext, Before
            <6> QED
              BY <2>1, <4>2, <5>1, <5>2, <6>3
          <5>3. CASE a \notin DOMAIN membership
            BY <2>1, <4>2, <5>1, <5>3
          <5> QED
            BY <5>2, <5>3
        <4> QED
          BY <2>2, <3>3, <4>1, <4>2
      <3> QED
        BY <3>2, <3>3
    <2> QED
      BY <1>2, <2>3 DEF FirstSoFar, Walked, WalkedNext
  <1>4. CASE ~ WalkBin
    <2>1. membership' = membership
      BY <1>4 DEF Next, NullTp, HasTp, BindArena, ReadTcache, HeadUnreadable, EndThread, vars
    <2>2. \A a : \A o \in OwnersIn(proc, a) : (WalkedNext(o) <=> Walked(o))
      BY <1>4, WalkedStep
    <2> QED
      BY <1>2, <2>1, <2>2 DEF FirstSoFar, Walked, WalkedNext
  <1> QED
    BY <1>3, <1>4

(* What a step adds to the reports.                                        *)
LEMMA ReportsStep ==
  ASSUME TlsInv, [Next]_vars
  PROVE  /\ ~ WalkBin => \A o, a : Times(problems', Dup(o, a)) = Times(problems, Dup(o, a))
         /\ WalkBin => \A o, a : Times(problems', Dup(o, a)) = Times(problems, Dup(o, a))
                         + (IF /\ o.thread = thread /\ o.bin = bin
                               /\ a \in Range(Chain(HeadRead)) /\ a \in DOMAIN membership
                            THEN 1 ELSE 0)
         /\ \A k : Times(problems', Failure(k)) = Times(problems, Failure(k))
                     + (IF k = thread /\ (NullTp \/ (EndThread /\ failed)) THEN 1 ELSE 0)
  <1>1. problems \in Seq(Report) /\ thread \in Nat /\ bin \in Nat /\ MaxBins \in Nat
    BY TlsFacts DEF TlsInv, Phases
  <1>2. \A x : Times(problems, x) \in Nat
    BY <1>1, HitsFinite
  <1>3. \A r \in Report : \A x : Times(Append(problems, r), x) = Times(problems, x) + (IF r = x THEN 1 ELSE 0)
    BY <1>1, TimesAppend
  <1>4. CASE NullTp \/ (EndThread /\ failed)
    <2>1. TlsFailure \in Report
      BY <1>1 DEF TlsFailure, Report, NoBin
    <2>2. problems' = Append(problems, TlsFailure) /\ ~ WalkBin
      BY <1>4 DEF NullTp, EndThread, WalkBin, Busy
    <2>3. \A k : TlsFailure = Failure(k) <=> k = thread
      BY DEF TlsFailure, Failure
    <2>4. \A o, a : TlsFailure # Dup(o, a)
      BY DEF TlsFailure, Dup
    <2>5. \A x : Times(problems', x) = Times(problems, x) + (IF TlsFailure = x THEN 1 ELSE 0)
      BY <1>3, <2>1, <2>2
    <2> QED
      BY <1>2, <1>4, <2>2, <2>3, <2>4, <2>5
  <1>5. CASE HeadUnreadable
    <2> DEFINE r == <<"TcacheChunkReadFailed", thread, bin, 0>>
    <2>1. r \in Report
      BY <1>1 DEF Report
    <2>2. problems' = Append(problems, r) /\ ~ NullTp /\ ~ EndThread /\ ~ WalkBin
      BY <1>5 DEF HeadUnreadable, NullTp, EndThread, WalkBin, Busy
    <2>3. \A k, o, a : r # Failure(k) /\ r # Dup(o, a)
      BY DEF Failure, Dup
    <2> HIDE DEF r
    <2>4. \A x : Times(problems', x) = Times(problems, x) + (IF r = x THEN 1 ELSE 0)
      BY <1>3, <2>1, <2>2
    <2> QED
      BY <1>2, <2>2, <2>3, <2>4
  <1>6. CASE WalkBin
    <2> DEFINE c == Chain(HeadRead)
               d == Duplicates(c)
               e == ChainProblems(HeadRead)
    <2>1. Busy("bins") /\ problems' = problems \o e \o d /\ ~ NullTp /\ ~ EndThread
      BY <1>6 DEF WalkBin, NullTp, EndThread, Busy
    <2>2. c \in Seq(Node) /\ \A j, k \in DOMAIN c : c[j] = c[k] => j = k
      BY ChainOf, ChainIs
    <2>3. /\ d \in Seq(Report)
          /\ \A k : Times(d, Failure(k)) = 0
          /\ \A o, a : Times(d, Dup(o, a))
                         = IF /\ o.thread = thread /\ o.bin = bin
                              /\ a \in Range(c) /\ a \in DOMAIN membership
                           THEN 1 ELSE 0
      <3> HIDE DEF c
      <3> QED
        BY <2>1, <2>2, DuplicateReports
    <2>4. /\ e \in Seq(Report)
          /\ \A k, o, a : Times(e, Failure(k)) = 0 /\ Times(e, Dup(o, a)) = 0
      BY <2>1, ListReports
    <2> HIDE DEF d, e
    <2>5. \A x : Times(problems', x) = Times(problems, x) + Times(e, x) + Times(d, x)
      <3> SUFFICES ASSUME NEW x
                   PROVE  Times(problems', x) = Times(problems, x) + Times(e, x) + Times(d, x)
        OBVIOUS
      <3> DEFINE q == problems \o e
      <3>1. q \in Seq(Report)
        BY <1>1, <2>4
      <3>2. Times(q, x) = Times(problems, x) + Times(e, x)
        BY <1>1, <2>4, TimesJoin
      <3> HIDE DEF q
      <3>3. Times(q \o d, x) = Times(q, x) + Times(d, x)
        BY <2>3, <3>1, TimesJoin
      <3> QED
        BY <2>1, <3>2, <3>3 DEF q
    <2> HIDE DEF c
    <2>6. \A k : Times(problems', Failure(k)) = Times(problems, Failure(k))
      BY <1>2, <2>3, <2>4, <2>5
    <2>7. \A o, a : Times(problems', Dup(o, a)) = Times(problems, Dup(o, a)) + Times(d, Dup(o, a))
      <3>1. \A x : Times(d, x) \in Nat
        BY <2>3, HitsFinite
      <3> QED
        BY <1>2, <2>4, <2>5, <3>1
    <2>8. \A o, a : Times(problems', Dup(o, a)) = Times(problems, Dup(o, a))
                      + (IF /\ o.thread = thread /\ o.bin = bin
                            /\ a \in Range(c) /\ a \in DOMAIN membership
                         THEN 1 ELSE 0)
      BY <2>3, <2>7
    <2> QED
      BY <1>2, <1>6, <2>1, <2>6, <2>8 DEF c
  <1>7. CASE ~ (NullTp \/ (EndThread /\ failed) \/ HeadUnreadable \/ WalkBin)
    <2>1. problems' = problems
      BY <1>7 DEF Next, HasTp, BindArena, ReadTcache, EndThread, vars
    <2> QED
      BY <1>2, <1>7, <2>1
  <1> QED
    BY <1>4, <1>5, <1>6, <1>7

LEMMA DuplicatesStep ==
  ASSUME TlsInv, FirstSoFar, DuplicatesSoFar, [Next]_vars
  PROVE  DuplicatesSoFar'
  <1>1. proc' = proc /\ Owner' = Owner
    BY TypeStep DEF Owner
  <1>2. \A a : OwnersIn(proc', a) = OwnersIn(proc, a)
    BY <1>1
  <1>3. \A a \in Node, o \in Owner :
          Times(problems, Dup(o, a))
            = IF o \in OwnersIn(proc, a) /\ Walked(o) /\ o # membership[a] THEN 1 ELSE 0
    BY DEF DuplicatesSoFar
  <1>4. ASSUME NEW a \in Node, NEW o \in Owner
        PROVE  Times(problems', Dup(o, a))
                 = IF o \in OwnersIn(proc, a) /\ WalkedNext(o) /\ o # membership'[a] THEN 1 ELSE 0
    <2>1. CASE WalkBin
      <3> DEFINE r == Range(Chain(HeadRead))
      <3>1. /\ Cur \in OwnersIn(proc, a) <=> a \in r
            /\ DOMAIN membership' = DOMAIN membership \cup r
            /\ \A m \in DOMAIN membership' :
                 membership'[m] = IF m \in DOMAIN membership THEN membership[m] ELSE Cur
            /\ ~ Walked(Cur)
        BY <2>1, WalkBinIs
      <3>2. o \in OwnersIn(proc, a) => (WalkedNext(o) <=> Walked(o) \/ o = Cur)
        BY <2>1, WalkedStep
      <3>3. Times(problems', Dup(o, a)) = Times(problems, Dup(o, a))
              + (IF /\ o.thread = thread /\ o.bin = bin
                    /\ a \in r /\ a \in DOMAIN membership
                 THEN 1 ELSE 0)
        BY <2>1, ReportsStep
      <3>4. (o.thread = thread /\ o.bin = bin) <=> o = Cur
        BY DEF Owner, Cur
      <3>5. /\ a \in DOMAIN membership => membership[a] \in OwnersIn(proc, a) /\ Walked(membership[a])
            /\ o \in OwnersIn(proc, a) /\ Walked(o) => a \in DOMAIN membership
        BY DEF FirstSoFar
      <3> HIDE DEF r
      <3>6. CASE o = Cur
        <4>1. Times(problems, Dup(o, a)) = 0
          BY <1>3, <3>1, <3>6
        <4>2. Times(problems', Dup(o, a)) = IF a \in r /\ a \in DOMAIN membership THEN 1 ELSE 0
          BY <3>3, <3>4, <3>6, <4>1
        <4>3. a \in r => (o # membership'[a] <=> a \in DOMAIN membership)
          BY <3>1, <3>5, <3>6
        <4> QED
          BY <3>1, <3>2, <3>6, <4>2, <4>3
      <3>7. CASE o # Cur
        <4>1. Times(problems', Dup(o, a)) = Times(problems, Dup(o, a))
          <5>1. Times(problems, Dup(o, a)) \in Nat
            BY <1>3
          <5> QED
            BY <3>3, <3>4, <3>7, <5>1
        <4>2. o \in OwnersIn(proc, a) /\ Walked(o) => membership'[a] = membership[a]
          BY <3>1, <3>5
        <4> QED
          BY <1>3, <3>2, <3>7, <4>1, <4>2
      <3> QED
        BY <3>6, <3>7
    <2>2. CASE ~ WalkBin
      <3>1. membership' = membership
        BY <2>2 DEF Next, NullTp, HasTp, BindArena, ReadTcache, HeadUnreadable, EndThread, vars
      <3>2. o \in OwnersIn(proc, a) => (WalkedNext(o) <=> Walked(o))
        BY <2>2, WalkedStep
      <3>3. Times(problems', Dup(o, a)) = Times(problems, Dup(o, a))
        BY <2>2, ReportsStep
      <3> QED
        BY <1>3, <3>1, <3>2, <3>3
    <2> QED
      BY <2>1, <2>2
  <1> QED
    BY <1>1, <1>2, <1>4 DEF DuplicatesSoFar, Walked, WalkedNext

LEMMA FailuresStep ==
  ASSUME TlsInv, FailuresSoFar, [Next]_vars
  PROVE  FailuresSoFar'
  <1>1. proc' = proc
    BY TypeStep
  <1>2. \A t : Lost(t)' = Lost(t) /\ LostArena(t)' = LostArena(t)
    BY <1>1 DEF Lost, LostArena, Reads
  <1>3. /\ Len(proc.threads) \in Nat /\ DOMAIN proc.threads = 1 .. Len(proc.threads)
        /\ thread \in Nat /\ Unreadable # 0
        /\ thread <= Len(proc.threads) <=> thread \in DOMAIN proc.threads
    BY TlsFacts
  <1>4. Phases
    BY DEF TlsInv
  <1>5. thread' = IF NullTp \/ EndThread THEN thread + 1 ELSE thread
    BY DEF Next, NullTp, HasTp, BindArena, ReadTcache, HeadUnreadable, WalkBin, BinDone, EndThread, vars, Busy
  <1>6. NullTp => thread \in DOMAIN proc.threads /\ proc.reloc /\ Lost(ThreadIn)
    BY <1>3, <1>4 DEF NullTp, Busy, Phases, Lost
  <1>7. EndThread => thread \in DOMAIN proc.threads /\ proc.reloc /\ (failed <=> Lost(ThreadIn))
    BY <1>3, <1>4 DEF EndThread, Busy, Phases, FailuresSoFar
  <1>8. ASSUME NEW k \in DOMAIN proc.threads
        PROVE  Times(problems', Failure(k))
                 = IF k < thread' /\ proc.reloc /\ Lost(proc.threads[k]) THEN 1 ELSE 0
    <2>1. Times(problems, Failure(k)) = IF k < thread /\ proc.reloc /\ Lost(proc.threads[k])
                                        THEN 1 ELSE 0
      BY DEF FailuresSoFar
    <2>2. Times(problems', Failure(k)) = Times(problems, Failure(k))
            + (IF k = thread /\ (NullTp \/ (EndThread /\ failed)) THEN 1 ELSE 0)
      BY ReportsStep
    <2>3. CASE NullTp \/ EndThread
      <3>1. /\ thread' = thread + 1 /\ proc.reloc
            /\ (NullTp \/ (EndThread /\ failed)) <=> Lost(proc.threads[thread])
        <4>1. ~ (NullTp /\ EndThread)
          BY DEF NullTp, EndThread, Busy
        <4> QED
          BY <1>5, <1>6, <1>7, <2>3, <4>1 DEF ThreadIn
      <3>2. k < thread' <=> k < thread \/ k = thread
        BY <1>3, <3>1
      <3>3. ~ (k < thread /\ k = thread)
        BY <1>3
      <3> QED
        BY <2>1, <2>2, <3>1, <3>2, <3>3
    <2>4. CASE ~ (NullTp \/ EndThread)
      BY <1>5, <2>1, <2>2, <2>4
    <2> QED
      BY <2>3, <2>4
  <1>9. thread' <= Len(proc.threads) =>
          /\ step' = "arena" => ~ failed'
          /\ step' = "tcache" => (failed' <=> LostArena(proc.threads[thread']))
          /\ step' \in {"bins", "end"} => (failed' <=> Lost(proc.threads[thread']))
    <2>1. CASE NullTp \/ EndThread
      BY <2>1 DEF NullTp, EndThread, Busy
    <2>2. CASE HasTp
      BY <2>2 DEF HasTp
    <2>3. CASE BindArena
      <3>1. ~ failed /\ thread' = thread
        BY <2>3 DEF BindArena, Busy, FailuresSoFar
      <3>2. failed' <=> proc.arenaVar /\ ThreadArena = Unreadable
        BY <2>3, <3>1 DEF BindArena
      <3>3. failed' <=> LostArena(ThreadIn)
        BY <3>2 DEF LostArena, ThreadArena, ReadTlsVar
      <3> QED
        BY <2>3, <3>1, <3>3 DEF BindArena, ThreadIn
    <2>4. CASE ReadTcache
      <3>1. (failed <=> LostArena(ThreadIn)) /\ thread' = thread /\ ThreadIn.tp
        BY <1>4, <2>4 DEF ReadTcache, Busy, FailuresSoFar, Phases
      <3>2. failed' <=> failed \/ (~ SkipTcache /\ Tcache = Unreadable)
        BY <2>4 DEF ReadTcache
      <3>3. (~ SkipTcache /\ Tcache = Unreadable)
              <=> proc.hasTcache /\ (ThreadIn.tcache = Unreadable \/ proc.tpOffset = Unreadable)
        BY <1>3 DEF SkipTcache, Tcache, ReadTlsVar
      <3>4. Lost(ThreadIn) <=> \/ LostArena(ThreadIn)
                               \/ /\ proc.hasTcache
                                  /\ ThreadIn.tcache = Unreadable \/ proc.tpOffset = Unreadable
        <4>1. Unreadable \in Reads(ThreadIn)
                <=> \/ proc.arenaVar /\ ThreadIn.arena = Unreadable
                    \/ proc.hasTcache /\ ThreadIn.tcache = Unreadable
          BY DEF Reads
        <4>2. Reads(ThreadIn) # {} <=> proc.arenaVar \/ proc.hasTcache
          BY DEF Reads
        <4> QED
          BY <3>1, <4>1, <4>2 DEF Lost, LostArena
      <3>5. failed' <=> Lost(ThreadIn)
        BY <3>1, <3>2, <3>3, <3>4
      <3>6. step' \in {"end", "bins"}
        BY <2>4 DEF ReadTcache
      <3> QED
        BY <3>1, <3>5, <3>6 DEF ThreadIn
    <2>5. CASE HeadUnreadable \/ WalkBin
      <3>1. failed' = failed /\ thread' = thread /\ step' \in {"end", "bins"} /\ step = "bins"
            /\ thread <= Len(proc.threads)
        BY <2>5 DEF HeadUnreadable, WalkBin, BinDone, Busy
      <3> QED
        BY <3>1 DEF FailuresSoFar, ThreadIn
    <2>6. CASE UNCHANGED vars
      BY <2>6 DEF vars, FailuresSoFar, ThreadIn
    <2> QED
      BY <2>1, <2>2, <2>3, <2>4, <2>5, <2>6 DEF Next
  <1>10. ThreadIn' = proc.threads[thread']
    BY <1>1 DEF ThreadIn
  <1> QED
    BY <1>1, <1>2, <1>8, <1>9, <1>10 DEF FailuresSoFar, Lost, LostArena, Reads

LEMMA ArenasStep ==
  ASSUME TlsInv, FailuresSoFar, ArenasSoFar, [Next]_vars
  PROVE  ArenasSoFar'
  <1>1. proc' = proc
    BY TypeStep
  <1>2. /\ Len(proc.threads) \in Nat /\ DOMAIN proc.threads = 1 .. Len(proc.threads)
        /\ thread \in Nat /\ Unreadable # 0
        /\ thread <= Len(proc.threads) <=> thread \in DOMAIN proc.threads
    BY TlsFacts
  <1>3. \A k \in DOMAIN proc.threads : k \in Nat
    BY <1>2
  <1>4. ASSUME NEW k \in DOMAIN proc.threads
        PROVE  /\ k \in DOMAIN arenaOf' =>
                    arenaOf'[k] = IF proc.threads[k].arena = 0 THEN proc.main
                                  ELSE proc.threads[k].arena
               /\ proc.reloc /\ proc.arenaVar /\ k \notin DOMAIN arenaOf' =>
                    \/ Lost(proc.threads[k])
                    \/ k > thread'
                    \/ k = thread' /\ step' \in {"tp", "arena"}
    <2>1. /\ k \in DOMAIN arenaOf =>
               arenaOf[k] = IF proc.threads[k].arena = 0 THEN proc.main ELSE proc.threads[k].arena
          /\ proc.reloc /\ proc.arenaVar /\ k \notin DOMAIN arenaOf =>
               \/ Lost(proc.threads[k])
               \/ k > thread
               \/ k = thread /\ step \in {"tp", "arena"}
      BY DEF ArenasSoFar
    <2>2. CASE NullTp
      <3>1. /\ arenaOf' = arenaOf /\ thread' = thread + 1 /\ step' = "tp"
            /\ thread \in DOMAIN proc.threads /\ Lost(proc.threads[thread])
        BY <1>2, <2>2 DEF NullTp, Busy, Lost, ThreadIn
      <3>2. k > thread => k > thread' \/ k = thread'
        BY <1>2, <1>3, <3>1
      <3> QED
        BY <2>1, <3>1, <3>2
    <2>3. CASE HasTp
      <3>1. arenaOf' = arenaOf /\ thread' = thread /\ step = "tp" /\ step' = "arena"
        BY <2>3 DEF HasTp, Busy
      <3> QED
        BY <2>1, <3>1
    <2>4. CASE BindArena
      <3>1. thread' = thread /\ step' = "tcache" /\ thread \in DOMAIN proc.threads /\ ~ failed
        BY <1>2, <2>4 DEF BindArena, Busy, FailuresSoFar
      <3>2. CASE ~ proc.arenaVar
        <4>1. arenaOf' = arenaOf
          BY <2>4, <3>2 DEF BindArena
        <4> QED
          BY <2>1, <3>2, <4>1
      <3>3. CASE proc.arenaVar /\ ThreadArena = Unreadable
        <4>1. arenaOf' = arenaOf
          BY <2>4, <3>3 DEF BindArena
        <4>2. Unreadable \in Reads(ThreadIn) \/ (Reads(ThreadIn) # {} /\ proc.tpOffset = Unreadable)
          BY <3>3 DEF ThreadArena, ReadTlsVar, Reads
        <4>3. Lost(proc.threads[thread])
          BY <4>2 DEF Lost, ThreadIn
        <4> QED
          BY <2>1, <3>1, <4>1, <4>3
      <3>4. CASE proc.arenaVar /\ ThreadArena # Unreadable
        <4>1. /\ DOMAIN arenaOf' = DOMAIN arenaOf \cup {thread}
              /\ \A m \in DOMAIN arenaOf' : arenaOf'[m] = IF m = thread THEN Resolved(ThreadArena)
                                                          ELSE arenaOf[m]
          BY <2>4, <3>4 DEF BindArena
        <4>2. ThreadArena = proc.threads[thread].arena
          BY <3>4 DEF ThreadArena, ReadTlsVar, ThreadIn
        <4>3. Resolved(ThreadArena)
                = IF proc.threads[thread].arena = 0 THEN proc.main ELSE proc.threads[thread].arena
          BY <4>2 DEF Resolved
        <4> QED
          BY <2>1, <3>1, <4>1, <4>3
      <3> QED
        BY <3>2, <3>3, <3>4
    <2>5. CASE ReadTcache
      <3>1. arenaOf' = arenaOf /\ thread' = thread /\ step = "tcache"
        BY <2>5 DEF ReadTcache, Busy
      <3> QED
        BY <2>1, <3>1
    <2>6. CASE HeadUnreadable \/ WalkBin
      <3>1. arenaOf' = arenaOf /\ thread' = thread /\ step = "bins"
        BY <2>6 DEF HeadUnreadable, WalkBin, BinDone, Busy
      <3> QED
        BY <2>1, <3>1
    <2>7. CASE EndThread
      <3>1. arenaOf' = arenaOf /\ thread' = thread + 1 /\ step' = "tp" /\ step = "end"
        BY <2>7 DEF EndThread, Busy
      <3>2. k > thread => k > thread' \/ k = thread'
        BY <1>2, <1>3, <3>1
      <3> QED
        BY <2>1, <3>1, <3>2
    <2>8. CASE UNCHANGED vars
      BY <2>1, <2>8 DEF vars
    <2> QED
      BY <2>2, <2>3, <2>4, <2>5, <2>6, <2>7, <2>8 DEF Next
  <1> QED
    BY <1>1, <1>4 DEF ArenasSoFar, Lost, Reads

TlsRight == TlsInv /\ FirstSoFar /\ DuplicatesSoFar /\ FailuresSoFar /\ ArenasSoFar

LEMMA AccumulateKeeps == Accumulate => UNCHANGED vars
  BY DEF Accumulate, vars, S!Next, S!CountParked, S!CountAllocated, S!CountFree, S!EventsDone,
         S!SkipEmptyFastbin, S!MoveFastbin, S!FastbinsDone

LEMMA TlsAlwaysRight == AccountingSpec => []TlsRight
  <1>1. AccountingInit => TlsRight
    BY TlsInit DEF AccountingInit, TlsRight
  <1>2. TlsRight /\ [AccountingNext]_accountingVars => TlsRight'
    <2> SUFFICES ASSUME TlsRight, [AccountingNext]_accountingVars PROVE TlsRight'
      OBVIOUS
    <2>1. [Next]_vars
      BY AccumulateKeeps DEF AccountingNext, ResolveTls, accountingVars
    <2>2. TlsInv /\ FirstSoFar /\ DuplicatesSoFar /\ FailuresSoFar /\ ArenasSoFar
      BY DEF TlsRight
    <2> QED
      BY <2>1, <2>2, TypeStep, PhaseStep, FirstStep, DuplicatesStep, FailuresStep, ArenasStep
         DEF TlsRight, TlsInv
  <1> QED
    BY <1>1, <1>2, PTL DEF AccountingSpec

(* When the pass is done it has walked every bin that lists a chunk.       *)
LEMMA WalkedAll ==
  ASSUME TlsInv, Done
  PROVE  \A a : \A o \in OwnersIn(proc, a) : Walked(o)
  <1> SUFFICES ASSUME NEW a, NEW o \in OwnersIn(proc, a) PROVE Walked(o)
    OBVIOUS
  <1>1. o.thread \in DOMAIN proc.threads
    BY DEF OwnersIn
  <1> QED
    BY <1>1, TlsFacts DEF Done, Walked, WalkedAt

(* Whatever the threads' TLS and tcache bins look like, every chunk some   *)
(* readable bin lists is owned by the first bin that lists it, and each    *)
(* further bin that lists it is reported once (collect_tcache).            *)
THEOREM EveryChunkHasOneOwner == AccountingSpec => []OneOwnerPerChunk
  <1>1. TlsRight => OneOwnerPerChunk
    <2> SUFFICES ASSUME TlsRight, Done
                 PROVE  /\ \A a \in Node :
                             /\ a \in DOMAIN membership <=> OwnersOf(a) # {}
                             /\ a \in DOMAIN membership =>
                                  /\ membership[a] \in OwnersOf(a)
                                  /\ \A o \in OwnersOf(a) : o = membership[a] \/ Before(membership[a], o)
                        /\ \A a \in Node, o \in Owner :
                             Times(problems, Dup(o, a))
                               = IF o \in OwnersOf(a) /\ o # membership[a] THEN 1 ELSE 0
      BY DEF OneOwnerPerChunk, FirstOwnerWins, DuplicatesReported, Times, Hits, Dup
    <2>1. \A a : OwnersOf(a) = OwnersIn(proc, a)
      BY OwnersAre
    <2>2. \A a : \A o \in OwnersIn(proc, a) : Walked(o)
      BY WalkedAll DEF TlsRight
    <2>3. \A a \in Node :
            /\ a \in DOMAIN membership => membership[a] \in OwnersIn(proc, a)
            /\ \A o \in OwnersIn(proc, a) : /\ a \in DOMAIN membership
                                            /\ o = membership[a] \/ Before(membership[a], o)
      BY <2>2 DEF TlsRight, FirstSoFar
    <2>4. \A a \in Node, o \in Owner :
            Times(problems, Dup(o, a))
              = IF o \in OwnersIn(proc, a) /\ o # membership[a] THEN 1 ELSE 0
      BY <2>2 DEF TlsRight, DuplicatesSoFar
    <2> QED
      BY <2>1, <2>3, <2>4
  <1> QED
    BY <1>1, TlsAlwaysRight, PTL

(* Whichever reads fail, a thread is reported as unresolved once if its TP *)
(* or one of its TLS reads is lost and never otherwise, and the arena it   *)
(* is bound to is the one it names (resolve_tls).                          *)
THEOREM LostThreadsAreReportedOnce == AccountingSpec => []UnresolvedReportedOnce
  <1>1. TlsRight => UnresolvedReportedOnce
    <2> SUFFICES ASSUME TlsRight, Done, proc.reloc, NEW k \in DOMAIN proc.threads
                 PROVE  /\ Times(problems, Failure(k)) = IF Lost(proc.threads[k]) THEN 1 ELSE 0
                        /\ proc.arenaVar /\ k \notin DOMAIN arenaOf => Lost(proc.threads[k])
                        /\ k \in DOMAIN arenaOf =>
                             arenaOf[k] = IF proc.threads[k].arena = 0 THEN proc.main
                                          ELSE proc.threads[k].arena
      BY DEF UnresolvedReportedOnce, Times, Hits, Failure, Lost, Reads
    <2>1. k < thread /\ k \in Nat /\ thread \in Nat
      BY TlsFacts DEF Done, TlsRight
    <2>2. Times(problems, Failure(k)) = IF Lost(proc.threads[k]) THEN 1 ELSE 0
      BY <2>1 DEF TlsRight, FailuresSoFar
    <2>3. ~ (k > thread \/ k = thread)
      BY <2>1
    <2> QED
      BY <2>2, <2>3 DEF TlsRight, ArenasSoFar
  <1> QED
    BY <1>1, TlsAlwaysRight, PTL

-----------------------------------------------------------------------------
(* The sums of Stats and ReportModel.                                      *)

LEMMA SameCardinality ==
  ASSUME NEW x
  PROVE  S!Cardinality(x) = Cardinality(x) /\ (S!IsFiniteSet(x) <=> IsFiniteSet(x))
  BY DEF S!Cardinality, Cardinality, S!IsFiniteSet, IsFiniteSet

LEMMA SumIs ==
  ASSUME NEW f
  PROVE  S!SumFunction(f) = Total(f, DOMAIN f)
  BY DEF S!SumFunction, S!SumFunctionOnSet, S!FoldFunctionOnSet, S!MapThenFoldSet,
         Total, MapThenSumSet, MapThenFoldSet

-----------------------------------------------------------------------------
(* Counting the chunks of an arena.                                        *)

StatsTypes ==
  /\ S!IsArena(arena)
  /\ pc \in {"events", "fastbins", "done"}
  /\ i \in Nat \ {0}
  /\ allocated \in S!SizeTally
  /\ free \in S!SizeTally
  /\ tcacheThreads \subseteq Nat
  /\ \A b \in DOMAIN tcacheCounts : b \in Nat /\ tcacheCounts[b] \in Nat
  /\ shown \in Seq([index : Nat, size : Nat, count : Nat, bytes : Nat])
  /\ inconsistent \subseteq Sizes

N == Len(arena.events)

LEMMA Settings ==
  /\ Sizes \subseteq Nat \ {0} /\ IsFiniteSet(Sizes)
  /\ MinPayload \in Nat /\ Alignment \in Nat /\ HeaderSize \in Nat /\ MaxU64 \in Nat
  BY AccountingAssumption, SameCardinality DEF S!InputsOK

LEMMA ArenaFacts ==
  ASSUME StatsTypes
  PROVE  /\ N \in Nat /\ N <= MaxU64 /\ DOMAIN arena.events = 1 .. N
         /\ \A e \in DOMAIN arena.events : arena.events[e].user_size \in Sizes
                                           /\ arena.events[e].in_use \in BOOLEAN
         /\ Len(arena.fastbins) \in Nat /\ DOMAIN arena.fastbins = 1 .. Len(arena.fastbins)
         /\ \A b \in DOMAIN arena.fastbins :
              /\ arena.fastbins[b].index \in Nat /\ arena.fastbins[b].count \in Nat
              /\ arena.fastbins[b].members \subseteq Nat
              /\ S!IndexToSize(arena.fastbins[b].index) \in Sizes
  <1> DEFINE R == [user_addr : Nat, user_size : Sizes, in_use : BOOLEAN]
             Q == [index : Nat, count : Nat, members : SUBSET Nat]
  <1>1. /\ arena.events \in Seq(R) /\ Len(arena.events) <= MaxU64 /\ arena.fastbins \in Seq(Q)
        /\ \A b \in DOMAIN arena.fastbins : S!IndexToSize(arena.fastbins[b].index) \in Sizes
    BY DEF StatsTypes, S!IsArena, S!IndexToSize
  <1>2. \A r \in R : r.user_size \in Sizes /\ r.in_use \in BOOLEAN
    OBVIOUS
  <1>3. \A q \in Q : q.index \in Nat /\ q.count \in Nat /\ q.members \subseteq Nat
    OBVIOUS
  <1> HIDE DEF R, Q
  <1>4. N \in Nat /\ DOMAIN arena.events = 1 .. N /\ \A e \in DOMAIN arena.events : arena.events[e] \in R
    BY <1>1 DEF N
  <1>5. /\ Len(arena.fastbins) \in Nat /\ DOMAIN arena.fastbins = 1 .. Len(arena.fastbins)
        /\ \A b \in DOMAIN arena.fastbins : arena.fastbins[b] \in Q
    BY <1>1
  <1> QED
    BY <1>1, <1>2, <1>3, <1>4, <1>5 DEF N

LEMMA SatAddIs ==
  ASSUME NEW a \in Nat, NEW b \in Nat
  PROVE  /\ S!SatAdd(a, b) \in Nat /\ S!SatAdd(a, b) <= MaxU64
         /\ a + b <= MaxU64 => S!SatAdd(a, b) = a + b
         /\ S!SatAdd(a, b) < MaxU64 => S!SatAdd(a, b) = a + b
         /\ a <= MaxU64 => a <= S!SatAdd(a, b)
         /\ b <= MaxU64 => b <= S!SatAdd(a, b)
  BY Settings DEF S!SatAdd

LEMMA SatMulIs ==
  ASSUME NEW a \in Nat, NEW b \in Nat
  PROVE  /\ a * b \in Nat
         /\ S!SatMul(a, b) \in Nat /\ S!SatMul(a, b) <= MaxU64
         /\ a * b <= MaxU64 => S!SatMul(a, b) = a * b
         /\ S!SatMul(a, b) < MaxU64 => S!SatMul(a, b) = a * b
  BY Settings DEF S!SatMul

LEMMA SatSubIs ==
  ASSUME NEW a \in Nat, NEW b \in Nat
  PROVE  /\ S!SatSub(a, b) \in Nat /\ S!SatSub(a, b) <= a
         /\ b <= a => S!SatSub(a, b) = a - b
  BY DEF S!SatSub

(* add_n and remove_n, field by field.                                     *)
LEMMA AddNIs ==
  ASSUME NEW t \in S!SizeTally, NEW size \in Sizes, NEW n \in Nat
  PROVE  /\ S!AddN(t, size, n) \in S!SizeTally
         /\ S!AddN(t, size, n).count = S!SatAdd(t.count, n)
         /\ S!AddN(t, size, n).bytes = S!SatAdd(t.bytes, S!SatMul(size, n))
         /\ \A s \in Sizes : S!AddN(t, size, n).histogram[s]
                               = IF s = size THEN S!SatAdd(t.histogram[s], n) ELSE t.histogram[s]
  <1> DEFINE h == [t.histogram EXCEPT ![size] = S!SatAdd(@, n)]
  <1>1. t.count \in Nat /\ t.bytes \in Nat /\ t.histogram \in [Sizes -> Nat] /\ size \in Nat
    BY Settings DEF S!SizeTally
  <1>2. S!AddN(t, size, n) = [count |-> S!SatAdd(t.count, n),
                              bytes |-> S!SatAdd(t.bytes, S!SatMul(size, n)), histogram |-> h]
    BY DEF S!AddN
  <1>3. \A a, b \in Nat : S!SatAdd(a, b) \in Nat /\ S!SatMul(a, b) \in Nat
    BY SatAddIs, SatMulIs
  <1>4. h \in [Sizes -> Nat]
    BY <1>1, <1>3
  <1>5. \A s \in Sizes : h[s] = IF s = size THEN S!SatAdd(t.histogram[s], n) ELSE t.histogram[s]
    BY <1>1
  <1> HIDE DEF h
  <1>6. S!AddN(t, size, n) \in S!SizeTally
    BY <1>1, <1>2, <1>3, <1>4 DEF S!SizeTally
  <1> QED
    BY <1>2, <1>5, <1>6

LEMMA RemoveNIs ==
  ASSUME NEW t \in S!SizeTally, NEW size \in Sizes, NEW n \in Nat
  PROVE  /\ S!RemoveN(t, size, n) \in S!SizeTally
         /\ S!RemoveN(t, size, n).count = S!SatSub(t.count, n)
         /\ S!RemoveN(t, size, n).bytes = S!SatSub(t.bytes, S!SatMul(size, n))
         /\ \A s \in Sizes : S!RemoveN(t, size, n).histogram[s]
                               = IF s = size THEN S!SatSub(t.histogram[s], n) ELSE t.histogram[s]
  <1> DEFINE h == [t.histogram EXCEPT ![size] = S!SatSub(@, n)]
  <1>1. t.count \in Nat /\ t.bytes \in Nat /\ t.histogram \in [Sizes -> Nat] /\ size \in Nat
    BY Settings DEF S!SizeTally
  <1>2. S!RemoveN(t, size, n) = [count |-> S!SatSub(t.count, n),
                                 bytes |-> S!SatSub(t.bytes, S!SatMul(size, n)), histogram |-> h]
    BY DEF S!RemoveN
  <1>3. \A a, b \in Nat : S!SatSub(a, b) \in Nat /\ S!SatMul(a, b) \in Nat
    BY SatSubIs, SatMulIs
  <1>4. h \in [Sizes -> Nat]
    BY <1>1, <1>3
  <1>5. \A s \in Sizes : h[s] = IF s = size THEN S!SatSub(t.histogram[s], n) ELSE t.histogram[s]
    BY <1>1
  <1> HIDE DEF h
  <1>6. S!RemoveN(t, size, n) \in S!SizeTally
    BY <1>1, <1>2, <1>3, <1>4 DEF S!SizeTally
  <1> QED
    BY <1>2, <1>5, <1>6

(* Nothing is counted before the TLS pass is done.                         *)
Start ==
  /\ pc = "events" /\ i = 1
  /\ allocated = S!EmptyTally /\ free = S!EmptyTally
  /\ tcacheThreads = {} /\ tcacheCounts = <<>>
  /\ shown = <<>> /\ inconsistent = {}

Idle == ~ Done => Start

LEMMA MembershipTyped ==
  ASSUME TlsInv
  PROVE  \A a \in DOMAIN membership : membership[a].thread \in Nat /\ membership[a].bin \in Nat
                                      /\ membership[a] \in [thread : Nat, bin : Nat]
  <1> SUFFICES ASSUME NEW a \in DOMAIN membership PROVE membership[a] \in [thread : Nat, bin : Nat]
    OBVIOUS
  <1>1. membership[a] \in Owner
    BY DEF TlsInv, TypeOK
  <1>2. DOMAIN proc.threads \subseteq Nat /\ 0 .. MaxBins - 1 \subseteq Nat
    BY TlsFacts
  <1> QED
    BY <1>1, <1>2 DEF Owner

LEMMA EmptyTallyIs ==
  /\ S!EmptyTally \in S!SizeTally /\ S!EmptyTally.count = 0 /\ S!EmptyTally.bytes = 0
  /\ \A s \in Sizes : S!EmptyTally.histogram[s] = 0
  BY DEF S!EmptyTally, S!SizeTally

LEMMA StatsInit == AccountingInit => StatsTypes /\ Idle
  <1> SUFFICES ASSUME AccountingInit PROVE StatsTypes /\ Idle
    OBVIOUS
  <1>1. S!Init
    BY DEF AccountingInit
  <1>2. S!IsArena(arena)
    BY <1>1, AccountingAssumption DEF S!Init, S!InputsOK
  <1>3. tcacheCounts = <<>> => DOMAIN tcacheCounts = {}
    OBVIOUS
  <1> QED
    BY <1>1, <1>2, <1>3, EmptyTallyIs DEF S!Init, StatsTypes, Idle, Start

LEMMA StatsTypeStep ==
  ASSUME TlsInv, StatsTypes, S!Next
  PROVE  StatsTypes' /\ arena' = arena /\ membership' = membership
  <1>1. arena' = arena /\ membership' = membership
    BY DEF S!Next, S!CountParked, S!CountAllocated, S!CountFree, S!EventsDone,
           S!SkipEmptyFastbin, S!MoveFastbin, S!FastbinsDone
  <1>2. S!IsArena(arena)' <=> S!IsArena(arena)
    BY <1>1 DEF S!IsArena
  <1>3. CASE S!CountParked \/ S!CountAllocated \/ S!CountFree
    <2>1. i \in DOMAIN arena.events
      BY <1>3, ArenaFacts DEF S!CountParked, S!CountAllocated, S!CountFree, S!MoreEvents, StatsTypes, N
    <2>2. S!Event.user_size \in Sizes
      BY <2>1, ArenaFacts DEF S!Event
    <2>3. \A t \in S!SizeTally : S!AddN(t, S!Event.user_size, 1) \in S!SizeTally
      BY <2>2, AddNIs
    <2>4. \A b \in DOMAIN tcacheCounts' : b \in Nat /\ tcacheCounts'[b] \in Nat
      <3>1. CASE S!CountParked
        <4> DEFINE owner == membership[S!Event.user_addr]
                   old == IF owner.bin \in DOMAIN tcacheCounts THEN tcacheCounts[owner.bin] ELSE 0
        <4>1. owner.bin \in Nat
          BY <3>1, MembershipTyped DEF S!CountParked, S!Parked
        <4>2. tcacheCounts' = [b \in DOMAIN tcacheCounts \cup {owner.bin} |->
                                 IF b = owner.bin THEN S!SatAdd(old, 1) ELSE tcacheCounts[b]]
          BY <3>1 DEF S!CountParked, S!CountOwner
        <4>3. old \in Nat
          BY DEF StatsTypes
        <4>4. S!SatAdd(old, 1) \in Nat
          BY <4>3, SatAddIs
        <4> HIDE DEF owner, old
        <4> QED
          BY <4>1, <4>2, <4>4 DEF StatsTypes
      <3>2. CASE ~ S!CountParked
        BY <1>3, <3>2 DEF S!CountAllocated, S!CountFree, StatsTypes
      <3> QED
        BY <3>1, <3>2
    <2>5. tcacheThreads' \subseteq Nat
      <3>1. CASE S!CountParked
        <4>1. membership[S!Event.user_addr].thread \in Nat
          BY <3>1, MembershipTyped DEF S!CountParked, S!Parked
        <4> QED
          BY <3>1, <4>1 DEF S!CountParked, S!CountOwner, StatsTypes
      <3>2. CASE ~ S!CountParked
        BY <1>3, <3>2 DEF S!CountAllocated, S!CountFree, StatsTypes
      <3> QED
        BY <3>1, <3>2
    <2>6. allocated' \in S!SizeTally /\ free' \in S!SizeTally
      BY <1>3, <2>3 DEF S!CountParked, S!CountAllocated, S!CountFree, StatsTypes
    <2>7. pc' = pc /\ i' = i + 1 /\ shown' = shown /\ inconsistent' = inconsistent
      BY <1>3 DEF S!CountParked, S!CountAllocated, S!CountFree
    <2> QED
      BY <1>1, <1>2, <2>4, <2>5, <2>6, <2>7 DEF StatsTypes
  <1>4. CASE S!EventsDone \/ S!FastbinsDone \/ S!SkipEmptyFastbin
    <2>1. pc' \in {"events", "fastbins", "done"} /\ i' \in Nat \ {0}
      BY <1>4 DEF S!EventsDone, S!FastbinsDone, S!SkipEmptyFastbin, StatsTypes
    <2>2. UNCHANGED <<allocated, free, tcacheThreads, tcacheCounts, shown, inconsistent>>
      BY <1>4 DEF S!EventsDone, S!FastbinsDone, S!SkipEmptyFastbin
    <2> QED
      BY <1>1, <1>2, <2>1, <2>2 DEF StatsTypes
  <1>5. CASE S!MoveFastbin
    <2> DEFINE b == arena.fastbins[i]
               size == S!IndexToSize(b.index)
               row == S!BinTally(b.index, b.count)
    <2>1. i \in DOMAIN arena.fastbins
      BY <1>5, ArenaFacts DEF S!MoveFastbin, S!MoreFastbins, StatsTypes
    <2>2. size \in Sizes /\ b.count \in Nat /\ b.index \in Nat
      BY <2>1, ArenaFacts
    <2>3. row \in [index : Nat, size : Nat, count : Nat, bytes : Nat]
      <3>1. size \in Nat /\ S!SatMul(size, b.count) \in Nat
        BY <2>2, Settings, SatMulIs
      <3> HIDE DEF b
      <3> QED
        BY <2>2, <3>1 DEF S!BinTally
    <2>4. /\ allocated' = S!RemoveN(allocated, size, b.count)
          /\ free' = S!AddN(free, size, b.count)
          /\ shown' = Append(shown, row)
          /\ inconsistent' = IF S!Underflows(allocated, size, b.count)
                             THEN inconsistent \cup {size} ELSE inconsistent
          /\ i' = i + 1 /\ pc' = pc /\ tcacheThreads' = tcacheThreads /\ tcacheCounts' = tcacheCounts
      BY <1>5 DEF S!MoveFastbin
    <2> HIDE DEF b, size, row
    <2>5. allocated' \in S!SizeTally /\ free' \in S!SizeTally
      BY <2>2, <2>4, AddNIs, RemoveNIs DEF StatsTypes
    <2>6. shown' \in Seq([index : Nat, size : Nat, count : Nat, bytes : Nat])
      <3> DEFINE R == [index : Nat, size : Nat, count : Nat, bytes : Nat]
      <3>1. shown \in Seq(R) /\ row \in R
        BY <2>3 DEF StatsTypes
      <3> HIDE DEF R
      <3>2. shown' \in Seq(R)
        BY <2>4, <3>1
      <3> QED
        BY <3>2 DEF R
    <2>7. inconsistent' \subseteq Sizes
      BY <2>2, <2>4 DEF StatsTypes
    <2> QED
      BY <1>1, <1>2, <2>4, <2>5, <2>6, <2>7 DEF StatsTypes
  <1> QED
    BY <1>1, <1>3, <1>4, <1>5 DEF S!Next

(* The walked chunks by what becomes of them while they are counted.       *)
ParkedSet == {e \in DOMAIN arena.events :
                arena.events[e].in_use /\ arena.events[e].user_addr \in DOMAIN membership}

AllocatedSet == {e \in DOMAIN arena.events :
                   arena.events[e].in_use /\ arena.events[e].user_addr \notin DOMAIN membership}

FreeSet == DOMAIN arena.events \ AllocatedSet

OfSize(s) == {e \in DOMAIN arena.events : arena.events[e].user_size = s}

OfBin(b) == {e \in ParkedSet : membership[arena.events[e].user_addr].bin = b}

(* How many of them are among the first n.                                 *)
Upto(C, n) == Cardinality(C \cap (1 .. n))

LEMMA UptoIs ==
  ASSUME NEW C
  PROVE  /\ Upto(C, 0) = 0
         /\ \A n \in Nat : Upto(C, n) \in Nat /\ Upto(C, n) <= n
         /\ \A n \in Nat : Upto(C, n + 1) = Upto(C, n) + (IF n + 1 \in C THEN 1 ELSE 0)
  <1>1. ASSUME NEW n \in Nat
        PROVE  IsFiniteSet(C \cap (1 .. n)) /\ Upto(C, n) \in Nat /\ Upto(C, n) <= n
    <2>1. IsFiniteSet(1 .. n) /\ Cardinality(1 .. n) = n
      BY FS_Interval
    <2>2. C \cap (1 .. n) \in SUBSET (1 .. n)
      OBVIOUS
    <2> QED
      BY <2>1, <2>2, Part DEF Upto
  <1>2. Upto(C, 0) = 0
    <2>1. C \cap (1 .. 0) = {}
      OBVIOUS
    <2> QED
      BY <2>1, FS_EmptySet DEF Upto
  <1>3. ASSUME NEW n \in Nat
        PROVE  Upto(C, n + 1) = Upto(C, n) + (IF n + 1 \in C THEN 1 ELSE 0)
    <2>1. n + 1 \notin C \cap (1 .. n)
      OBVIOUS
    <2>2. CASE n + 1 \in C
      <3>1. C \cap (1 .. n + 1) = (C \cap (1 .. n)) \cup {n + 1}
        BY <2>2
      <3> QED
        BY <1>1, <2>1, <2>2, <3>1, OneMore DEF Upto
    <2>3. CASE n + 1 \notin C
      <3>1. C \cap (1 .. n + 1) = C \cap (1 .. n)
        BY <2>3
      <3> QED
        BY <1>1, <2>3, <3>1 DEF Upto
    <2> QED
      BY <2>2, <2>3
  <1> QED
    BY <1>1, <1>2, <1>3

(* All of them.                                                            *)
LEMMA UptoAll ==
  ASSUME StatsTypes, NEW C \in SUBSET DOMAIN arena.events
  PROVE  /\ Upto(C, N) = Cardinality(C) /\ IsFiniteSet(C)
         /\ Cardinality(C) \in Nat /\ Cardinality(C) <= N
  <1>1. N \in Nat /\ C \cap (1 .. N) = C
    BY ArenaFacts
  <1>2. IsFiniteSet(1 .. N) /\ C \in SUBSET (1 .. N)
    BY <1>1, ArenaFacts, FS_Interval
  <1> QED
    BY <1>1, <1>2, UptoIs, Part DEF Upto

TcacheCount(b) == IF b \in DOMAIN tcacheCounts THEN tcacheCounts[b] ELSE 0

(* While the events are counted, a chunk is in one tally and one row of    *)
(* it.                                                                     *)
CountedEvents ==
  pc = "events" =>
    /\ i <= N + 1
    /\ allocated.count = Upto(AllocatedSet, i - 1)
    /\ free.count = Upto(FreeSet, i - 1)
    /\ \A s \in Sizes : /\ allocated.histogram[s] = Upto(AllocatedSet \cap OfSize(s), i - 1)
                        /\ free.histogram[s] = Upto(FreeSet \cap OfSize(s), i - 1)
    /\ inconsistent = {}

(* The tcache counts go by the bin of the owner.                           *)
CountedTcache ==
  LET n == IF pc = "events" THEN i - 1 ELSE N
  IN  /\ \A b \in Nat : TcacheCount(b) = Upto(OfBin(b), n)
      /\ IsFiniteSet(DOMAIN tcacheCounts) /\ IsFiniteSet(tcacheThreads)
      /\ Total(tcacheCounts, DOMAIN tcacheCounts) = Upto(ParkedSet, n)
      /\ Cardinality(tcacheThreads) <= Upto(ParkedSet, n)
      /\ Upto(ParkedSet, n) <= free.count
      /\ free.count <= MaxU64

SetsKept == /\ ParkedSet' = ParkedSet /\ AllocatedSet' = AllocatedSet /\ FreeSet' = FreeSet
            /\ \A s : OfSize(s)' = OfSize(s)
            /\ \A b : OfBin(b)' = OfBin(b)

LEMMA KeepSets == arena' = arena /\ membership' = membership => SetsKept /\ N' = N
  BY DEF SetsKept, ParkedSet, AllocatedSet, FreeSet, OfSize, OfBin, N

(* One event.                                                              *)
LEMMA EventIs ==
  ASSUME StatsTypes, S!CountParked \/ S!CountAllocated \/ S!CountFree
  PROVE  /\ i \in DOMAIN arena.events /\ i <= N /\ i - 1 \in Nat /\ (i - 1) + 1 = i
         /\ pc = "events" /\ pc' = "events" /\ i' = i + 1 /\ i' - 1 = i
         /\ S!CountParked <=> i \in ParkedSet
         /\ S!CountAllocated <=> i \in AllocatedSet
         /\ i \in FreeSet <=> i \notin AllocatedSet
         /\ S!Event.user_size \in Sizes
         /\ \A s : i \in OfSize(s) <=> s = S!Event.user_size
         /\ i \in AllocatedSet => allocated' = S!AddN(allocated, S!Event.user_size, 1) /\ free' = free
         /\ i \in FreeSet => free' = S!AddN(free, S!Event.user_size, 1) /\ allocated' = allocated
         /\ shown' = shown /\ inconsistent' = inconsistent
  <1>1. pc = "events" /\ i \in Nat \ {0} /\ i <= N /\ N \in Nat /\ DOMAIN arena.events = 1 .. N
    BY ArenaFacts DEF StatsTypes, N, S!CountParked, S!CountAllocated, S!CountFree, S!MoreEvents
  <1>2. i \in DOMAIN arena.events /\ i - 1 \in Nat /\ (i - 1) + 1 = i
    BY <1>1
  <1>3. S!Event = arena.events[i]
    BY DEF S!Event
  <1>4. S!Event.user_size \in Sizes
    BY <1>2, <1>3, ArenaFacts
  <1>5. S!CountParked <=> i \in ParkedSet
    BY <1>2, <1>3 DEF S!CountParked, S!CountAllocated, S!CountFree, S!Parked, ParkedSet
  <1>6. S!CountAllocated <=> i \in AllocatedSet
    BY <1>2, <1>3 DEF S!CountParked, S!CountAllocated, S!CountFree, S!Parked, AllocatedSet
  <1>7. i \in FreeSet <=> i \notin AllocatedSet
    BY <1>2 DEF FreeSet
  <1>8. \A s : i \in OfSize(s) <=> s = S!Event.user_size
    BY <1>2, <1>3 DEF OfSize
  <1>9. pc' = pc /\ i' = i + 1 /\ shown' = shown /\ inconsistent' = inconsistent
    BY DEF S!CountParked, S!CountAllocated, S!CountFree
  <1>10. S!CountAllocated => allocated' = S!AddN(allocated, S!Event.user_size, 1) /\ free' = free
    BY DEF S!CountAllocated
  <1>11. ~ S!CountAllocated => free' = S!AddN(free, S!Event.user_size, 1) /\ allocated' = allocated
    BY DEF S!CountParked, S!CountFree
  <1>12. i' - 1 = i
    BY <1>1, <1>9
  <1> QED
    BY <1>1, <1>2, <1>4, <1>5, <1>6, <1>7, <1>8, <1>9, <1>10, <1>11, <1>12

LEMMA CountedEventsStep ==
  ASSUME TlsInv, StatsTypes, CountedEvents, S!Next
  PROVE  CountedEvents'
  <1>1. arena' = arena /\ membership' = membership /\ SetsKept /\ N' = N
    BY StatsTypeStep, KeepSets
  <1>2. /\ AllocatedSet' = AllocatedSet /\ FreeSet' = FreeSet /\ \A s : OfSize(s)' = OfSize(s)
    BY <1>1 DEF SetsKept
  <1>3. CASE S!CountParked \/ S!CountAllocated \/ S!CountFree
    <2> DEFINE z == S!Event.user_size
               n == i - 1
    <2>1. /\ i <= N /\ n \in Nat /\ n + 1 = i /\ i' - 1 = i /\ pc = "events" /\ i' = i + 1
          /\ i \in Nat /\ i' <= N + 1
          /\ i \in FreeSet <=> i \notin AllocatedSet
          /\ z \in Sizes /\ \A s : i \in OfSize(s) <=> s = z
          /\ i \in AllocatedSet => allocated' = S!AddN(allocated, z, 1) /\ free' = free
          /\ i \in FreeSet => free' = S!AddN(free, z, 1) /\ allocated' = allocated
          /\ inconsistent' = inconsistent
      <3>1. i \in Nat /\ N \in Nat
        BY ArenaFacts DEF StatsTypes
      <3>2. i <= N /\ i' = i + 1
        BY <1>3, EventIs
      <3>3. i' <= N + 1
        BY <3>1, <3>2
      <3> QED
        BY <1>3, <3>1, <3>3, EventIs
    <2>2. N \in Nat /\ N <= MaxU64 /\ MaxU64 \in Nat
      BY ArenaFacts, Settings
    <2>3. /\ inconsistent = {}
          /\ allocated.count = Upto(AllocatedSet, n)
          /\ free.count = Upto(FreeSet, n)
          /\ \A s \in Sizes : /\ allocated.histogram[s] = Upto(AllocatedSet \cap OfSize(s), n)
                              /\ free.histogram[s] = Upto(FreeSet \cap OfSize(s), n)
      BY <2>1 DEF CountedEvents
    <2>4. \A C : /\ Upto(C, n) \in Nat /\ Upto(C, n) + 1 <= MaxU64
                 /\ Upto(C, i) = Upto(C, n) + (IF i \in C THEN 1 ELSE 0)
      <3> SUFFICES ASSUME NEW C
                   PROVE  /\ Upto(C, n) \in Nat /\ Upto(C, n) + 1 <= MaxU64
                          /\ Upto(C, i) = Upto(C, n) + (IF i \in C THEN 1 ELSE 0)
        OBVIOUS
      <3>1. Upto(C, n) \in Nat /\ Upto(C, n) <= n
        BY <2>1, UptoIs
      <3>2. Upto(C, n + 1) = Upto(C, n) + (IF n + 1 \in C THEN 1 ELSE 0)
        BY <2>1, UptoIs
      <3> HIDE DEF n
      <3> QED
        BY <2>1, <2>2, <3>1, <3>2
    <2>5. \A c \in Nat : c + 1 <= MaxU64 => S!SatAdd(c, 1) = c + 1
      BY SatAddIs
    <2>6. allocated \in S!SizeTally /\ free \in S!SizeTally
      BY DEF StatsTypes
    <2> HIDE DEF n, z
    <2>7. CASE i \in AllocatedSet
      <3>1. i \notin FreeSet
        BY <2>1, <2>7
      <3>2. /\ allocated'.count = S!SatAdd(allocated.count, 1)
            /\ \A s \in Sizes : allocated'.histogram[s]
                 = IF s = z THEN S!SatAdd(allocated.histogram[s], 1) ELSE allocated.histogram[s]
        BY <2>1, <2>6, <2>7, AddNIs
      <3>3. allocated'.count = Upto(AllocatedSet, i) /\ free'.count = Upto(FreeSet, i)
        BY <2>1, <2>3, <2>4, <2>5, <2>7, <3>1, <3>2
      <3>4. ASSUME NEW s \in Sizes
            PROVE  /\ allocated'.histogram[s] = Upto(AllocatedSet \cap OfSize(s), i)
                   /\ free'.histogram[s] = Upto(FreeSet \cap OfSize(s), i)
        <4>1. i \notin FreeSet \cap OfSize(s) /\ (i \in AllocatedSet \cap OfSize(s) <=> s = z)
          BY <2>1, <2>7, <3>1
        <4>2. free'.histogram[s] = Upto(FreeSet \cap OfSize(s), i)
          <5>1. Upto(FreeSet \cap OfSize(s), i) = Upto(FreeSet \cap OfSize(s), n)
            BY <2>4, <4>1
          <5>2. free' = free
            BY <2>1, <2>7
          <5> QED
            BY <2>3, <5>1, <5>2
        <4>3. allocated'.histogram[s] = Upto(AllocatedSet \cap OfSize(s), i)
          <5>1. Upto(AllocatedSet \cap OfSize(s), i)
                  = Upto(AllocatedSet \cap OfSize(s), n) + (IF s = z THEN 1 ELSE 0)
            BY <2>4, <4>1
          <5>2. allocated.histogram[s] = Upto(AllocatedSet \cap OfSize(s), n)
            BY <2>3
          <5>3. allocated.histogram[s] \in Nat /\ allocated.histogram[s] + 1 <= MaxU64
            BY <2>4, <5>2
          <5> QED
            BY <2>5, <3>2, <5>1, <5>2, <5>3
        <4> QED
          BY <4>2, <4>3
      <3> QED
        BY <1>1, <1>2, <2>1, <2>2, <2>3, <3>3, <3>4 DEF CountedEvents
    <2>8. CASE i \notin AllocatedSet
      <3>1. i \in FreeSet
        BY <2>1, <2>8
      <3>2. /\ free'.count = S!SatAdd(free.count, 1)
            /\ \A s \in Sizes : free'.histogram[s]
                 = IF s = z THEN S!SatAdd(free.histogram[s], 1) ELSE free.histogram[s]
        BY <2>1, <2>6, <3>1, AddNIs
      <3>3. allocated'.count = Upto(AllocatedSet, i) /\ free'.count = Upto(FreeSet, i)
        BY <2>1, <2>3, <2>4, <2>5, <2>8, <3>1, <3>2
      <3>4. ASSUME NEW s \in Sizes
            PROVE  /\ allocated'.histogram[s] = Upto(AllocatedSet \cap OfSize(s), i)
                   /\ free'.histogram[s] = Upto(FreeSet \cap OfSize(s), i)
        <4>1. i \notin AllocatedSet \cap OfSize(s) /\ (i \in FreeSet \cap OfSize(s) <=> s = z)
          BY <2>1, <2>8, <3>1
        <4>2. allocated'.histogram[s] = Upto(AllocatedSet \cap OfSize(s), i)
          <5>1. Upto(AllocatedSet \cap OfSize(s), i) = Upto(AllocatedSet \cap OfSize(s), n)
            BY <2>4, <4>1
          <5>2. allocated' = allocated
            BY <2>1, <3>1
          <5> QED
            BY <2>3, <5>1, <5>2
        <4>3. free'.histogram[s] = Upto(FreeSet \cap OfSize(s), i)
          <5>1. Upto(FreeSet \cap OfSize(s), i)
                  = Upto(FreeSet \cap OfSize(s), n) + (IF s = z THEN 1 ELSE 0)
            BY <2>4, <4>1
          <5>2. free.histogram[s] = Upto(FreeSet \cap OfSize(s), n)
            BY <2>3
          <5>3. free.histogram[s] \in Nat /\ free.histogram[s] + 1 <= MaxU64
            BY <2>4, <5>2
          <5> QED
            BY <2>5, <3>2, <5>1, <5>2, <5>3
        <4> QED
          BY <4>2, <4>3
      <3> QED
        BY <1>1, <1>2, <2>1, <2>2, <2>3, <3>3, <3>4 DEF CountedEvents
    <2> QED
      BY <2>7, <2>8
  <1>4. CASE S!EventsDone \/ S!FastbinsDone \/ S!SkipEmptyFastbin \/ S!MoveFastbin
    <2>1. pc' # "events"
      BY <1>4 DEF S!EventsDone, S!FastbinsDone, S!SkipEmptyFastbin, S!MoveFastbin, S!MoreFastbins
    <2> QED
      BY <2>1 DEF CountedEvents
  <1> QED
    BY <1>3, <1>4 DEF S!Next

LEMMA CountedTcacheStep ==
  ASSUME TlsInv, StatsTypes, CountedEvents, CountedTcache, S!Next
  PROVE  CountedTcache'
  <1>1. SetsKept /\ N' = N
    BY StatsTypeStep, KeepSets
  <1>2. ParkedSet' = ParkedSet /\ \A b : OfBin(b)' = OfBin(b)
    BY <1>1 DEF SetsKept
  <1>3. CASE S!CountParked \/ S!CountAllocated \/ S!CountFree
    <2> DEFINE n == i - 1
    <2>1. /\ i <= N /\ n \in Nat /\ n + 1 = i /\ i' - 1 = i /\ pc = "events" /\ pc' = "events"
          /\ i \in FreeSet <=> i \notin AllocatedSet
          /\ S!CountParked <=> i \in ParkedSet
      BY <1>3, EventIs
    <2>2. N \in Nat /\ N <= MaxU64 /\ MaxU64 \in Nat
      BY ArenaFacts, Settings
    <2>3. /\ \A b \in Nat : TcacheCount(b) = Upto(OfBin(b), n)
          /\ IsFiniteSet(DOMAIN tcacheCounts) /\ IsFiniteSet(tcacheThreads)
          /\ Total(tcacheCounts, DOMAIN tcacheCounts) = Upto(ParkedSet, n)
          /\ Cardinality(tcacheThreads) <= Upto(ParkedSet, n)
          /\ Upto(ParkedSet, n) <= free.count
      BY <2>1 DEF CountedTcache
    <2>4. /\ free'.count = Upto(FreeSet, i) /\ free.count = Upto(FreeSet, n)
      <3>1. CountedEvents' /\ FreeSet' = FreeSet
        BY <1>1, CountedEventsStep DEF SetsKept
      <3> QED
        BY <2>1, <3>1 DEF CountedEvents
    <2>5. \A C : /\ Upto(C, n) \in Nat /\ Upto(C, n) + 1 <= MaxU64
                 /\ Upto(C, i) \in Nat /\ Upto(C, i) <= MaxU64
                 /\ Upto(C, i) = Upto(C, n) + (IF i \in C THEN 1 ELSE 0)
      <3> SUFFICES ASSUME NEW C
                   PROVE  /\ Upto(C, n) \in Nat /\ Upto(C, n) + 1 <= MaxU64
                          /\ Upto(C, i) \in Nat /\ Upto(C, i) <= MaxU64
                          /\ Upto(C, i) = Upto(C, n) + (IF i \in C THEN 1 ELSE 0)
        OBVIOUS
      <3>1. Upto(C, n) \in Nat /\ Upto(C, n) <= n
        BY <2>1, UptoIs
      <3>2. Upto(C, n + 1) = Upto(C, n) + (IF n + 1 \in C THEN 1 ELSE 0)
        BY <2>1, UptoIs
      <3> HIDE DEF n
      <3> QED
        BY <2>1, <2>2, <3>1, <3>2
    <2>6. free'.count <= MaxU64
      BY <2>4, <2>5
    <2> HIDE DEF n
    <2>7. CASE S!CountParked
      <3> DEFINE owner == membership[S!Event.user_addr]
                 b0 == owner.bin
                 old == TcacheCount(b0)
                 D == DOMAIN tcacheCounts
      <3>1. b0 \in Nat /\ owner.thread \in Nat
        BY <2>7, MembershipTyped DEF S!CountParked, S!Parked
      <3>2. i \in ParkedSet /\ i \in FreeSet
        BY <2>1, <2>7 DEF ParkedSet, AllocatedSet
      <3>3. \A b : i \in OfBin(b) <=> b = b0
        BY <3>2 DEF OfBin, S!Event
      <3>4. /\ tcacheCounts' = [b \in D \cup {b0} |->
                                  IF b = b0 THEN S!SatAdd(old, 1) ELSE tcacheCounts[b]]
            /\ tcacheThreads' = tcacheThreads \cup {owner.thread}
        BY <2>7 DEF S!CountParked, S!CountOwner, TcacheCount
      <3> HIDE DEF owner, b0, old
      <3>5. old \in Nat /\ old = Upto(OfBin(b0), n) /\ S!SatAdd(old, 1) = old + 1
        <4>1. old = Upto(OfBin(b0), n)
          BY <2>3, <3>1 DEF old
        <4>2. old \in Nat /\ old + 1 <= MaxU64
          BY <2>5, <4>1
        <4> QED
          BY <4>1, <4>2, SatAddIs
      <3>6. /\ DOMAIN tcacheCounts' = D \cup {b0}
            /\ tcacheCounts'[b0] = old + 1
            /\ \A b \in D \ {b0} : tcacheCounts'[b] = tcacheCounts[b]
        BY <3>4, <3>5
      <3>7. \A b \in Nat : TcacheCount(b)' = Upto(OfBin(b), i)
        <4> SUFFICES ASSUME NEW b \in Nat PROVE TcacheCount(b)' = Upto(OfBin(b), i)
          OBVIOUS
        <4>1. TcacheCount(b)' = IF b = b0 THEN old + 1 ELSE TcacheCount(b)
          BY <3>6 DEF TcacheCount
        <4>2. Upto(OfBin(b), i) = Upto(OfBin(b), n) + (IF b = b0 THEN 1 ELSE 0)
          BY <2>5, <3>3
        <4>3. Upto(OfBin(b), n) \in Nat
          BY <2>5
        <4> QED
          BY <2>3, <3>5, <4>1, <4>2, <4>3
      <3>8. \A b \in D : tcacheCounts[b] \in Nat
        BY DEF StatsTypes
      <3>9. IsFiniteSet(D \cup {b0}) /\ IsFiniteSet(D)
        BY <2>3, FS_AddElement
      <3>10. Total(tcacheCounts', D \cup {b0}) = Total(tcacheCounts, D) + 1
        <4> HIDE DEF D
        <4>1. CASE b0 \in D
          <5>1. D \cup {b0} = D /\ old = tcacheCounts[b0]
            BY <4>1 DEF old, TcacheCount, D
          <5>2. Total(tcacheCounts', D) = tcacheCounts'[b0] + (Total(tcacheCounts, D) - tcacheCounts[b0])
            <6>1. tcacheCounts'[b0] \in Nat /\ \A b \in D \ {b0} : tcacheCounts'[b] = tcacheCounts[b]
              BY <3>5, <3>6
            <6> QED
              BY <3>8, <3>9, <4>1, <6>1, TotalUpdate
          <5>3. Total(tcacheCounts, D) \in Nat
            BY <3>8, <3>9, TotalIs
          <5>4. Total(tcacheCounts', D \cup {b0}) = Total(tcacheCounts', D)
            BY <5>1
          <5>5. Total(tcacheCounts', D) = (old + 1) + (Total(tcacheCounts, D) - old)
            BY <3>6, <5>1, <5>2
          <5>6. (old + 1) + (Total(tcacheCounts, D) - old) = Total(tcacheCounts, D) + 1
            BY <3>5, <5>3
          <5> QED
            BY <5>4, <5>5, <5>6
        <4>2. CASE b0 \notin D
          <5>1. old = 0 /\ tcacheCounts'[b0] = 1
            BY <3>6, <4>2 DEF old, TcacheCount, D
          <5>2. \A b \in D : tcacheCounts'[b] = tcacheCounts[b] /\ tcacheCounts'[b] \in Nat
            BY <3>6, <3>8, <4>2
          <5>3. Total(tcacheCounts', D \cup {b0}) = tcacheCounts'[b0] + Total(tcacheCounts', D)
            BY <3>9, <4>2, <5>1, <5>2, TotalAdd
          <5>4. Total(tcacheCounts, D) = Total(tcacheCounts', D)
            <6>1. D \in SUBSET D /\ \A b \in D \ D : tcacheCounts[b] = 0
              OBVIOUS
            <6> QED
              BY <3>8, <3>9, <5>2, <6>1, TotalSame
          <5>5. Total(tcacheCounts, D) \in Nat
            BY <3>8, <3>9, TotalIs
          <5> QED
            BY <5>1, <5>3, <5>4, <5>5
        <4> QED
          BY <4>1, <4>2
      <3>11. Total(tcacheCounts', DOMAIN tcacheCounts') = Upto(ParkedSet, i)
        <4>1. Upto(ParkedSet, i) = Upto(ParkedSet, n) + 1
          BY <2>5, <3>2
        <4> QED
          BY <2>3, <3>6, <3>10, <4>1
      <3>12. IsFiniteSet(tcacheThreads') /\ Cardinality(tcacheThreads') <= Upto(ParkedSet, i)
        <4>1. Upto(ParkedSet, i) = Upto(ParkedSet, n) + 1 /\ Upto(ParkedSet, n) \in Nat
          BY <2>5, <3>2
        <4>2. /\ IsFiniteSet(tcacheThreads')
              /\ Cardinality(tcacheThreads') <= Cardinality(tcacheThreads) + 1
          <5> DEFINE T == tcacheThreads
                     x == owner.thread
          <5>1. IsFiniteSet(T) /\ Cardinality(T) \in Nat /\ tcacheThreads' = T \cup {x}
            BY <2>3, <3>4, FS_CardinalityType
          <5> HIDE DEF T, x
          <5>2. IsFiniteSet(T \cup {x}) /\ Cardinality(T \cup {x}) <= Cardinality(T) + 1
            BY <5>1, FS_AddElement
          <5> QED
            BY <5>1, <5>2 DEF T
        <4>3. Cardinality(tcacheThreads) \in Nat /\ Cardinality(tcacheThreads') \in Nat
          BY <2>3, <4>2, FS_CardinalityType
        <4> QED
          BY <2>3, <4>1, <4>2, <4>3
      <3>13. Upto(ParkedSet, i) <= free'.count
        <4>1. Upto(ParkedSet, i) = Upto(ParkedSet, n) + 1 /\ Upto(FreeSet, i) = Upto(FreeSet, n) + 1
          BY <2>5, <3>2
        <4>2. Upto(ParkedSet, n) \in Nat /\ Upto(FreeSet, n) \in Nat
          BY <2>5
        <4> QED
          BY <2>3, <2>4, <4>1, <4>2
      <3>14. IsFiniteSet(DOMAIN tcacheCounts')
        BY <3>6, <3>9
      <3> QED
        BY <1>2, <2>1, <2>6, <3>7, <3>11, <3>12, <3>13, <3>14 DEF CountedTcache
    <2>8. CASE ~ S!CountParked
      <3>1. tcacheCounts' = tcacheCounts /\ tcacheThreads' = tcacheThreads
        BY <1>3, <2>8 DEF S!CountAllocated, S!CountFree
      <3>2. i \notin ParkedSet /\ \A b : i \notin OfBin(b)
        BY <2>1, <2>8 DEF OfBin
      <3>3. Upto(ParkedSet, i) = Upto(ParkedSet, n) /\ \A b : Upto(OfBin(b), i) = Upto(OfBin(b), n)
        BY <2>5, <3>2
      <3>4. Upto(ParkedSet, i) <= free'.count
        <4>1. /\ Upto(ParkedSet, n) \in Nat /\ Upto(FreeSet, n) \in Nat /\ Upto(FreeSet, i) \in Nat
              /\ Upto(FreeSet, n) <= Upto(FreeSet, i)
          BY <2>5
        <4> QED
          BY <2>3, <2>4, <3>3, <4>1
      <3>5. \A b \in Nat : TcacheCount(b)' = Upto(OfBin(b), i)
        BY <2>3, <3>1, <3>3 DEF TcacheCount
      <3> QED
        BY <1>2, <2>1, <2>3, <2>6, <3>1, <3>3, <3>4, <3>5 DEF CountedTcache
    <2> QED
      BY <2>7, <2>8
  <1>4. CASE S!EventsDone
    <2>1. i - 1 = N /\ pc = "events" /\ pc' # "events"
      <3>1. i \in Nat /\ i > N /\ N \in Nat /\ i <= N + 1
        BY <1>4, ArenaFacts DEF S!EventsDone, StatsTypes, CountedEvents, N
      <3> QED
        BY <1>4, <3>1 DEF S!EventsDone
    <2>2. UNCHANGED <<tcacheCounts, tcacheThreads, free>>
      BY <1>4 DEF S!EventsDone
    <2> QED
      BY <1>1, <1>2, <2>1, <2>2 DEF CountedTcache, TcacheCount
  <1>5. CASE S!FastbinsDone \/ S!SkipEmptyFastbin
    <2>1. pc # "events" /\ pc' # "events" /\ UNCHANGED <<tcacheCounts, tcacheThreads, free>>
      BY <1>5 DEF S!FastbinsDone, S!SkipEmptyFastbin, S!MoreFastbins
    <2> QED
      BY <1>1, <1>2, <2>1 DEF CountedTcache, TcacheCount
  <1>6. CASE S!MoveFastbin
    <2> DEFINE b0 == arena.fastbins[i]
               size == S!IndexToSize(b0.index)
    <2>1. i \in DOMAIN arena.fastbins
      BY <1>6, ArenaFacts DEF S!MoveFastbin, S!MoreFastbins, StatsTypes
    <2>2. size \in Sizes /\ b0.count \in Nat
      BY <2>1, ArenaFacts
    <2>3. /\ pc = "fastbins" /\ pc' = "fastbins" /\ UNCHANGED <<tcacheCounts, tcacheThreads>>
          /\ free' = S!AddN(free, size, b0.count)
      BY <1>6 DEF S!MoveFastbin, S!MoreFastbins
    <2> HIDE DEF b0, size
    <2>4. free'.count = S!SatAdd(free.count, b0.count) /\ free.count \in Nat
      <3>1. free \in S!SizeTally
        BY DEF StatsTypes
      <3>2. free'.count = S!SatAdd(free.count, b0.count)
        BY <2>2, <2>3, <3>1, AddNIs
      <3> QED
        BY <3>1, <3>2 DEF S!SizeTally
    <2>5. free.count <= MaxU64 /\ Upto(ParkedSet, N) <= free.count
      BY <2>3 DEF CountedTcache
    <2>6. free.count <= free'.count /\ free'.count <= MaxU64 /\ free'.count \in Nat
      BY <2>2, <2>4, <2>5, SatAddIs
    <2>7. Upto(ParkedSet, N) \in Nat
      BY ArenaFacts, UptoIs
    <2>8. Upto(ParkedSet, N) <= free'.count
      BY <2>4, <2>5, <2>6, <2>7
    <2> QED
      BY <1>1, <1>2, <2>3, <2>6, <2>8 DEF CountedTcache, TcacheCount
  <1> QED
    BY <1>3, <1>4, <1>5, <1>6 DEF S!Next

(* The threads of the owners seen so far, and what the first n fastbins    *)
(* move.                                                                   *)
OwnerThreads(n) ==
  {membership[arena.events[e].user_addr].thread : e \in ParkedSet \cap (1 .. n)}

CountOf == [b \in DOMAIN arena.fastbins |-> arena.fastbins[b].count]

BinsTo(s, n) == {b \in 1 .. n : S!IndexToSize(arena.fastbins[b].index) = s}

MovedTo(s, n) == Total(CountOf, BinsTo(s, n))

(* When the events are counted the two histograms say which chunks are     *)
(* parked or free, and each fastbin moves by number.                       *)
ParkingSoFar ==
  /\ tcacheThreads = OwnerThreads(IF pc = "events" THEN i - 1 ELSE N)
  /\ pc # "events" =>
       /\ i <= Len(arena.fastbins) + 1
       /\ \A s \in Sizes :
            /\ free.histogram[s]
                 = S!SatAdd(Cardinality(FreeSet \cap OfSize(s)), MovedTo(s, i - 1))
            /\ inconsistent = {} =>
                 allocated.histogram[s] + MovedTo(s, i - 1)
                   = Cardinality(AllocatedSet \cap OfSize(s))

LEMMA SatAddTwice ==
  ASSUME NEW a \in Nat, NEW b \in Nat, NEW c \in Nat
  PROVE  S!SatAdd(S!SatAdd(a, b), c) = S!SatAdd(a, b + c)
  BY Settings DEF S!SatAdd

LEMMA MovedIs ==
  ASSUME StatsTypes, NEW s
  PROVE  /\ MovedTo(s, 0) = 0
         /\ \A n \in 0 .. Len(arena.fastbins) : MovedTo(s, n) \in Nat
         /\ \A n \in DOMAIN arena.fastbins :
              MovedTo(s, n) = MovedTo(s, n - 1)
                + (IF S!IndexToSize(arena.fastbins[n].index) = s THEN CountOf[n] ELSE 0)
  <1>1. /\ Len(arena.fastbins) \in Nat /\ DOMAIN arena.fastbins = 1 .. Len(arena.fastbins)
        /\ \A b \in DOMAIN arena.fastbins : CountOf[b] \in Nat
    BY ArenaFacts DEF CountOf
  <1>2. MovedTo(s, 0) = 0
    <2>1. BinsTo(s, 0) = {}
      BY DEF BinsTo
    <2> QED
      BY <2>1, TotalEmpty DEF MovedTo
  <1>3. ASSUME NEW n \in 0 .. Len(arena.fastbins)
        PROVE  /\ IsFiniteSet(BinsTo(s, n)) /\ \A b \in BinsTo(s, n) : CountOf[b] \in Nat
               /\ MovedTo(s, n) \in Nat
    <2>1. IsFiniteSet(1 .. n) /\ BinsTo(s, n) \in SUBSET (1 .. n)
      BY <1>1, FS_Interval DEF BinsTo
    <2>2. IsFiniteSet(BinsTo(s, n)) /\ \A b \in BinsTo(s, n) : CountOf[b] \in Nat
      BY <1>1, <2>1, Part
    <2> QED
      BY <2>2, TotalIs DEF MovedTo
  <1>4. ASSUME NEW n \in DOMAIN arena.fastbins
        PROVE  MovedTo(s, n) = MovedTo(s, n - 1)
                 + (IF S!IndexToSize(arena.fastbins[n].index) = s THEN CountOf[n] ELSE 0)
    <2> DEFINE B == BinsTo(s, n - 1)
    <2>1. n - 1 \in 0 .. Len(arena.fastbins) /\ 1 .. n = (1 .. n - 1) \cup {n} /\ n \notin 1 .. n - 1
      BY <1>1
    <2>2. /\ IsFiniteSet(B) /\ \A b \in B : CountOf[b] \in Nat
          /\ MovedTo(s, n - 1) \in Nat /\ CountOf[n] \in Nat
      BY <1>1, <1>3, <2>1
    <2>3. n \notin B
      BY <2>1 DEF BinsTo
    <2>4. CASE S!IndexToSize(arena.fastbins[n].index) = s
      <3>1. BinsTo(s, n) = B \cup {n}
        BY <2>1, <2>4 DEF BinsTo
      <3> HIDE DEF B
      <3>2. Total(CountOf, B \cup {n}) = CountOf[n] + Total(CountOf, B)
        BY <2>2, <2>3, TotalAdd
      <3>3. MovedTo(s, n) = CountOf[n] + MovedTo(s, n - 1)
        BY <3>1, <3>2 DEF MovedTo, B
      <3> QED
        BY <2>2, <2>4, <3>3
    <2>5. CASE S!IndexToSize(arena.fastbins[n].index) # s
      <3>1. BinsTo(s, n) = B
        BY <2>1, <2>5 DEF BinsTo
      <3> QED
        BY <2>2, <2>5, <3>1 DEF MovedTo
    <2> QED
      BY <2>4, <2>5
  <1> QED
    BY <1>2, <1>3, <1>4

LEMMA ParkingStep ==
  ASSUME TlsInv, StatsTypes, CountedEvents, ParkingSoFar, S!Next
  PROVE  ParkingSoFar'
  <1>1. arena' = arena /\ membership' = membership /\ SetsKept /\ N' = N
    BY StatsTypeStep, KeepSets
  <1>2. /\ \A n : OwnerThreads(n)' = OwnerThreads(n)
        /\ \A s, n : MovedTo(s, n)' = MovedTo(s, n)
        /\ \A s : OfSize(s)' = OfSize(s)
        /\ FreeSet' = FreeSet /\ AllocatedSet' = AllocatedSet
    BY <1>1 DEF SetsKept, OwnerThreads, MovedTo, CountOf, BinsTo
  <1>3. /\ N \in Nat /\ N <= MaxU64 /\ MaxU64 \in Nat /\ i \in Nat \ {0}
        /\ Len(arena.fastbins) \in Nat
    BY ArenaFacts, Settings DEF StatsTypes
  <1>4. SUFFICES
          /\ tcacheThreads' = OwnerThreads(IF pc' = "events" THEN i' - 1 ELSE N)
          /\ pc' # "events" =>
               /\ i' <= Len(arena.fastbins) + 1
               /\ \A s \in Sizes :
                    /\ free'.histogram[s]
                         = S!SatAdd(Cardinality(FreeSet \cap OfSize(s)), MovedTo(s, i' - 1))
                    /\ inconsistent' = {} =>
                         allocated'.histogram[s] + MovedTo(s, i' - 1)
                           = Cardinality(AllocatedSet \cap OfSize(s))
    <2>1. \A s : MovedTo(s, i - 1)' = MovedTo(s, i' - 1)
      BY <1>1 DEF MovedTo, CountOf, BinsTo
    <2> QED
      BY <1>1, <1>2 DEF ParkingSoFar, OwnerThreads, MovedTo, CountOf, BinsTo
  <1>5. CASE S!CountParked \/ S!CountAllocated \/ S!CountFree
    <2>1. /\ pc = "events" /\ pc' = "events" /\ i' - 1 = i /\ i - 1 \in Nat /\ (i - 1) + 1 = i
          /\ S!CountParked <=> i \in ParkedSet
      BY <1>5, EventIs
    <2>2. 1 .. i = (1 .. i - 1) \cup {i}
      BY <1>3
    <2>3. tcacheThreads = OwnerThreads(i - 1)
      BY <2>1 DEF ParkingSoFar
    <2>4. tcacheThreads' = OwnerThreads(i)
      <3>1. CASE S!CountParked
        <4>1. tcacheThreads' = tcacheThreads \cup {membership[arena.events[i].user_addr].thread}
          BY <3>1 DEF S!CountParked, S!CountOwner, S!Event
        <4> QED
          BY <2>1, <2>2, <2>3, <3>1, <4>1 DEF OwnerThreads
      <3>2. CASE ~ S!CountParked
        <4>1. tcacheThreads' = tcacheThreads
          BY <1>5, <3>2 DEF S!CountAllocated, S!CountFree
        <4>2. ParkedSet \cap (1 .. i) = ParkedSet \cap (1 .. i - 1)
          BY <2>1, <2>2, <3>2
        <4> QED
          BY <2>3, <4>1, <4>2 DEF OwnerThreads
      <3> QED
        BY <3>1, <3>2
    <2> QED
      BY <2>1, <2>4
  <1>6. CASE S!EventsDone
    <2>1. i - 1 = N /\ pc = "events"
      <3>1. i > N /\ i <= N + 1 /\ pc = "events"
        BY <1>6 DEF S!EventsDone, CountedEvents, N
      <3> QED
        BY <1>3, <3>1
    <2>2. pc' = "fastbins" /\ i' = 1 /\ i' - 1 = 0
          /\ UNCHANGED <<allocated, free, inconsistent, tcacheThreads>>
      BY <1>6 DEF S!EventsDone
    <2>3. ASSUME NEW s \in Sizes
          PROVE  /\ free.histogram[s] = S!SatAdd(Cardinality(FreeSet \cap OfSize(s)), MovedTo(s, 0))
                 /\ allocated.histogram[s] + MovedTo(s, 0) = Cardinality(AllocatedSet \cap OfSize(s))
      <3> DEFINE F == FreeSet \cap OfSize(s)
                 A == AllocatedSet \cap OfSize(s)
      <3>1. free.histogram[s] = Upto(F, N) /\ allocated.histogram[s] = Upto(A, N)
        BY <2>1 DEF CountedEvents
      <3>2. F \in SUBSET DOMAIN arena.events /\ A \in SUBSET DOMAIN arena.events
        BY DEF FreeSet, AllocatedSet
      <3> HIDE DEF F, A
      <3>3. /\ Upto(F, N) = Cardinality(F) /\ Cardinality(F) \in Nat /\ Cardinality(F) <= N
            /\ Upto(A, N) = Cardinality(A) /\ Cardinality(A) \in Nat
        BY <3>2, UptoAll
      <3>4. MovedTo(s, 0) = 0
        BY MovedIs
      <3>5. S!SatAdd(Cardinality(F), 0) = Cardinality(F)
        BY <1>3, <3>3, SatAddIs
      <3> QED
        BY <3>1, <3>3, <3>4, <3>5 DEF F, A
    <2>4. tcacheThreads' = OwnerThreads(N)
      BY <2>1, <2>2 DEF ParkingSoFar
    <2>5. i' <= Len(arena.fastbins) + 1 /\ pc' # "events"
      BY <1>3, <2>2
    <2>6. allocated' = allocated /\ free' = free /\ i' - 1 = 0
      BY <2>2
    <2> QED
      BY <2>3, <2>4, <2>5, <2>6
  <1>7. CASE S!FastbinsDone
    <2>1. pc # "events" /\ pc' # "events" /\ i' = i
          /\ UNCHANGED <<allocated, free, inconsistent, tcacheThreads>>
      BY <1>7 DEF S!FastbinsDone
    <2> QED
      BY <2>1 DEF ParkingSoFar
  <1>8. CASE S!SkipEmptyFastbin \/ S!MoveFastbin
    <2> DEFINE b == arena.fastbins[i]
               size == S!IndexToSize(b.index)
               n == b.count
    <2>1. /\ i \in DOMAIN arena.fastbins /\ i <= Len(arena.fastbins) /\ i' = i + 1
          /\ pc = "fastbins" /\ pc' = "fastbins" /\ tcacheThreads' = tcacheThreads
      BY <1>8, ArenaFacts
         DEF S!SkipEmptyFastbin, S!MoveFastbin, S!MoreFastbins, StatsTypes
    <2>2. size \in Sizes /\ n \in Nat /\ CountOf[i] = n
      BY <2>1, ArenaFacts DEF CountOf
    <2>3. S!MoveFastbin => /\ allocated' = S!RemoveN(allocated, size, n)
                           /\ free' = S!AddN(free, size, n)
                           /\ inconsistent' = IF S!Underflows(allocated, size, n)
                                              THEN inconsistent \cup {size} ELSE inconsistent
      BY DEF S!MoveFastbin
    <2>4. ~ S!MoveFastbin => n = 0 /\ UNCHANGED <<allocated, free, inconsistent>>
      BY <1>8 DEF S!SkipEmptyFastbin
    <2>5. \A s : MovedTo(s, i) = MovedTo(s, i - 1) + (IF size = s THEN n ELSE 0)
      BY <2>1, <2>2, MovedIs
    <2>6. i' - 1 = i /\ i - 1 \in 0 .. Len(arena.fastbins)
      BY <1>3, <2>1
    <2>7. allocated \in S!SizeTally /\ free \in S!SizeTally
      BY DEF StatsTypes
    <2> HIDE DEF b, size, n
    <2>8. ASSUME NEW s \in Sizes
          PROVE  /\ free'.histogram[s]
                      = S!SatAdd(Cardinality(FreeSet \cap OfSize(s)), MovedTo(s, i))
                 /\ inconsistent' = {} =>
                      allocated'.histogram[s] + MovedTo(s, i)
                        = Cardinality(AllocatedSet \cap OfSize(s))
      <3> DEFINE f == Cardinality(FreeSet \cap OfSize(s))
                 a == Cardinality(AllocatedSet \cap OfSize(s))
                 m == MovedTo(s, i - 1)
                 x == allocated.histogram[s]
                 y == free.histogram[s]
      <3>1. y = S!SatAdd(f, m) /\ (inconsistent = {} => x + m = a)
        BY <2>1 DEF ParkingSoFar
      <3>2. f \in Nat /\ m \in Nat /\ x \in Nat /\ y \in Nat
        <4>1. FreeSet \cap OfSize(s) \in SUBSET DOMAIN arena.events
          BY DEF FreeSet
        <4>2. f \in Nat
          BY <4>1, UptoAll
        <4>3. m \in Nat
          BY <2>6, MovedIs
        <4>4. x \in Nat /\ y \in Nat
          BY <2>7 DEF S!SizeTally
        <4> QED
          BY <4>2, <4>3, <4>4
      <3> HIDE DEF f, a, m
      <3>3. MovedTo(s, i) = m + (IF size = s THEN n ELSE 0)
        BY <2>5 DEF m
      <3>4. CASE S!MoveFastbin
        <4>1. /\ allocated'.histogram[s] = IF s = size THEN S!SatSub(x, n) ELSE x
              /\ free'.histogram[s] = IF s = size THEN S!SatAdd(y, n) ELSE y
          BY <2>2, <2>3, <2>7, <3>4, AddNIs, RemoveNIs
        <4>2. inconsistent' = {} => inconsistent = {} /\ ~ S!Underflows(allocated, size, n)
          BY <2>3, <3>4
        <4>3. s = size /\ ~ S!Underflows(allocated, size, n) => ~ (x < n)
          BY DEF S!Underflows
        <4> HIDE DEF x, y
        <4>4. CASE s = size
          <5>1. free'.histogram[s] = S!SatAdd(f, m + n)
            BY <2>2, <3>1, <3>2, <4>1, <4>4, SatAddTwice
          <5>2. inconsistent' = {} => allocated'.histogram[s] + (m + n) = a
            <6> SUFFICES ASSUME inconsistent' = {} PROVE allocated'.histogram[s] + (m + n) = a
              OBVIOUS
            <6>1. n <= x /\ x + m = a
              BY <2>2, <3>1, <3>2, <4>2, <4>3, <4>4
            <6>2. allocated'.histogram[s] = x - n
              BY <2>2, <3>2, <4>1, <4>4, <6>1, SatSubIs
            <6> QED
              BY <2>2, <3>2, <6>1, <6>2
          <5> QED
            BY <3>3, <4>4, <5>1, <5>2 DEF f, a
        <4>5. CASE s # size
          <5>1. MovedTo(s, i) = m
            BY <3>2, <3>3, <4>5
          <5> QED
            BY <3>1, <4>1, <4>2, <4>5, <5>1 DEF f, a
        <4> QED
          BY <4>4, <4>5
      <3>5. CASE ~ S!MoveFastbin
        <4>1. MovedTo(s, i) = m
          BY <2>4, <3>2, <3>3, <3>5
        <4> QED
          BY <2>4, <3>1, <3>5, <4>1 DEF f, a
      <3> QED
        BY <3>4, <3>5
    <2>9. tcacheThreads' = OwnerThreads(N) /\ i' <= Len(arena.fastbins) + 1
      BY <1>3, <2>1 DEF ParkingSoFar
    <2> QED
      BY <2>1, <2>6, <2>8, <2>9
  <1> QED
    BY <1>5, <1>6, <1>7, <1>8 DEF S!Next

(* The parked chunks are those with an owner, and theirs is the first.     *)
LEMMA OwnerIsFirst ==
  ASSUME TlsInv, FirstOwnerWins, Done
  PROVE  /\ ParkedChunks = ParkedSet
         /\ \A k \in ParkedSet : FirstOwner(k) = membership[arena.events[k].user_addr]
  <1>1. DOMAIN proc.threads \subseteq Nat /\ 0 .. MaxBins - 1 \subseteq Nat
    BY TlsFacts
  <1>2. \A a \in Node :
          /\ a \in DOMAIN membership <=> OwnersOf(a) # {}
          /\ a \in DOMAIN membership =>
               /\ membership[a] \in OwnersOf(a)
               /\ \A o \in OwnersOf(a) : o = membership[a] \/ Before(membership[a], o)
    BY DEF FirstOwnerWins
  <1>3. \A a : OwnersOf(a) # {} => a \in Node
    <2> SUFFICES ASSUME NEW a, NEW o \in OwnersIn(proc, a) PROVE a \in Node
      BY OwnersAre
    <2> DEFINE c == ChainIn(proc, proc.heads[TcacheIn(proc)[o.thread]][o.bin])
    <2>1. a \in Range(c)
      BY DEF OwnersIn
    <2>2. c \in Seq(Node)
      BY ChainIs
    <2> HIDE DEF c
    <2> QED
      BY <2>1, <2>2 DEF Range
  <1>4. DOMAIN membership \subseteq Node
    BY DEF TlsInv, TypeOK
  <1>5. \A a : a \in DOMAIN membership <=> OwnersOf(a) # {}
    BY <1>2, <1>3, <1>4
  <1>6. ParkedChunks = ParkedSet
    BY <1>5 DEF ParkedChunks, ParkedSet
  <1>7. ASSUME NEW k \in ParkedSet PROVE FirstOwner(k) = membership[arena.events[k].user_addr]
    <2> DEFINE a == arena.events[k].user_addr
               w == membership[a]
               owners == OwnersOf(a)
    <2>1. w \in owners /\ \A o \in owners : o = w \/ Before(w, o)
      BY <1>2, <1>4 DEF ParkedSet
    <2>2. \A o \in owners : o.thread \in Nat /\ o.bin \in Nat
      BY <1>1 DEF OwnersOf, Owner
    <2>3. FirstOwner(k) = CHOOSE o \in owners : \A q \in owners : o = q \/ Before(o, q)
      BY DEF FirstOwner
    <2> HIDE DEF a, w, owners
    <2>4. ASSUME NEW o \in owners, \A q \in owners : o = q \/ Before(o, q)
          PROVE  o = w
      <3>1. o = w \/ Before(o, w)
        BY <2>1, <2>4
      <3>2. o = w \/ Before(w, o)
        BY <2>1
      <3>3. o.thread \in Nat /\ o.bin \in Nat /\ w.thread \in Nat /\ w.bin \in Nat
        BY <2>1, <2>2
      <3> QED
        BY <3>1, <3>2, <3>3 DEF Before
    <2>5. FirstOwner(k) = w
      BY <2>1, <2>3, <2>4
    <2> QED
      BY <2>5 DEF w, a
  <1> QED
    BY <1>6, <1>7

(* The tcache counts and what is free say what they should.                *)
LEMMA TcacheRight ==
  ASSUME TlsInv, OneOwnerPerChunk, StatsTypes, Idle, CountedTcache, ParkingSoFar
  PROVE  TcacheCountedOnce
  <1> SUFFICES ASSUME pc # "events" PROVE TcacheCountedOnce
    BY DEF TcacheCountedOnce
  <1>1. Done /\ FirstOwnerWins
    BY DEF Idle, Start, OneOwnerPerChunk
  <1>2. /\ ParkedChunks = ParkedSet
        /\ \A k \in ParkedSet : FirstOwner(k) = membership[arena.events[k].user_addr]
    BY <1>1, OwnerIsFirst
  <1>3. ParkedSet \subseteq DOMAIN arena.events /\ DOMAIN arena.events = 1 .. N /\ N \in Nat
    BY ArenaFacts DEF ParkedSet
  <1>4. ASSUME NEW b \in 0 .. MaxBins - 1
        PROVE  TcacheCount(b) = Cardinality({k \in ParkedChunks : FirstOwner(k).bin = b})
    <2>1. {k \in ParkedChunks : FirstOwner(k).bin = b} = OfBin(b)
      BY <1>2 DEF OfBin
    <2>2. TcacheCount(b) = Upto(OfBin(b), N)
      BY TlsFacts DEF CountedTcache
    <2>3. OfBin(b) \in SUBSET DOMAIN arena.events
      BY DEF OfBin, ParkedSet
    <2> QED
      BY <2>1, <2>2, <2>3, UptoAll
  <1>5. tcacheThreads = {FirstOwner(k).thread : k \in ParkedChunks}
    <2>1. tcacheThreads = OwnerThreads(N)
      BY DEF ParkingSoFar
    <2>2. ParkedSet \cap (1 .. N) = ParkedSet
      BY <1>3
    <2> QED
      BY <1>2, <2>1, <2>2 DEF OwnerThreads
  <1>6. ASSUME NEW s \in Sizes
        PROVE  /\ free.histogram[s]
                    = S!SatAdd(Cardinality(FreeByEvents(s)), S!Moved(s))
               /\ inconsistent = {} =>
                    allocated.histogram[s] + S!Moved(s)
                      = Cardinality(S!ChunksOf(s) \ FreeByEvents(s))
    <2>1. FreeByEvents(s) = FreeSet \cap OfSize(s)
      <3>1. \A k \in DOMAIN arena.events :
              k \in FreeSet <=> ~ arena.events[k].in_use \/ k \in ParkedSet
        BY DEF FreeSet, AllocatedSet, ParkedSet
      <3> QED
        BY <1>2, <3>1 DEF FreeByEvents, S!ChunksOf, OfSize, FreeSet
    <2>2. S!ChunksOf(s) \ FreeByEvents(s) = AllocatedSet \cap OfSize(s)
      BY <2>1 DEF S!ChunksOf, OfSize, FreeSet, AllocatedSet
    <2>3. S!Moved(s) = MovedTo(s, i - 1)
      <3> DEFINE B == BinsTo(s, i - 1)
                 g == [b \in B |-> arena.fastbins[b].count]
      <3>1. S!Moved(s) = S!SumFunction(g)
        BY DEF S!Moved, BinsTo
      <3>2. S!SumFunction(g) = Total(g, DOMAIN g)
        BY SumIs
      <3>3. DOMAIN g = B
        OBVIOUS
      <3>4. i \in Nat \ {0} /\ i <= Len(arena.fastbins) + 1 /\ Len(arena.fastbins) \in Nat
            /\ DOMAIN arena.fastbins = 1 .. Len(arena.fastbins)
        BY ArenaFacts DEF StatsTypes, ParkingSoFar
      <3>5. B \in SUBSET (1 .. i - 1) /\ B \subseteq DOMAIN arena.fastbins
        BY <3>4 DEF BinsTo
      <3>6. i - 1 \in Nat /\ IsFiniteSet(1 .. i - 1)
        BY <3>4, FS_Interval
      <3>7. IsFiniteSet(B)
        BY <3>5, <3>6, Part
      <3>8. \A b \in B : CountOf[b] \in Nat /\ g[b] = CountOf[b]
        BY <3>5, ArenaFacts DEF CountOf
      <3> HIDE DEF B, g
      <3>9. Total(CountOf, B) = Total(g, B)
        <4>1. B \in SUBSET B /\ \A b \in B \ B : CountOf[b] = 0
          OBVIOUS
        <4> QED
          BY <3>7, <3>8, <4>1, TotalSame
      <3> QED
        BY <3>1, <3>2, <3>3, <3>9 DEF MovedTo, B
    <2> QED
      BY <2>1, <2>2, <2>3 DEF ParkingSoFar
  <1> QED
    BY <1>4, <1>5, <1>6 DEF TcacheCountedOnce, TcacheCount

-----------------------------------------------------------------------------
(* The totals of a tally.                                                  *)

LEMMA TotalAtMost ==
  ASSUME NEW U, IsFiniteSet(U), NEW f, NEW g,
         \A x \in U : f[x] \in Nat /\ g[x] \in Nat /\ f[x] <= g[x]
  PROVE  Total(f, U) <= Total(g, U)
  <1> DEFINE P == {T \in SUBSET U : Total(f, T) <= Total(g, T)}
  <1>1. {} \in P
    <2>1. Total(f, {}) = 0 /\ Total(g, {}) = 0
      BY TotalEmpty
    <2> QED
      BY <2>1
  <1>2. ASSUME NEW T \in SUBSET U, NEW x \in U \ T, T \in P PROVE T \cup {x} \in P
    <2>1. IsFiniteSet(T)
      BY Part
    <2>2. Total(f, T \cup {x}) = f[x] + Total(f, T) /\ Total(g, T \cup {x}) = g[x] + Total(g, T)
      BY <2>1, TotalAdd
    <2>3. Total(f, T) \in Nat /\ Total(g, T) \in Nat
      BY <2>1, TotalIs
    <2> QED
      BY <1>2, <2>2, <2>3
  <1>3. \A T \in SUBSET U : T \in P
    <2> HIDE DEF P
    <2> QED
      BY <1>1, <1>2, SetInduction
  <1> QED
    BY <1>3

LEMMA TotalOfPart ==
  ASSUME NEW U, IsFiniteSet(U), NEW V \in SUBSET U, NEW f, \A x \in U : f[x] \in Nat
  PROVE  Total(f, V) <= Total(f, U)
  <1> DEFINE g == [x \in U |-> IF x \in V THEN f[x] ELSE 0]
  <1>1. \A x \in U : g[x] \in Nat /\ g[x] <= f[x]
    OBVIOUS
  <1>2. (\A x \in V : f[x] = g[x]) /\ \A x \in U \ V : g[x] = 0
    OBVIOUS
  <1> HIDE DEF g
  <1>3. Total(g, U) = Total(f, V)
    BY <1>1, <1>2, TotalSame
  <1>4. Total(g, U) <= Total(f, U)
    BY <1>1, TotalAtMost
  <1> QED
    BY <1>3, <1>4

LEMMA TimesAtLeast ==
  ASSUME NEW a \in Nat \ {0}, NEW n \in Nat
  PROVE  a * n \in Nat /\ n <= a * n
  <1>1. (a - 1) \in Nat /\ (a - 1) * n \in Nat
    OBVIOUS
  <1>2. a * n = (a - 1) * n + n
    OBVIOUS
  <1> QED
    BY <1>1, <1>2

Weights(h) == [s \in Sizes |-> s * h[s]]

Agree(t) == /\ t.count = Total(t.histogram, Sizes)
            /\ t.bytes = Total(Weights(t.histogram), Sizes)

LEMMA AgreesIs ==
  ASSUME NEW t \in S!SizeTally
  PROVE  S!Agrees(t) <=> Agree(t)
  <1>1. DOMAIN t.histogram = Sizes
    BY DEF S!SizeTally
  <1>2. DOMAIN Weights(t.histogram) = Sizes
    BY DEF Weights
  <1>3. /\ S!SumFunction(t.histogram) = Total(t.histogram, Sizes)
        /\ S!SumFunction(Weights(t.histogram)) = Total(Weights(t.histogram), Sizes)
    BY <1>1, <1>2, SumIs
  <1> QED
    BY <1>3 DEF S!Agrees, Agree, Weights

LEMMA HistogramFacts ==
  ASSUME NEW t \in S!SizeTally
  PROVE  /\ IsFiniteSet(Sizes) /\ t.count \in Nat /\ t.bytes \in Nat
         /\ \A s \in Sizes : /\ s \in Nat \ {0} /\ t.histogram[s] \in Nat
                             /\ Weights(t.histogram)[s] = s * t.histogram[s]
                             /\ Weights(t.histogram)[s] \in Nat
                             /\ t.histogram[s] <= Weights(t.histogram)[s]
  <1>1. t.count \in Nat /\ t.bytes \in Nat /\ t.histogram \in [Sizes -> Nat]
    BY DEF S!SizeTally
  <1>2. \A s \in Sizes : s \in Nat \ {0} /\ t.histogram[s] \in Nat
    BY <1>1, Settings
  <1>3. \A s \in Sizes : Weights(t.histogram)[s] = s * t.histogram[s]
    BY DEF Weights
  <1> QED
    BY <1>1, <1>2, <1>3, TimesAtLeast, Settings

LEMMA CountAtMostBytes ==
  ASSUME NEW t \in S!SizeTally, Agree(t)
  PROVE  /\ t.count <= t.bytes
         /\ \A s \in Sizes : t.histogram[s] <= t.count /\ s * t.histogram[s] <= t.bytes
  <1>1. Total(t.histogram, Sizes) <= Total(Weights(t.histogram), Sizes)
    BY HistogramFacts, TotalAtMost
  <1>2. \A s \in Sizes : t.histogram[s] <= Total(t.histogram, Sizes)
    BY HistogramFacts, TotalCovers
  <1>3. \A s \in Sizes : Weights(t.histogram)[s] <= Total(Weights(t.histogram), Sizes)
    BY HistogramFacts, TotalCovers
  <1> QED
    BY <1>1, <1>2, <1>3, HistogramFacts DEF Agree

\* One row changed by d, and the totals with it.
LEMMA RowChanged ==
  ASSUME NEW t \in S!SizeTally, NEW u \in S!SizeTally, Agree(t), NEW size \in Sizes, NEW d \in Int,
         u.histogram[size] = t.histogram[size] + d,
         \A s \in Sizes \ {size} : u.histogram[s] = t.histogram[s],
         u.count = t.count + d, u.bytes = t.bytes + size * d
  PROVE  Agree(u)
  <1> DEFINE h == t.histogram
             g == u.histogram
  <1>1. /\ IsFiniteSet(Sizes)
        /\ \A s \in Sizes : /\ s \in Nat /\ h[s] \in Nat /\ g[s] \in Nat
                            /\ Weights(h)[s] = s * h[s] /\ Weights(h)[s] \in Nat
                            /\ Weights(g)[s] = s * g[s] /\ Weights(g)[s] \in Nat
    BY HistogramFacts
  <1>2. t.count \in Nat /\ t.bytes \in Nat
    BY HistogramFacts
  <1>3. g[size] = h[size] + d /\ \A s \in Sizes \ {size} : g[s] = h[s]
    OBVIOUS
  <1>4. t.count = Total(h, Sizes) /\ t.bytes = Total(Weights(h), Sizes)
    BY DEF Agree
  <1> HIDE DEF h, g
  <1>5. Total(g, Sizes) = g[size] + (Total(h, Sizes) - h[size])
    BY <1>1, <1>3, TotalUpdate
  <1>6. Total(Weights(g), Sizes) = Weights(g)[size] + (Total(Weights(h), Sizes) - Weights(h)[size])
    <2>1. \A s \in Sizes \ {size} : Weights(g)[s] = Weights(h)[s]
      BY <1>1, <1>3
    <2> QED
      BY <1>1, <2>1, TotalUpdate
  <1>7. Total(g, Sizes) = t.count + d
    BY <1>1, <1>2, <1>3, <1>4, <1>5
  <1>8. Total(Weights(g), Sizes) = t.bytes + size * d
    <2>1. Weights(g)[size] = size * h[size] + size * d /\ Weights(h)[size] = size * h[size]
      BY <1>1, <1>3
    <2>2. size * h[size] \in Int /\ size * d \in Int
      BY <1>1
    <2> QED
      BY <1>2, <1>4, <1>6, <2>1, <2>2
  <1> QED
    BY <1>7, <1>8 DEF Agree, g

LEMMA AgreeAdd ==
  ASSUME NEW t \in S!SizeTally, Agree(t), NEW size \in Sizes, NEW n \in Nat,
         t.count + n <= MaxU64, t.bytes + size * n <= MaxU64
  PROVE  Agree(S!AddN(t, size, n)) /\ S!AddN(t, size, n).bytes = t.bytes + size * n
  <1> DEFINE u == S!AddN(t, size, n)
  <1>1. /\ size \in Nat /\ t.count \in Nat /\ t.bytes \in Nat /\ MaxU64 \in Nat
        /\ \A s \in Sizes : t.histogram[s] \in Nat
    BY HistogramFacts, Settings
  <1>2. /\ u \in S!SizeTally
        /\ u.count = S!SatAdd(t.count, n)
        /\ u.bytes = S!SatAdd(t.bytes, S!SatMul(size, n))
        /\ \A s \in Sizes : u.histogram[s]
             = IF s = size THEN S!SatAdd(t.histogram[s], n) ELSE t.histogram[s]
    BY AddNIs
  <1> HIDE DEF u
  <1>3. u.count = t.count + n
    BY <1>1, <1>2, SatAddIs
  <1>4. size * n \in Nat /\ size * n <= MaxU64
    BY <1>1, SatMulIs
  <1>5. S!SatMul(size, n) = size * n
    BY <1>1, <1>4, SatMulIs
  <1>6. u.bytes = t.bytes + size * n
    BY <1>1, <1>2, <1>4, <1>5, SatAddIs
  <1>7. t.histogram[size] <= t.count
    BY CountAtMostBytes
  <1>8. u.histogram[size] = t.histogram[size] + n
    <2>1. t.histogram[size] + n <= MaxU64 /\ t.histogram[size] \in Nat
      BY <1>1, <1>7
    <2> QED
      BY <1>2, <2>1, SatAddIs
  <1>9. \A s \in Sizes \ {size} : u.histogram[s] = t.histogram[s]
    BY <1>2
  <1>10. Agree(u)
    BY <1>2, <1>3, <1>6, <1>8, <1>9, RowChanged
  <1> QED
    BY <1>6, <1>10 DEF u

LEMMA AgreeAddUnsaturated ==
  ASSUME NEW t \in S!SizeTally, t.bytes < MaxU64 => Agree(t), NEW size \in Sizes, NEW n \in Nat,
         S!AddN(t, size, n).bytes < MaxU64
  PROVE  Agree(S!AddN(t, size, n))
  <1>1. size \in Nat \ {0} /\ t.count \in Nat /\ t.bytes \in Nat /\ MaxU64 \in Nat
    BY HistogramFacts, Settings
  <1>2. S!SatAdd(t.bytes, S!SatMul(size, n)) < MaxU64
    BY AddNIs
  <1>3. S!SatMul(size, n) \in Nat
    BY <1>1, SatMulIs
  <1>4. t.bytes + S!SatMul(size, n) < MaxU64
    BY <1>1, <1>2, <1>3, SatAddIs
  <1>5. t.bytes < MaxU64 /\ S!SatMul(size, n) < MaxU64
    BY <1>1, <1>3, <1>4
  <1>6. S!SatMul(size, n) = size * n /\ size * n \in Nat /\ n <= size * n
    BY <1>1, <1>5, SatMulIs, TimesAtLeast
  <1>7. t.bytes + size * n <= MaxU64
    BY <1>1, <1>4, <1>6
  <1>8. Agree(t)
    BY <1>5
  <1>9. t.count + n <= MaxU64
    <2>1. t.count <= t.bytes
      BY <1>8, CountAtMostBytes
    <2> QED
      BY <1>1, <1>6, <1>7, <2>1
  <1> QED
    BY <1>7, <1>8, <1>9, AgreeAdd

LEMMA AgreeRemove ==
  ASSUME NEW t \in S!SizeTally, Agree(t), NEW size \in Sizes, NEW n \in Nat,
         n <= t.histogram[size], t.bytes <= MaxU64
  PROVE  /\ Agree(S!RemoveN(t, size, n))
         /\ n <= t.count /\ S!RemoveN(t, size, n).count = t.count - n
         /\ S!RemoveN(t, size, n).bytes <= t.bytes
  <1> DEFINE u == S!RemoveN(t, size, n)
  <1>1. /\ size \in Nat /\ t.count \in Nat /\ t.bytes \in Nat /\ MaxU64 \in Nat
        /\ t.histogram[size] \in Nat
    BY HistogramFacts, Settings
  <1>2. /\ u \in S!SizeTally
        /\ u.count = S!SatSub(t.count, n)
        /\ u.bytes = S!SatSub(t.bytes, S!SatMul(size, n))
        /\ \A s \in Sizes : u.histogram[s]
             = IF s = size THEN S!SatSub(t.histogram[s], n) ELSE t.histogram[s]
    BY RemoveNIs
  <1> HIDE DEF u
  <1>3. t.histogram[size] <= t.count /\ size * t.histogram[size] <= t.bytes
    BY CountAtMostBytes
  <1>4. n <= t.count /\ u.count = t.count - n
    <2>1. n <= t.count
      BY <1>1, <1>3
    <2>2. S!SatSub(t.count, n) = t.count - n
      BY <1>1, <2>1, SatSubIs
    <2> QED
      BY <1>2, <2>1, <2>2
  <1>5. size * n \in Nat /\ size * n <= t.bytes
    <2> DEFINE k == t.histogram[size] - n
    <2>1. k \in Nat /\ t.histogram[size] = n + k
      BY <1>1
    <2> HIDE DEF k
    <2>2. size * k \in Nat /\ size * n \in Nat
      BY <1>1, <2>1
    <2>3. size * (n + k) = size * n + size * k
      BY <1>1, <2>1
    <2>4. size * n + size * k <= t.bytes
      BY <1>3, <2>1, <2>3
    <2> QED
      BY <1>1, <2>2, <2>4
  <1>6. S!SatMul(size, n) = size * n
    <2>1. size * n <= MaxU64
      BY <1>1, <1>5
    <2> QED
      BY <1>1, <2>1, SatMulIs
  <1>7. u.bytes = t.bytes - size * n
    <2>1. S!SatSub(t.bytes, size * n) = t.bytes - size * n
      BY <1>1, <1>5, SatSubIs
    <2> QED
      BY <1>2, <1>6, <2>1
  <1>8. u.histogram[size] = t.histogram[size] - n
    BY <1>1, <1>2, SatSubIs
  <1>9. \A s \in Sizes \ {size} : u.histogram[s] = t.histogram[s]
    BY <1>2
  <1>10. Agree(u)
    <2> DEFINE d == 0 - n
    <2>1. d \in Int /\ u.count = t.count + d /\ u.histogram[size] = t.histogram[size] + d
      BY <1>1, <1>4, <1>8
    <2>2. size * d = 0 - size * n
      BY <1>1
    <2>3. u.bytes = t.bytes + size * d
      BY <1>1, <1>5, <1>7, <2>2
    <2> HIDE DEF d
    <2> QED
      BY <1>2, <1>9, <2>1, <2>3, RowChanged
  <1>11. u.bytes <= t.bytes
    BY <1>1, <1>5, <1>7
  <1> QED
    BY <1>4, <1>10, <1>11 DEF u

SizeOf == [e \in DOMAIN arena.events |-> arena.events[e].user_size]

(* The totals, as long as nothing saturates or is reported.                *)
TotalsSoFar ==
  /\ free.bytes < MaxU64 => Agree(free)
  /\ inconsistent = {} /\ S!WalkedBytes <= MaxU64 =>
       /\ Agree(allocated) /\ allocated.bytes <= MaxU64
       /\ pc = "events" => allocated.bytes <= Total(SizeOf, 1 .. i - 1)
  /\ inconsistent = {} =>
       allocated.count + free.count = IF pc = "events" THEN i - 1 ELSE N

LEMMA WalkedFacts ==
  ASSUME StatsTypes
  PROVE  /\ S!WalkedBytes = Total(SizeOf, DOMAIN arena.events)
         /\ IsFiniteSet(DOMAIN arena.events)
         /\ \A e \in DOMAIN arena.events : SizeOf[e] = arena.events[e].user_size /\ SizeOf[e] \in Nat
  <1>1. DOMAIN SizeOf = DOMAIN arena.events
    BY DEF SizeOf
  <1>2. S!WalkedBytes = S!SumFunction(SizeOf)
    BY DEF S!WalkedBytes, SizeOf
  <1>3. \A e \in DOMAIN arena.events : SizeOf[e] = arena.events[e].user_size /\ SizeOf[e] \in Nat
    BY ArenaFacts, Settings DEF SizeOf
  <1>4. IsFiniteSet(DOMAIN arena.events)
    BY ArenaFacts, FS_Interval
  <1> QED
    BY <1>1, <1>2, <1>3, <1>4, SumIs

LEMMA TotalsStep ==
  ASSUME TlsInv, StatsTypes, CountedEvents, CountedTcache, TotalsSoFar, S!Next
  PROVE  TotalsSoFar'
  <1>1. arena' = arena /\ N' = N
    BY StatsTypeStep, KeepSets
  <1>2. SizeOf' = SizeOf /\ S!WalkedBytes' = S!WalkedBytes
    BY <1>1 DEF SizeOf, S!WalkedBytes
  <1>3. N \in Nat /\ N <= MaxU64 /\ MaxU64 \in Nat
    BY ArenaFacts, Settings
  <1>4. allocated \in S!SizeTally /\ free \in S!SizeTally
    BY DEF StatsTypes
  <1>5. allocated.count \in Nat /\ free.count \in Nat /\ allocated.bytes \in Nat /\ free.bytes \in Nat
    BY <1>4, HistogramFacts
  <1>6. CASE S!CountParked \/ S!CountAllocated \/ S!CountFree
    <2> DEFINE z == S!Event.user_size
    <2>1. /\ i \in DOMAIN arena.events /\ i <= N /\ i - 1 \in Nat /\ (i - 1) + 1 = i
          /\ pc = "events" /\ pc' = "events" /\ i' - 1 = i
          /\ i \in FreeSet <=> i \notin AllocatedSet
          /\ z \in Sizes
          /\ i \in AllocatedSet => allocated' = S!AddN(allocated, z, 1) /\ free' = free
          /\ i \in FreeSet => free' = S!AddN(free, z, 1) /\ allocated' = allocated
          /\ inconsistent' = inconsistent /\ inconsistent = {}
      BY <1>6, EventIs DEF CountedEvents
    <2>2. z \in Nat /\ z * 1 = z /\ SizeOf[i] = z /\ i \in Nat
      BY <2>1, Settings, WalkedFacts, ArenaFacts DEF S!Event
    <2>3. /\ allocated.count = Upto(AllocatedSet, i - 1) /\ free.count = Upto(FreeSet, i - 1)
          /\ allocated.count + free.count = i - 1
      BY <2>1 DEF CountedEvents, TotalsSoFar
    <2> HIDE DEF z
    <2>4. allocated.count + 1 <= MaxU64 /\ free.count + 1 <= MaxU64
      BY <1>3, <1>5, <2>1, <2>2, <2>3
    <2>5. S!SatAdd(allocated.count, 1) = allocated.count + 1 /\ S!SatAdd(free.count, 1) = free.count + 1
      BY <1>5, <2>4, SatAddIs
    <2>6. allocated'.count + free'.count = i
      <3>1. CASE i \in AllocatedSet
        <4>1. allocated'.count = S!SatAdd(allocated.count, 1) /\ free' = free
          BY <1>4, <2>1, <3>1, AddNIs
        <4> QED
          BY <1>5, <2>1, <2>2, <2>3, <2>5, <4>1
      <3>2. CASE i \notin AllocatedSet
        <4>1. free'.count = S!SatAdd(free.count, 1) /\ allocated' = allocated
          BY <1>4, <2>1, <3>2, AddNIs
        <4> QED
          BY <1>5, <2>1, <2>2, <2>3, <2>5, <4>1
      <3> QED
        BY <3>1, <3>2
    <2>7. free'.bytes < MaxU64 => Agree(free')
      <3>1. CASE i \in AllocatedSet
        BY <2>1, <3>1 DEF TotalsSoFar
      <3>2. CASE i \notin AllocatedSet
        <4>1. free' = S!AddN(free, z, 1)
          BY <2>1, <3>2
        <4>2. free.bytes < MaxU64 => Agree(free)
          BY DEF TotalsSoFar
        <4> QED
          BY <1>4, <2>1, <4>1, <4>2, AgreeAddUnsaturated
      <3> QED
        BY <3>1, <3>2
    <2>8. ASSUME S!WalkedBytes <= MaxU64
          PROVE  /\ Agree(allocated') /\ allocated'.bytes <= MaxU64
                 /\ allocated'.bytes <= Total(SizeOf, 1 .. i)
      <3>1. Agree(allocated) /\ allocated.bytes <= MaxU64 /\ allocated.bytes <= Total(SizeOf, 1 .. i - 1)
        BY <2>1, <2>8 DEF TotalsSoFar
      <3>2. Total(SizeOf, 1 .. i) = z + Total(SizeOf, 1 .. i - 1) /\ Total(SizeOf, 1 .. i - 1) \in Nat
        <4> DEFINE V == 1 .. i - 1
        <4>1. IsFiniteSet(V) /\ i \notin V /\ V \cup {i} = 1 .. i
          <5>1. i - 1 \in Int /\ 1 \in Int /\ i \in Nat \ {0}
            BY <1>3, <2>2 DEF StatsTypes
          <5>2. IsFiniteSet(V)
            BY <5>1, FS_Interval
          <5>3. i \notin V
            BY <5>1
          <5>4. V \cup {i} = 1 .. i
            BY <5>1
          <5> QED
            BY <5>2, <5>3, <5>4
        <4>2. \A e \in V : SizeOf[e] \in Nat
          <5>1. V \subseteq DOMAIN arena.events
            BY <1>3, <2>1, <2>2, ArenaFacts
          <5> QED
            BY <5>1, WalkedFacts
        <4> HIDE DEF V
        <4>3. Total(SizeOf, V \cup {i}) = SizeOf[i] + Total(SizeOf, V)
          BY <2>2, <4>1, <4>2, TotalAdd
        <4>4. Total(SizeOf, V) \in Nat
          BY <4>1, <4>2, TotalIs
        <4> QED
          BY <2>2, <4>1, <4>3, <4>4 DEF V
      <3>3. Total(SizeOf, 1 .. i) <= S!WalkedBytes
        <4>1. 1 .. i \in SUBSET DOMAIN arena.events
          BY <1>3, <2>1, <2>2, ArenaFacts
        <4> QED
          BY <4>1, WalkedFacts, TotalOfPart
      <3>4. S!WalkedBytes \in Nat
        BY WalkedFacts, TotalIs
      <3>5. CASE i \in AllocatedSet
        <4>1. allocated' = S!AddN(allocated, z, 1)
          BY <2>1, <3>5
        <4>2. allocated.bytes + z * 1 <= MaxU64
          BY <1>3, <1>5, <2>2, <2>8, <3>1, <3>2, <3>3, <3>4
        <4>3. Agree(allocated') /\ allocated'.bytes = allocated.bytes + z * 1
          BY <1>4, <2>1, <2>4, <3>1, <4>1, <4>2, AgreeAdd
        <4> QED
          BY <1>3, <1>5, <2>2, <3>1, <3>2, <4>2, <4>3
      <3>6. CASE i \notin AllocatedSet
        BY <1>5, <2>1, <2>2, <3>1, <3>2, <3>6
      <3> QED
        BY <3>5, <3>6
    <2> QED
      BY <1>2, <2>1, <2>6, <2>7, <2>8 DEF TotalsSoFar
  <1>7. CASE S!EventsDone
    <2>1. i - 1 = N /\ pc = "events" /\ pc' # "events"
      <3>1. i \in Nat /\ i > N /\ i <= N + 1
        BY <1>3, <1>7, ArenaFacts DEF S!EventsDone, StatsTypes, CountedEvents, N
      <3> QED
        BY <1>3, <1>7, <3>1 DEF S!EventsDone
    <2>2. UNCHANGED <<allocated, free, inconsistent>>
      BY <1>7 DEF S!EventsDone
    <2> QED
      BY <1>1, <1>2, <2>1, <2>2 DEF TotalsSoFar, Agree
  <1>8. CASE S!FastbinsDone \/ S!SkipEmptyFastbin
    <2>1. pc # "events" /\ pc' # "events" /\ UNCHANGED <<allocated, free, inconsistent>>
      BY <1>8 DEF S!FastbinsDone, S!SkipEmptyFastbin, S!MoreFastbins
    <2> QED
      BY <1>1, <1>2, <2>1 DEF TotalsSoFar, Agree
  <1>9. CASE S!MoveFastbin
    <2> DEFINE b == arena.fastbins[i]
               size == S!IndexToSize(b.index)
               n == b.count
    <2>1. i \in DOMAIN arena.fastbins
      BY <1>9, ArenaFacts DEF S!MoveFastbin, S!MoreFastbins, StatsTypes
    <2>2. size \in Sizes /\ n \in Nat
      BY <2>1, ArenaFacts
    <2>3. /\ pc = "fastbins" /\ pc' = "fastbins"
          /\ allocated' = S!RemoveN(allocated, size, n) /\ free' = S!AddN(free, size, n)
          /\ inconsistent' = IF S!Underflows(allocated, size, n)
                             THEN inconsistent \cup {size} ELSE inconsistent
      BY <1>9 DEF S!MoveFastbin, S!MoreFastbins
    <2> HIDE DEF b, size, n
    <2>4. free'.bytes < MaxU64 => Agree(free')
      <3>1. free.bytes < MaxU64 => Agree(free)
        BY DEF TotalsSoFar
      <3> QED
        BY <1>4, <2>2, <2>3, <3>1, AgreeAddUnsaturated
    <2>5. ASSUME inconsistent' = {}
          PROVE  inconsistent = {} /\ n <= allocated.count /\ n <= allocated.histogram[size]
      <3>1. ~ S!Underflows(allocated, size, n) /\ inconsistent = {}
        BY <2>3, <2>5
      <3>2. allocated.histogram[size] \in Nat
        BY <1>4, <2>2, HistogramFacts
      <3> QED
        BY <1>5, <2>2, <3>1, <3>2 DEF S!Underflows
    <2>6. ASSUME inconsistent' = {} PROVE allocated'.count + free'.count = N
      <3>1. inconsistent = {} /\ n <= allocated.count
        BY <2>5, <2>6
      <3>2. allocated.count + free.count = N
        BY <2>3, <3>1 DEF TotalsSoFar
      <3>3. allocated'.count = S!SatSub(allocated.count, n) /\ free'.count = S!SatAdd(free.count, n)
        BY <1>4, <2>2, <2>3, AddNIs, RemoveNIs
      <3>4. free.count + n <= MaxU64
        BY <1>3, <1>5, <2>2, <3>1, <3>2
      <3>5. allocated'.count = allocated.count - n
        BY <1>5, <2>2, <3>1, <3>3, SatSubIs
      <3>6. free'.count = free.count + n
        BY <1>5, <2>2, <3>3, <3>4, SatAddIs
      <3> QED
        BY <1>5, <2>2, <3>2, <3>5, <3>6
    <2>7. ASSUME inconsistent' = {}, S!WalkedBytes <= MaxU64
          PROVE  Agree(allocated') /\ allocated'.bytes <= MaxU64
      <3>1. inconsistent = {} /\ n <= allocated.histogram[size]
        BY <2>5, <2>7
      <3>2. Agree(allocated) /\ allocated.bytes <= MaxU64
        BY <2>7, <3>1 DEF TotalsSoFar
      <3>3. Agree(allocated') /\ allocated'.bytes <= allocated.bytes
        BY <1>4, <2>2, <2>3, <3>1, <3>2, AgreeRemove
      <3>4. allocated'.bytes \in Nat
        BY <1>4, <2>2, <2>3, RemoveNIs, HistogramFacts
      <3> QED
        BY <1>3, <1>5, <3>2, <3>3, <3>4
    <2> QED
      BY <1>1, <1>2, <2>3, <2>4, <2>6, <2>7 DEF TotalsSoFar
  <1> QED
    BY <1>6, <1>7, <1>8, <1>9 DEF S!Next

(* The fastbins listed are a part of free, next to the tcache.             *)
CountsShown == [k \in DOMAIN shown |-> shown[k].count]

ShownSoFar ==
  /\ pc = "events" => shown = <<>>
  /\ free.bytes < MaxU64 =>
       Total(tcacheCounts, DOMAIN tcacheCounts) + Total(CountsShown, DOMAIN shown) <= free.count

LEMMA ShownTotal ==
  ASSUME StatsTypes
  PROVE  /\ IsFiniteSet(DOMAIN shown) /\ \A k \in DOMAIN shown : CountsShown[k] \in Nat
         /\ Total(CountsShown, DOMAIN shown) \in Nat
         /\ shown = <<>> => Total(CountsShown, DOMAIN shown) = 0
  <1>1. /\ shown \in Seq([index : Nat, size : Nat, count : Nat, bytes : Nat])
        /\ Len(shown) \in Nat /\ DOMAIN shown = 1 .. Len(shown)
    BY DEF StatsTypes
  <1>2. \A k \in DOMAIN shown : CountsShown[k] \in Nat
    <2> SUFFICES ASSUME NEW k \in DOMAIN shown PROVE shown[k].count \in Nat
      BY DEF CountsShown
    <2> DEFINE Row == [index : Nat, size : Nat, count : Nat, bytes : Nat]
    <2>1. shown[k] \in Row
      <3>1. shown \in Seq(Row) /\ k \in 1 .. Len(shown)
        BY <1>1
      <3> HIDE DEF Row
      <3> QED
        BY <3>1, ElementOfSeq
    <2> QED
      BY <2>1
  <1>3. IsFiniteSet(DOMAIN shown)
    BY <1>1, FS_Interval
  <1>4. Total(CountsShown, DOMAIN shown) \in Nat
    BY <1>2, <1>3, TotalIs
  <1>5. shown = <<>> => Total(CountsShown, DOMAIN shown) = 0
    <2>1. shown = <<>> => DOMAIN shown = {}
      OBVIOUS
    <2> QED
      BY <2>1, TotalEmpty
  <1> QED
    BY <1>2, <1>3, <1>4, <1>5

LEMMA ShownStep ==
  ASSUME TlsInv, StatsTypes, CountedEvents, CountedTcache, TotalsSoFar, ShownSoFar, S!Next
  PROVE  ShownSoFar'
  <1>1. CountedTcache' /\ arena' = arena
    BY CountedTcacheStep, StatsTypeStep
  <1>2. /\ IsFiniteSet(DOMAIN shown) /\ \A k \in DOMAIN shown : CountsShown[k] \in Nat
        /\ Total(CountsShown, DOMAIN shown) \in Nat
    BY ShownTotal
  <1> DEFINE parked == Total(tcacheCounts, DOMAIN tcacheCounts)
             listed == Total(CountsShown, DOMAIN shown)
  <1>3. parked \in Nat
    <2>1. IsFiniteSet(DOMAIN tcacheCounts) /\ \A b \in DOMAIN tcacheCounts : tcacheCounts[b] \in Nat
      BY DEF CountedTcache, StatsTypes
    <2> QED
      BY <2>1, TotalIs
  <1>4. CASE pc' = "events"
    <2>1. pc = "events" /\ shown' = shown
      BY <1>4 DEF S!Next, S!CountParked, S!CountAllocated, S!CountFree, S!EventsDone,
                  S!SkipEmptyFastbin, S!MoveFastbin, S!FastbinsDone, S!MoreEvents, S!MoreFastbins
    <2>2. shown' = <<>> /\ DOMAIN shown' = {}
      BY <2>1 DEF ShownSoFar
    <2>3. Total(CountsShown, DOMAIN shown)' = 0
      BY <2>2, TotalEmpty
    <2>4. parked' \in Nat /\ parked' <= free'.count
      <3>1. /\ IsFiniteSet(DOMAIN tcacheCounts')
            /\ \A b \in DOMAIN tcacheCounts' : tcacheCounts'[b] \in Nat
        BY <1>1, StatsTypeStep DEF CountedTcache, StatsTypes
      <3>2. parked' \in Nat
        BY <3>1, TotalIs
      <3>3. i' - 1 \in Nat /\ free'.count \in Nat
        BY StatsTypeStep DEF StatsTypes, S!SizeTally
      <3>4. Upto(ParkedSet, i - 1)' <= free'.count /\ parked' = Upto(ParkedSet, i - 1)'
        BY <1>1, <1>4 DEF CountedTcache
      <3> QED
        BY <3>2, <3>4
    <2> QED
      BY <2>2, <2>3, <2>4 DEF ShownSoFar
  <1>5. CASE pc' # "events" /\ ~ S!MoveFastbin
    <2>1. UNCHANGED <<free, tcacheCounts, shown>>
      BY <1>5 DEF S!Next, S!CountParked, S!CountAllocated, S!CountFree, S!EventsDone,
                  S!SkipEmptyFastbin, S!FastbinsDone, S!MoreEvents
    <2>2. CountsShown' = CountsShown
      BY <2>1 DEF CountsShown
    <2> QED
      BY <1>5, <2>1, <2>2 DEF ShownSoFar
  <1>6. CASE S!MoveFastbin
    <2> DEFINE b == arena.fastbins[i]
               size == S!IndexToSize(b.index)
               n == b.count
               row == S!BinTally(b.index, n)
    <2>1. i \in DOMAIN arena.fastbins
      BY <1>6, ArenaFacts DEF S!MoveFastbin, S!MoreFastbins, StatsTypes
    <2>2. size \in Sizes /\ n \in Nat
      BY <2>1, ArenaFacts
    <2>3. /\ pc' # "events" /\ tcacheCounts' = tcacheCounts
          /\ free' = S!AddN(free, size, n) /\ shown' = Append(shown, row)
      BY <1>6 DEF S!MoveFastbin, S!MoreFastbins
    <2>4. row.count = n
      BY DEF S!BinTally
    <2>5. free \in S!SizeTally /\ MaxU64 \in Nat
      BY Settings DEF StatsTypes
    <2> HIDE DEF b, size, n, row
    <2>6. listed' = listed + n
      <3> DEFINE m == Len(shown)
                 D == DOMAIN shown
                 x == m + 1
                 f == CountsShown'
      <3>1. shown \in Seq([index : Nat, size : Nat, count : Nat, bytes : Nat])
        BY DEF StatsTypes
      <3>2. m \in Nat /\ D = 1 .. m /\ DOMAIN shown' = D \cup {x} /\ x \notin D
        BY <2>3, <3>1
      <3>3. (\A k \in D : shown'[k] = shown[k]) /\ shown'[x] = row
        BY <2>3, <3>1, <3>2
      <3>4. (\A k \in D : f[k] = CountsShown[k]) /\ f[x] = n
        BY <2>4, <3>2, <3>3 DEF CountsShown
      <3>5. D \in SUBSET D /\ D \ D = {}
        OBVIOUS
      <3>6. IsFiniteSet(D) /\ \A k \in D : CountsShown[k] \in Nat /\ f[k] \in Nat
        BY <1>2, <3>4
      <3> HIDE DEF f, D, x
      <3>7. Total(f, D) = Total(CountsShown, D)
        BY <3>4, <3>5, <3>6, TotalSame
      <3>8. Total(f, D \cup {x}) = f[x] + Total(f, D)
        BY <2>2, <3>2, <3>4, <3>6, TotalAdd
      <3>9. listed' = Total(f, D \cup {x})
        BY <3>2 DEF f
      <3> QED
        BY <1>2, <2>2, <3>4, <3>7, <3>8, <3>9 DEF D
    <2>7. ASSUME free'.bytes < MaxU64 PROVE free'.count = free.count + n /\ free.bytes < MaxU64
      <3>1. /\ free'.count = S!SatAdd(free.count, n)
            /\ free'.bytes = S!SatAdd(free.bytes, S!SatMul(size, n))
        BY <2>2, <2>3, <2>5, AddNIs
      <3>2. size \in Nat \ {0} /\ free.count \in Nat /\ free.bytes \in Nat
        BY <2>2, <2>5, HistogramFacts
      <3>3. S!SatMul(size, n) \in Nat
        BY <2>2, <3>2, SatMulIs
      <3>4. free'.bytes = free.bytes + S!SatMul(size, n)
        BY <2>7, <3>1, <3>2, <3>3, SatAddIs
      <3>5. S!SatMul(size, n) < MaxU64 /\ free.bytes < MaxU64
        BY <2>5, <2>7, <3>2, <3>3, <3>4
      <3>6. S!SatMul(size, n) = size * n /\ n <= size * n /\ size * n \in Nat
        BY <2>2, <3>2, <3>5, SatMulIs, TimesAtLeast
      <3>7. free.count <= free.bytes
        BY <2>5, <3>5, CountAtMostBytes DEF TotalsSoFar
      <3>8. free.count + n <= MaxU64
        <4> DEFINE w == size * n
        <4>1. n <= w /\ w \in Nat /\ free.bytes + w < MaxU64
          BY <2>7, <3>4, <3>6
        <4> HIDE DEF w
        <4> QED
          BY <2>2, <2>5, <3>2, <3>7, <4>1
      <3> QED
        BY <2>2, <3>1, <3>2, <3>5, <3>8, SatAddIs
    <2>8. parked' = parked
      BY <2>3
    <2>9. free.count \in Nat
      BY <2>5, HistogramFacts
    <2> HIDE DEF parked, listed
    <2>10. free'.bytes < MaxU64 => parked' + listed' <= free'.count
      <3> SUFFICES ASSUME free'.bytes < MaxU64 PROVE parked' + listed' <= free'.count
        OBVIOUS
      <3>1. parked + listed <= free.count
        BY <2>7 DEF ShownSoFar, parked, listed
      <3>2. listed \in Nat
        BY <1>2 DEF listed
      <3> QED
        BY <1>3, <2>2, <2>6, <2>7, <2>8, <2>9, <3>1, <3>2
    <2> QED
      BY <2>3, <2>10 DEF ShownSoFar, parked, listed
  <1> QED
    BY <1>4, <1>5, <1>6

-----------------------------------------------------------------------------
(* The entry of the report.                                                *)

LEMMA HasGreatest ==
  ASSUME NEW U \in SUBSET Nat, IsFiniteSet(U), U # {}
  PROVE  \E x \in U : \A y \in U : y <= x
  <1> DEFINE P == {T \in SUBSET U : T # {} => \E x \in T : \A y \in T : y <= x}
  <1>1. {} \in P
    OBVIOUS
  <1>2. ASSUME NEW T \in SUBSET U, NEW z \in U \ T, T \in P PROVE T \cup {z} \in P
    <2>1. \A y \in T \cup {z} : y \in Nat
      OBVIOUS
    <2>2. CASE T = {}
      BY <2>1, <2>2
    <2>3. CASE T # {}
      <3>1. PICK x \in T : \A y \in T : y <= x
        BY <1>2, <2>3
      <3>2. x \in Nat /\ z \in Nat
        OBVIOUS
      <3>3. CASE z <= x
        BY <3>1, <3>2, <3>3
      <3>4. CASE x <= z
        <4>1. \A y \in T \cup {z} : y <= z
          BY <2>1, <3>1, <3>2, <3>4
        <4> QED
          BY <4>1
      <3> QED
        BY <3>2, <3>3, <3>4
    <2> QED
      BY <2>2, <2>3
  <1>3. U \in P
    <2> HIDE DEF P
    <2> QED
      BY <1>1, <1>2, SetInduction
  <1> QED
    BY <1>3

Ascends(r) == \A k, m \in DOMAIN r : k < m => r[k] < r[m]

LEMMA AscendingExists ==
  ASSUME NEW T \in SUBSET Nat, IsFiniteSet(T)
  PROVE  \E r \in [1 .. Cardinality(T) -> T] : Ascends(r)
  <1> DEFINE Q == {n \in Nat : \A U \in SUBSET Nat : IsFiniteSet(U) /\ Cardinality(U) = n =>
                                 \E r \in [1 .. n -> U] : Ascends(r)}
  <1>1. 0 \in Q
    <2>1. \A U : [k \in 1 .. 0 |-> 0] \in [1 .. 0 -> U] /\ Ascends([k \in 1 .. 0 |-> 0])
      BY DEF Ascends
    <2> QED
      BY <2>1
  <1>2. ASSUME NEW n \in Nat, n \in Q PROVE n + 1 \in Q
    <2> SUFFICES ASSUME NEW U \in SUBSET Nat, IsFiniteSet(U), Cardinality(U) = n + 1
                 PROVE  \E r \in [1 .. n + 1 -> U] : Ascends(r)
      OBVIOUS
    <2>1. U # {}
      BY FS_EmptySet
    <2>2. PICK x \in U : \A y \in U : y <= x
      BY <2>1, HasGreatest
    <2> DEFINE V == U \ {x}
    <2>3. IsFiniteSet(V) /\ Cardinality(V) = n /\ V \in SUBSET Nat
      <3>1. Cardinality(V) = (n + 1) - 1 /\ IsFiniteSet(V)
        BY OneLess
      <3> QED
        BY <3>1
    <2>4. PICK r \in [1 .. n -> V] : Ascends(r)
      BY <1>2, <2>3
    <2>5. \A k \in 1 .. n : r[k] \in U /\ r[k] < x
      <3> SUFFICES ASSUME NEW k \in 1 .. n PROVE r[k] \in U /\ r[k] < x
        OBVIOUS
      <3>1. r[k] \in U /\ r[k] # x
        OBVIOUS
      <3>2. r[k] \in Nat /\ x \in Nat /\ r[k] <= x
        BY <2>2, <3>1
      <3> QED
        BY <3>1, <3>2
    <2> DEFINE q == [k \in 1 .. n + 1 |-> IF k = n + 1 THEN x ELSE r[k]]
    <2>6. (\A k \in 1 .. n : q[k] = r[k]) /\ q[n + 1] = x /\ DOMAIN q = 1 .. n + 1
      OBVIOUS
    <2>7. q \in [1 .. n + 1 -> U]
      BY <2>5
    <2> HIDE DEF q, V
    <2>8. ASSUME NEW k \in 1 .. n + 1, NEW m \in 1 .. n + 1, k < m PROVE q[k] < q[m]
      <3>1. k \in 1 .. n
        BY <2>8
      <3>2. CASE m = n + 1
        BY <2>5, <2>6, <3>1, <3>2
      <3>3. CASE m \in 1 .. n
        BY <2>4, <2>6, <2>8, <3>1, <3>3 DEF Ascends
      <3> QED
        BY <3>2, <3>3
    <2>9. Ascends(q)
      BY <2>6, <2>8 DEF Ascends
    <2> QED
      BY <2>7, <2>9
  <1>3. Cardinality(T) \in Q
    <2> HIDE DEF Q
    <2> QED
      BY <1>1, <1>2, NatSetInduction, FS_CardinalityType
  <1> QED
    BY <1>3

\* Ascending names every element, once.
LEMMA AscendingIs ==
  ASSUME NEW T \in SUBSET Nat, IsFiniteSet(T)
  PROVE  /\ Cardinality(T) \in Nat /\ S!Ascending(T) \in [1 .. Cardinality(T) -> T]
         /\ \A k, m \in 1 .. Cardinality(T) : k < m => S!Ascending(T)[k] < S!Ascending(T)[m]
         /\ \A k, m \in 1 .. Cardinality(T) : S!Ascending(T)[k] = S!Ascending(T)[m] => k = m
         /\ \A y \in T : \E k \in 1 .. Cardinality(T) : S!Ascending(T)[k] = y
  <1> DEFINE n == Cardinality(T)
             r == S!Ascending(T)
  <1>1. n \in Nat
    BY FS_CardinalityType
  <1>2. r \in [1 .. n -> T] /\ Ascends(r)
    <2>1. r = CHOOSE q \in [1 .. n -> T] : Ascends(q)
      BY SameCardinality DEF S!Ascending, Ascends
    <2>2. \E q \in [1 .. n -> T] : Ascends(q)
      BY AscendingExists
    <2> HIDE DEF r
    <2> QED
      BY <2>1, <2>2
  <1> HIDE DEF n, r
  <1>3. \A k, m \in 1 .. n : k < m => r[k] < r[m]
    BY <1>2 DEF Ascends
  <1>4. \A k, m \in 1 .. n : r[k] = r[m] => k = m
    <2> SUFFICES ASSUME NEW k \in 1 .. n, NEW m \in 1 .. n, r[k] = r[m], k # m PROVE FALSE
      OBVIOUS
    <2>1. r[k] \in Nat /\ r[m] \in Nat
      BY <1>2
    <2>2. k < m \/ m < k
      BY <1>1
    <2> QED
      BY <1>3, <2>1, <2>2
  <1>5. r \in Injection(1 .. n, T)
    BY <1>2, <1>4 DEF Injection, IsInjective
  <1>6. IsFiniteSet(1 .. n) /\ Cardinality(1 .. n) = Cardinality(T)
    <2>1. 1 \in Int /\ n \in Int
      BY <1>1
    <2> QED
      BY <1>1, <2>1, FS_Interval DEF n
  <1>7. r \in Surjection(1 .. n, T)
    BY <1>5, <1>6, FS_Injection
  <1>8. \A y \in T : \E k \in 1 .. n : r[k] = y
    BY <1>7 DEF Surjection
  <1> QED
    BY <1>1, <1>2, <1>3, <1>4, <1>8 DEF n, r

\* The sum over the elements in order.
LEMMA TotalInOrder ==
  ASSUME NEW T \in SUBSET Nat, IsFiniteSet(T), NEW f, \A y \in T : f[y] \in Nat,
         NEW g, \A k \in 1 .. Cardinality(T) : g[k] = f[S!Ascending(T)[k]]
  PROVE  Total(g, 1 .. Cardinality(T)) = Total(f, T)
  <1> DEFINE n == Cardinality(T)
             r == S!Ascending(T)
  <1>1. /\ n \in Nat /\ r \in [1 .. n -> T]
        /\ \A k, m \in 1 .. n : r[k] = r[m] => k = m
        /\ \A y \in T : \E k \in 1 .. n : r[k] = y
    BY AscendingIs
  <1>2. \A k \in 1 .. n : g[k] = f[r[k]]
    OBVIOUS
  <1> HIDE DEF n, r
  <1>3. IsRow(r, n, T) /\ AllNat(f, T) /\ ReadsAlong(g, f, r, n)
    BY <1>1, <1>2 DEF IsRow, AllNat, ReadsAlong
  <1>4. Total(g, 1 .. n) = Total(f, T)
    BY <1>3, TotalInARow
  <1> QED
    BY <1>4 DEF n

LEMMA TotalNonzero ==
  ASSUME NEW U, IsFiniteSet(U), NEW V \in SUBSET U, NEW f,
         \A x \in U : f[x] \in Nat, \A x \in U \ V : f[x] = 0
  PROVE  Total(f, U) = Total(f, V)
  <1> DEFINE g == [x \in V |-> f[x]]
  <1>1. \A x \in V : g[x] = f[x] /\ f[x] \in Nat
    OBVIOUS
  <1>2. IsFiniteSet(V) /\ V \in SUBSET V /\ V \ V = {}
    BY FS_Subset
  <1> HIDE DEF g
  <1>3. Total(f, U) = Total(g, V)
    BY <1>1, TotalSame
  <1>4. Total(f, V) = Total(g, V)
    BY <1>1, <1>2, TotalSame
  <1> QED
    BY <1>3, <1>4

\* One row for every size that has chunks, smallest first.
LEMMA RowsAre ==
  ASSUME NEW h \in [Sizes -> Nat]
  PROVE  /\ S!RowsAreWellFormed(S!Buckets(h))
         /\ S!SumOf(S!Buckets(h), S!Count) = Total(h, Sizes)
         /\ (\A s \in Sizes : s * h[s] <= MaxU64) =>
              S!SumOf(S!Buckets(h), S!Bytes) = Total(Weights(h), Sizes)
  <1> DEFINE T == {s \in Sizes : h[s] > 0}
             n == Cardinality(T)
             r == S!Ascending(T)
             rows == S!Buckets(h)
  <1>1. T \in SUBSET Nat /\ IsFiniteSet(T) /\ T \in SUBSET Sizes /\ IsFiniteSet(Sizes)
    BY Settings, FS_Subset
  <1>2. /\ n \in Nat /\ r \in [1 .. n -> T]
        /\ \A k, m \in 1 .. n : k < m => r[k] < r[m]
    BY <1>1, AscendingIs
  <1>3. /\ DOMAIN rows = 1 .. n
        /\ \A k \in 1 .. n : rows[k] = [size  |-> r[k], count |-> h[r[k]],
                                        bytes |-> S!SatMul(r[k], h[r[k]])]
    <2>1. {s \in DOMAIN h : h[s] > 0} = T
      OBVIOUS
    <2> HIDE DEF T
    <2> QED
      BY <1>2, <2>1 DEF S!Buckets
  <1>4. /\ \A s \in Sizes : /\ s \in Nat \ {0} /\ h[s] \in Nat /\ s * h[s] \in Nat
                            /\ Weights(h)[s] = s * h[s]
        /\ \A s \in T : h[s] > 0
        /\ \A s \in Sizes \ T : h[s] = 0
    <2>1. \A s \in Sizes : s \in Nat \ {0} /\ h[s] \in Nat
      BY Settings
    <2>2. \A s \in Sizes : s * h[s] \in Nat
      BY <2>1, TimesAtLeast
    <2> QED
      BY <2>1, <2>2 DEF Weights
  <1> HIDE DEF T, n, r, rows
  <1>5. S!RowsAreWellFormed(rows)
    <2>1. \A k \in 1 .. n : rows[k].count > 0 /\ rows[k].size = r[k]
      BY <1>2, <1>3, <1>4
    <2> QED
      BY <1>2, <1>3, <2>1 DEF S!RowsAreWellFormed
  <1>6. S!SumOf(rows, S!Count) = Total(h, Sizes)
    <2> DEFINE g == [k \in DOMAIN rows |-> rows[k].count]
    <2>1. S!SumOf(rows, S!Count) = Total(g, 1 .. n)
      BY <1>3, SumIs DEF S!SumOf, S!Count
    <2>2. \A k \in 1 .. n : g[k] = h[r[k]]
      BY <1>3
    <2> HIDE DEF g
    <2>3. Total(g, 1 .. n) = Total(h, T)
      BY <1>1, <1>4, <2>2, TotalInOrder DEF n, r
    <2>4. Total(h, Sizes) = Total(h, T)
      BY <1>1, <1>4, TotalNonzero
    <2> QED
      BY <2>1, <2>3, <2>4
  <1>7. ASSUME \A s \in Sizes : s * h[s] <= MaxU64
        PROVE  S!SumOf(rows, S!Bytes) = Total(Weights(h), Sizes)
    <2> DEFINE g == [k \in DOMAIN rows |-> rows[k].bytes]
               w == Weights(h)
    <2>1. S!SumOf(rows, S!Bytes) = Total(g, 1 .. n)
      BY <1>3, SumIs DEF S!SumOf, S!Bytes
    <2>2. \A k \in 1 .. n : g[k] = w[r[k]]
      <3> SUFFICES ASSUME NEW k \in 1 .. n PROVE g[k] = w[r[k]]
        OBVIOUS
      <3>1. r[k] \in Sizes
        BY <1>1, <1>2
      <3>2. r[k] \in Nat /\ h[r[k]] \in Nat /\ w[r[k]] = r[k] * h[r[k]] /\ r[k] * h[r[k]] <= MaxU64
        BY <1>4, <1>7, <3>1
      <3>3. S!SatMul(r[k], h[r[k]]) = r[k] * h[r[k]]
        BY <3>2, SatMulIs
      <3> QED
        BY <1>3, <3>2, <3>3
    <2>3. /\ \A s \in T : w[s] \in Nat
          /\ \A s \in Sizes : w[s] \in Nat
          /\ \A s \in Sizes \ T : w[s] = 0
      BY <1>1, <1>4
    <2> HIDE DEF g, w
    <2>4. Total(g, 1 .. n) = Total(w, T)
      BY <1>1, <2>2, <2>3, TotalInOrder DEF n, r
    <2>5. Total(w, Sizes) = Total(w, T)
      BY <1>1, <2>3, TotalNonzero
    <2> QED
      BY <2>1, <2>4, <2>5 DEF w
  <1> QED
    BY <1>5, <1>6, <1>7 DEF rows

LEMMA BinsAre ==
  ASSUME StatsTypes, CountedTcache
  PROVE  S!SumOf(S!TcacheSummary.bins, S!Count) = Total(tcacheCounts, DOMAIN tcacheCounts)
  <1> DEFINE T == DOMAIN tcacheCounts
             n == Cardinality(T)
             r == S!Ascending(T)
             rows == S!TcacheSummary.bins
  <1>1. T \in SUBSET Nat /\ IsFiniteSet(T) /\ \A b \in T : tcacheCounts[b] \in Nat
    BY DEF StatsTypes, CountedTcache
  <1>2. n \in Nat /\ r \in [1 .. n -> T]
    BY <1>1, AscendingIs
  <1>3. /\ DOMAIN rows = 1 .. n
        /\ \A k \in 1 .. n : rows[k] = S!BinTally(r[k], tcacheCounts[r[k]])
    BY <1>2 DEF S!TcacheSummary
  <1> HIDE DEF T, n, r, rows
  <1> DEFINE g == [k \in DOMAIN rows |-> rows[k].count]
  <1>4. S!SumOf(rows, S!Count) = Total(g, 1 .. n)
    BY <1>3, SumIs DEF S!SumOf, S!Count
  <1>5. \A k \in 1 .. n : g[k] = tcacheCounts[r[k]]
    BY <1>3 DEF S!BinTally
  <1> HIDE DEF g
  <1>6. Total(g, 1 .. n) = Total(tcacheCounts, T)
    BY <1>1, <1>5, TotalInOrder DEF n, r
  <1> QED
    BY <1>4, <1>6 DEF rows, T

\* The finished entry.
LEMMA EntryRight ==
  ASSUME StatsTypes, CountedTcache, TotalsSoFar, ShownSoFar, pc = "done"
  PROVE  S!EntryAddsUp(Entry)
  <1>1. allocated \in S!SizeTally /\ free \in S!SizeTally /\ MaxU64 \in Nat
    BY Settings DEF StatsTypes
  <1>2. allocated.histogram \in [Sizes -> Nat] /\ free.histogram \in [Sizes -> Nat]
    BY <1>1 DEF S!SizeTally
  <1>3. /\ Entry.allocated = S!TallySummary(allocated) /\ Entry.free = S!FreeSummary
        /\ Entry.overhead.count = N
    BY DEF Entry, S!ArenaReport, S!OverheadCount, N
  <1>4. /\ S!TallySummary(allocated).size_histogram = S!Buckets(allocated.histogram)
        /\ S!TallySummary(allocated).count = allocated.count
        /\ S!TallySummary(allocated).bytes = allocated.bytes
    BY DEF S!TallySummary
  <1>5. /\ S!FreeSummary.size_histogram = S!Buckets(free.histogram)
        /\ S!FreeSummary.count = free.count /\ S!FreeSummary.bytes = free.bytes
        /\ S!FreeSummary.tcache = S!TcacheSummary /\ S!FreeSummary.fastbins = shown
    BY DEF S!FreeSummary
  <1>6. \A h \in [Sizes -> Nat] : S!RowsAreWellFormed(S!Buckets(h))
    BY RowsAre
  <1>7. ASSUME NEW t \in S!SizeTally, Agree(t), t.bytes <= MaxU64
        PROVE  /\ S!SumOf(S!Buckets(t.histogram), S!Count) = t.count
               /\ S!SumOf(S!Buckets(t.histogram), S!Bytes) = t.bytes
    <2> DEFINE h == t.histogram
    <2>1. h \in [Sizes -> Nat] /\ t.count \in Nat /\ t.bytes \in Nat
      BY DEF S!SizeTally
    <2>2. t.count = Total(h, Sizes) /\ t.bytes = Total(Weights(h), Sizes)
      BY <1>7 DEF Agree
    <2>3. \A s \in Sizes : s * h[s] <= MaxU64
      <3> SUFFICES ASSUME NEW s \in Sizes PROVE s * h[s] <= MaxU64
        OBVIOUS
      <3>1. s * h[s] <= t.bytes /\ s * h[s] \in Nat
        BY <1>7, CountAtMostBytes, HistogramFacts
      <3> DEFINE w == s * h[s]
      <3>2. w <= t.bytes /\ w \in Nat
        BY <3>1
      <3> HIDE DEF w
      <3>3. w <= MaxU64
        BY <1>1, <1>7, <2>1, <3>2
      <3> QED
        BY <3>3 DEF w
    <2> HIDE DEF h
    <2>4. /\ S!SumOf(S!Buckets(h), S!Count) = Total(h, Sizes)
          /\ S!SumOf(S!Buckets(h), S!Bytes) = Total(Weights(h), Sizes)
      BY <2>1, <2>3, RowsAre
    <2> QED
      BY <2>2, <2>4 DEF h
  <1>8. ASSUME free.bytes < MaxU64
        PROVE  /\ S!RowsAddUp(S!FreeSummary)
               /\ S!SumOf(S!TcacheSummary.bins, S!Count) + S!SumOf(shown, S!Count) <= free.count
    <2>1. Agree(free) /\ free.bytes <= MaxU64 /\ free.bytes \in Nat
      BY <1>1, <1>8, HistogramFacts DEF TotalsSoFar
    <2>2. S!RowsAddUp(S!FreeSummary)
      BY <1>1, <1>5, <1>7, <2>1 DEF S!RowsAddUp
    <2>3. S!SumOf(shown, S!Count) = Total(CountsShown, DOMAIN shown)
      <3>1. DOMAIN CountsShown = DOMAIN shown
        BY DEF CountsShown
      <3>2. S!SumOf(shown, S!Count) = S!SumFunction(CountsShown)
        BY DEF S!SumOf, S!Count, CountsShown
      <3> QED
        BY <3>1, <3>2, SumIs
    <2> QED
      BY <1>8, <2>2, <2>3, BinsAre DEF ShownSoFar
  <1>9. ASSUME inconsistent = {}
        PROVE  /\ allocated.count + free.count = N
               /\ S!WalkedBytes <= MaxU64 => S!RowsAddUp(S!TallySummary(allocated))
    BY <1>1, <1>4, <1>7, <1>9 DEF TotalsSoFar, S!RowsAddUp
  <1> QED
    BY <1>2, <1>3, <1>4, <1>5, <1>6, <1>8, <1>9 DEF S!EntryAddsUp

Greatest(T) == CHOOSE x \in T : \A y \in T : x >= y

(* A sum that saturates is no less than any of its parts.                  *)
IsSatFold(W, v, n) ==
  \A T \in SUBSET (1 .. n) :
    W[T] = IF T = {} THEN 0 ELSE S!SatAdd(W[T \ {Greatest(T)}], v[Greatest(T)])

LEMMA GreatestIs ==
  ASSUME NEW n \in Nat
  PROVE  /\ IsFiniteSet(1 .. n)
         /\ \A T \in SUBSET (1 .. n) :
              T # {} => Greatest(T) \in T /\ T \ {Greatest(T)} \in SUBSET (1 .. n)
  <1>1. IsFiniteSet(1 .. n) /\ 1 .. n \in SUBSET Nat
    BY FS_Interval
  <1>2. ASSUME NEW T \in SUBSET (1 .. n), T # {} PROVE Greatest(T) \in T
    <2>1. IsFiniteSet(T) /\ T \in SUBSET Nat
      BY <1>1, FS_Subset
    <2>2. PICK x \in T : \A y \in T : y <= x
      BY <1>2, <2>1, HasGreatest
    <2>3. \A y \in T : x >= y
      BY <2>1, <2>2
    <2> QED
      BY <2>3 DEF Greatest
  <1> QED
    BY <1>1, <1>2

LEMMA SatFoldStep ==
  ASSUME NEW d \in 0 .. MaxU64, NEW a \in 0 .. MaxU64
  PROVE  /\ S!SatAdd(d, a) \in 0 .. MaxU64
         /\ d <= S!SatAdd(d, a) /\ a <= S!SatAdd(d, a)
  <1>1. d \in Nat /\ d <= MaxU64 /\ a \in Nat /\ a <= MaxU64 /\ MaxU64 \in Nat
    BY Settings
  <1>2. /\ S!SatAdd(d, a) \in Nat /\ S!SatAdd(d, a) <= MaxU64
        /\ d <= S!SatAdd(d, a) /\ a <= S!SatAdd(d, a)
    BY <1>1, SatAddIs
  <1> QED
    BY <1>1, <1>2

LEMMA SatFoldExists ==
  ASSUME NEW n \in Nat, NEW v, \A k \in 1 .. n : v[k] \in 0 .. MaxU64
  PROVE  \E W \in [SUBSET (1 .. n) -> 0 .. MaxU64] : IsSatFold(W, v, n)
  <1> DEFINE U == 1 .. n
             D == 0 .. MaxU64
             pick == [T \in SUBSET U |-> Greatest(T)]
             op == [x \in U |-> [d \in D |-> S!SatAdd(d, v[x])]]
  <1>1. IsFiniteSet(U) /\ 0 \in D
    BY GreatestIs, Settings
  <1>2. \A x \in U : \A d \in D : op[x][d] = S!SatAdd(d, v[x]) /\ op[x][d] \in D
    BY SatFoldStep
  <1>3. \A T \in SUBSET U : T # {} => /\ pick[T] \in T /\ pick[T] = Greatest(T)
                                      /\ T \ {Greatest(T)} \in SUBSET U
    BY GreatestIs
  <1> HIDE DEF pick, op, D, U
  <1>4. PICK W \in [SUBSET U -> D] : IsFold(W, U, 0, op, pick)
    BY <1>1, <1>2, <1>3, FoldExists
  <1>5. ASSUME NEW T \in SUBSET U
        PROVE  W[T] = IF T = {} THEN 0 ELSE S!SatAdd(W[T \ {Greatest(T)}], v[Greatest(T)])
    <2>1. CASE T = {}
      BY <1>4, <2>1 DEF IsFold
    <2>2. CASE T # {}
      <3>1. W[T] = op[Greatest(T)][W[T \ {Greatest(T)}]]
        BY <1>3, <1>4, <2>2 DEF IsFold
      <3>2. Greatest(T) \in U /\ W[T \ {Greatest(T)}] \in D
        BY <1>3, <2>2
      <3> QED
        BY <1>2, <2>2, <3>1, <3>2
    <2> QED
      BY <2>1, <2>2
  <1> QED
    BY <1>5 DEF IsSatFold, U, D

LEMMA SatFoldCovers ==
  ASSUME NEW n \in Nat, NEW v, \A k \in 1 .. n : v[k] \in 0 .. MaxU64,
         NEW W, IsSatFold(W, v, n)
  PROVE  \A k \in 1 .. n : v[k] <= W[1 .. n]
  <1> DEFINE U == 1 .. n
             D == 0 .. MaxU64
             P == {m \in Nat : \A T \in SUBSET U : Cardinality(T) = m =>
                                 W[T] \in D /\ \A k \in T : v[k] <= W[T]}
  <1>1. IsFiniteSet(U) /\ U \in SUBSET U /\ 0 \in D /\ D \subseteq Nat
    BY GreatestIs, Settings
  <1>2. 0 \in P
    <2> SUFFICES ASSUME NEW T \in SUBSET U, Cardinality(T) = 0
                 PROVE  W[T] \in D /\ T = {}
      OBVIOUS
    <2>1. T = {}
      BY <1>1, FS_EmptySet, FS_Subset
    <2> QED
      BY <1>1, <2>1 DEF IsSatFold
  <1>3. ASSUME NEW m \in Nat, m \in P PROVE m + 1 \in P
    <2> SUFFICES ASSUME NEW T \in SUBSET U, Cardinality(T) = m + 1
                 PROVE  W[T] \in D /\ \A k \in T : v[k] <= W[T]
      OBVIOUS
    <2> DEFINE g == Greatest(T)
               R == T \ {g}
    <2>1. IsFiniteSet(T) /\ T # {}
      <3>1. IsFiniteSet(T)
        BY <1>1, FS_Subset
      <3> QED
        BY <3>1, FS_EmptySet
    <2>2. g \in T /\ R \in SUBSET U
      BY <2>1, GreatestIs
    <2>3. Cardinality(R) = m
      <3>1. Cardinality(R) = (m + 1) - 1
        BY <2>1, <2>2, OneLess
      <3> QED
        BY <3>1
    <2>4. W[R] \in D /\ \A x \in R : v[x] <= W[R]
      BY <1>3, <2>2, <2>3
    <2>5. W[T] = S!SatAdd(W[R], v[g]) /\ v[g] \in D
      BY <2>1, <2>2 DEF IsSatFold
    <2> DEFINE a == v[g]
               d == W[R]
    <2>6. a \in D /\ d \in D
      BY <2>4, <2>5
    <2> HIDE DEF a, d
    <2>7. S!SatAdd(d, a) \in D /\ d <= S!SatAdd(d, a) /\ a <= S!SatAdd(d, a)
      BY <2>6, SatFoldStep
    <2>8. W[T] = S!SatAdd(d, a)
      BY <2>5 DEF a, d
    <2>9. W[T] \in D /\ d <= W[T] /\ a <= W[T]
      BY <2>7, <2>8
    <2>10. ASSUME NEW k \in T PROVE v[k] <= W[T]
      <3>1. CASE k = g
        BY <2>9, <3>1 DEF a
      <3>2. CASE k # g
        <4>1. v[k] <= d
          BY <2>4, <3>2 DEF d
        <4>2. v[k] \in Nat /\ d \in Nat /\ W[T] \in Nat
          BY <1>1, <2>6, <2>9
        <4> HIDE DEF U, D, P
        <4> QED
          BY <2>9, <4>1, <4>2
      <3> QED
        BY <3>1, <3>2
    <2> QED
      BY <2>9, <2>10
  <1>4. Cardinality(U) \in P
    <2> HIDE DEF P
    <2> QED
      BY <1>1, <1>2, <1>3, NatSetInduction, FS_CardinalityType
  <1> QED
    BY <1>1, <1>4

HeapsTyped == arena.heaps \in Seq([size : 0 .. MaxU64, mprotect_size : 0 .. MaxU64])

SizeTable(W, hs) ==
  W = [T \in SUBSET DOMAIN hs |->
         IF T = {} THEN 0 ELSE S!SatAdd(W[T \ {Greatest(T)}], hs[Greatest(T)].size)]

CommitTable(W, hs) ==
  W = [T \in SUBSET DOMAIN hs |->
         IF T = {} THEN 0 ELSE S!SatAdd(W[T \ {Greatest(T)}], hs[Greatest(T)].mprotect_size)]

LEMMA HeapsRight ==
  ASSUME HeapsTyped
  PROVE  S!HeapTotalsCover(Entry, arena.heaps)
  <1> DEFINE hs == arena.heaps
             n == Len(hs)
             sizes == [k \in 1 .. n |-> hs[k].size]
             commits == [k \in 1 .. n |-> hs[k].mprotect_size]
             sizeTable == CHOOSE W : SizeTable(W, hs)
             commitTable == CHOOSE W : CommitTable(W, hs)
  <1>1. n \in Nat /\ DOMAIN hs = 1 .. n
    BY DEF HeapsTyped
  <1>2. \A k \in 1 .. n : /\ sizes[k] = hs[k].size /\ sizes[k] \in 0 .. MaxU64
                          /\ commits[k] = hs[k].mprotect_size /\ commits[k] \in 0 .. MaxU64
    <2> DEFINE Heap == [size : 0 .. MaxU64, mprotect_size : 0 .. MaxU64]
    <2> SUFFICES ASSUME NEW k \in 1 .. n PROVE hs[k] \in Heap
      OBVIOUS
    <2>1. hs \in Seq(Heap)
      BY DEF HeapsTyped
    <2> HIDE DEF Heap
    <2> QED
      BY <2>1, ElementOfSeq
  <1>3. /\ Entry.heaps.total_bytes = sizeTable[DOMAIN hs]
        /\ Entry.heaps.committed_bytes = commitTable[DOMAIN hs]
    BY DEF Entry, S!ArenaReport, S!HeapsSummary, S!FoldLeft, S!MapThenFoldSet, S!Max,
           SizeTable, CommitTable, Greatest
  <1> HIDE DEF n, sizes, commits
  <1>4. \A T \in SUBSET (1 .. n) : T # {} => Greatest(T) \in 1 .. n
    BY <1>1, GreatestIs
  <1>5. IsSatFold(sizeTable, sizes, n)
    <2>1. PICK W \in [SUBSET (1 .. n) -> 0 .. MaxU64] : IsSatFold(W, sizes, n)
      BY <1>1, <1>2, SatFoldExists
    <2>2. SizeTable(W, hs)
      BY <1>1, <1>2, <1>4, <2>1 DEF SizeTable, IsSatFold
    <2>3. SizeTable(sizeTable, hs)
      BY <2>2
    <2> HIDE DEF sizeTable
    <2> QED
      BY <1>1, <1>2, <1>4, <2>3 DEF SizeTable, IsSatFold
  <1>6. IsSatFold(commitTable, commits, n)
    <2>1. PICK W \in [SUBSET (1 .. n) -> 0 .. MaxU64] : IsSatFold(W, commits, n)
      BY <1>1, <1>2, SatFoldExists
    <2>2. CommitTable(W, hs)
      BY <1>1, <1>2, <1>4, <2>1 DEF CommitTable, IsSatFold
    <2>3. CommitTable(commitTable, hs)
      BY <2>2
    <2> HIDE DEF commitTable
    <2> QED
      BY <1>1, <1>2, <1>4, <2>3 DEF CommitTable, IsSatFold
  <1> HIDE DEF sizeTable, commitTable
  <1>7. /\ \A k \in 1 .. n : sizes[k] <= sizeTable[1 .. n]
        /\ \A k \in 1 .. n : commits[k] <= commitTable[1 .. n]
    BY <1>1, <1>2, <1>5, <1>6, SatFoldCovers
  <1> QED
    BY <1>1, <1>2, <1>3, <1>7 DEF S!HeapTotalsCover

-----------------------------------------------------------------------------
(* A healthy arena.                                                        *)

(* The chunks in use that are in no tcache and in none of the first n      *)
(* fastbins.                                                               *)
MembersTo(n) == UNION {arena.fastbins[b].members : b \in 1 .. n}

LeftAt(n) == {e \in AllocatedSet : arena.events[e].user_addr \notin MembersTo(n)}

MovedBy(b) == {e \in AllocatedSet : arena.events[e].user_addr \in arena.fastbins[b].members}

(* They are what is still counted as allocated when n fastbins are moved.  *)
Counts(left, allocatedTally, freeTally) ==
  /\ allocatedTally.count = Cardinality(left)
  /\ \A s \in Sizes : /\ allocatedTally.histogram[s] = Cardinality(left \cap OfSize(s))
                      /\ freeTally.histogram[s] = Cardinality(OfSize(s) \ left)

HealthySoFar ==
  S!IsHealthy /\ pc # "events" =>
    /\ inconsistent = {}
    /\ i <= Len(arena.fastbins) + 1
    /\ pc = "done" => i = Len(arena.fastbins) + 1
    /\ Counts(LeftAt(i - 1), allocated, free)

LEMMA TakeAway ==
  ASSUME NEW U, IsFiniteSet(U), NEW T \in SUBSET U
  PROVE  /\ Cardinality(U) \in Nat /\ Cardinality(T) \in Nat /\ Cardinality(T) <= Cardinality(U)
         /\ Cardinality(U \ T) = Cardinality(U) - Cardinality(T)
         /\ IsFiniteSet(U \ T) /\ IsFiniteSet(T)
  <1>1. U \cap T = T
    OBVIOUS
  <1> QED
    BY <1>1, Part, FS_Difference

(* A healthy fastbin holds as many chunks as it says, all of its size, in  *)
(* use and in no other bin.                                                *)
LEMMA HealthyBin ==
  ASSUME StatsTypes, S!IsHealthy, NEW b \in DOMAIN arena.fastbins
  PROVE  /\ Cardinality(MovedBy(b)) = arena.fastbins[b].count /\ IsFiniteSet(MovedBy(b))
         /\ MovedBy(b) \subseteq OfSize(S!IndexToSize(arena.fastbins[b].index))
         /\ MovedBy(b) \subseteq LeftAt(b - 1)
         /\ LeftAt(b) = LeftAt(b - 1) \ MovedBy(b)
  <1> DEFINE M == arena.fastbins[b].members
             E == MovedBy(b)
             size == S!IndexToSize(arena.fastbins[b].index)
             AddrOf == [e \in E |-> arena.events[e].user_addr]
  <1>1. b \in Nat \ {0} /\ \A c \in 1 .. b : c \in DOMAIN arena.fastbins
    BY ArenaFacts
  <1>2. /\ arena.fastbins[b].count = Cardinality(M)
        /\ \A p \in M : /\ p \notin DOMAIN membership
                        /\ \E e \in DOMAIN arena.events :
                             /\ S!ChunksAt(p) = {e}
                             /\ arena.events[e].in_use
                             /\ arena.events[e].user_size = size
        /\ \A c \in DOMAIN arena.fastbins :
             b # c => M \cap arena.fastbins[c].members = {}
    BY SameCardinality DEF S!IsHealthy
  <1>3. E \in SUBSET DOMAIN arena.events
    BY DEF MovedBy, AllocatedSet
  <1>4. IsFiniteSet(E)
    BY <1>3, UptoAll
  <1>5. \A e \in E : arena.events[e].user_addr \in M /\ e \in S!ChunksAt(arena.events[e].user_addr)
    BY DEF MovedBy, AllocatedSet, S!ChunksAt
  <1>6. \A p \in M : \E e \in E : arena.events[e].user_addr = p
    <2> SUFFICES ASSUME NEW p \in M PROVE \E e \in E : arena.events[e].user_addr = p
      OBVIOUS
    <2>1. PICK e \in DOMAIN arena.events : S!ChunksAt(p) = {e} /\ arena.events[e].in_use
      BY <1>2
    <2>2. arena.events[e].user_addr = p
      BY <2>1 DEF S!ChunksAt
    <2> QED
      BY <1>2, <2>1, <2>2 DEF MovedBy, AllocatedSet
  <1>7. AddrOf \in Bijection(E, M)
    <2>1. AddrOf \in [E -> M]
      BY <1>5
    <2>2. \A e, d \in E : AddrOf[e] = AddrOf[d] => e = d
      <3> SUFFICES ASSUME NEW e \in E, NEW d \in E,
                          arena.events[e].user_addr = arena.events[d].user_addr
                   PROVE  e = d
        OBVIOUS
      <3>1. PICK x : S!ChunksAt(arena.events[e].user_addr) = {x}
        BY <1>2, <1>5
      <3> QED
        BY <1>5, <3>1
    <2>3. \A p \in M : \E e \in E : AddrOf[e] = p
      BY <1>6
    <2> QED
      BY <2>1, <2>2, <2>3 DEF Bijection, Injection, Surjection, IsInjective
  <1>8. Cardinality(M) = Cardinality(E)
    <2>1. ExistsBijection(E, M)
      BY <1>7 DEF ExistsBijection
    <2> QED
      BY <1>4, <2>1, FS_Bijection
  <1>9. E \subseteq OfSize(size)
    <2> SUFFICES ASSUME NEW e \in E PROVE arena.events[e].user_size = size
      BY <1>3 DEF OfSize
    <2>1. PICK x : S!ChunksAt(arena.events[e].user_addr) = {x} /\ arena.events[x].user_size = size
      BY <1>2, <1>5
    <2> QED
      BY <1>5, <2>1
  <1>10. E \subseteq LeftAt(b - 1)
    <2> SUFFICES ASSUME NEW e \in E, NEW c \in 1 .. b - 1,
                        arena.events[e].user_addr \in arena.fastbins[c].members
                 PROVE  FALSE
      BY DEF LeftAt, MembersTo, MovedBy
    <2>1. c \in DOMAIN arena.fastbins /\ b # c
      BY <1>1
    <2> QED
      BY <1>2, <1>5, <2>1
  <1>11. LeftAt(b) = LeftAt(b - 1) \ E
    <2>1. 1 .. b = (1 .. b - 1) \cup {b}
      BY <1>1
    <2>2. MembersTo(b) = MembersTo(b - 1) \cup M
      BY <2>1 DEF MembersTo
    <2> QED
      BY <2>2 DEF LeftAt, MovedBy
  <1> QED
    BY <1>2, <1>4, <1>8, <1>9, <1>10, <1>11

LEMMA HealthyStep ==
  ASSUME TlsInv, StatsTypes, CountedEvents, HealthySoFar, S!Next
  PROVE  HealthySoFar'
  <1>1. arena' = arena /\ membership' = membership /\ SetsKept /\ N' = N
    BY StatsTypeStep, KeepSets
  <1>2. /\ S!IsHealthy' <=> S!IsHealthy
        /\ LeftAt(i - 1)' = LeftAt(i' - 1)
        /\ Counts(LeftAt(i - 1), allocated, free)'
             <=> Counts(LeftAt(i' - 1), allocated', free')
    <2>1. S!IsHealthy' <=> S!IsHealthy
      BY <1>1 DEF S!IsHealthy, S!ChunksAt
    <2>2. LeftAt(i - 1)' = LeftAt(i' - 1)
      BY <1>1 DEF LeftAt, MembersTo, SetsKept
    <2>3. \A s : OfSize(s)' = OfSize(s)
      BY <1>1 DEF SetsKept
    <2> QED
      BY <2>1, <2>2, <2>3 DEF Counts
  <1>3. /\ N \in Nat /\ N <= MaxU64 /\ MaxU64 \in Nat /\ i \in Nat \ {0}
        /\ Len(arena.fastbins) \in Nat
    BY ArenaFacts, Settings DEF StatsTypes
  <1>4. allocated \in S!SizeTally /\ free \in S!SizeTally
    BY DEF StatsTypes
  <1>5. SUFFICES ASSUME S!IsHealthy, pc' # "events"
                 PROVE  /\ inconsistent' = {}
                        /\ i' <= Len(arena.fastbins) + 1
                        /\ pc' = "done" => i' = Len(arena.fastbins) + 1
                        /\ Counts(LeftAt(i' - 1), allocated', free')
    BY <1>1, <1>2 DEF HealthySoFar
  <1>6. CASE S!EventsDone
    <2>1. i - 1 = N /\ pc = "events"
      <3>1. i > N /\ i <= N + 1 /\ pc = "events"
        BY <1>6 DEF S!EventsDone, CountedEvents, N
      <3> QED
        BY <1>3, <3>1
    <2>2. pc' = "fastbins" /\ i' = 1 /\ UNCHANGED <<allocated, free, inconsistent>>
      BY <1>6 DEF S!EventsDone
    <2>3. LeftAt(i' - 1) = AllocatedSet
      <3>1. i' - 1 = 0 /\ 1 .. 0 = {}
        BY <2>2
      <3> QED
        BY <3>1 DEF LeftAt, MembersTo
    <2>4. /\ AllocatedSet \in SUBSET DOMAIN arena.events
          /\ \A s : AllocatedSet \cap OfSize(s) \in SUBSET DOMAIN arena.events
          /\ \A s : FreeSet \cap OfSize(s) \in SUBSET DOMAIN arena.events
          /\ \A s : FreeSet \cap OfSize(s) = OfSize(s) \ AllocatedSet
      BY DEF AllocatedSet, FreeSet, OfSize
    <2>5. /\ inconsistent = {} /\ allocated.count = Upto(AllocatedSet, N)
          /\ \A s \in Sizes : /\ allocated.histogram[s] = Upto(AllocatedSet \cap OfSize(s), N)
                              /\ free.histogram[s] = Upto(FreeSet \cap OfSize(s), N)
      BY <2>1 DEF CountedEvents
    <2>6. \A C \in SUBSET DOMAIN arena.events : Upto(C, N) = Cardinality(C)
      BY UptoAll
    <2> HIDE DEF AllocatedSet, FreeSet, OfSize
    <2>7. allocated.count = Cardinality(AllocatedSet)
      BY <2>4, <2>5, <2>6
    <2>8. \A s \in Sizes : /\ allocated.histogram[s] = Cardinality(AllocatedSet \cap OfSize(s))
                           /\ free.histogram[s] = Cardinality(OfSize(s) \ AllocatedSet)
      BY <2>4, <2>5, <2>6
    <2>9. Counts(AllocatedSet, allocated, free)
      BY <2>7, <2>8 DEF Counts
    <2>10. Counts(LeftAt(i' - 1), allocated', free')
      BY <2>2, <2>3, <2>9
    <2>11. i' <= Len(arena.fastbins) + 1 /\ pc' # "done"
      BY <1>3, <2>2
    <2> QED
      BY <2>2, <2>5, <2>10, <2>11
  <1>7. CASE S!FastbinsDone
    <2>1. pc = "fastbins" /\ i > Len(arena.fastbins) /\ UNCHANGED <<i, allocated, free, inconsistent>>
      BY <1>7 DEF S!FastbinsDone
    <2>2. Counts(LeftAt(i - 1), allocated, free) /\ inconsistent = {} /\ i <= Len(arena.fastbins) + 1
      BY <1>5, <2>1 DEF HealthySoFar
    <2>3. Counts(LeftAt(i' - 1), allocated', free')
      BY <2>1, <2>2
    <2>4. i' = Len(arena.fastbins) + 1 /\ i' <= Len(arena.fastbins) + 1
      BY <1>3, <2>1, <2>2
    <2> QED
      BY <2>1, <2>2, <2>3, <2>4
  <1>8. CASE S!MoveFastbin \/ S!SkipEmptyFastbin
    <2> DEFINE b == arena.fastbins[i]
               size == S!IndexToSize(b.index)
               n == b.count
               L == LeftAt(i - 1)
               E == MovedBy(i)
    <2>1. /\ pc = "fastbins" /\ pc' = "fastbins" /\ i' = i + 1 /\ i <= Len(arena.fastbins)
          /\ i \in DOMAIN arena.fastbins
      BY <1>3, <1>8, ArenaFacts DEF S!MoveFastbin, S!SkipEmptyFastbin, S!MoreFastbins
    <2>2. size \in Sizes /\ n \in Nat
      BY <2>1, ArenaFacts
    <2>3. /\ Cardinality(E) = n /\ IsFiniteSet(E) /\ E \subseteq OfSize(size)
          /\ E \subseteq L /\ LeftAt(i) = L \ E
      BY <1>5, <2>1, HealthyBin
    <2>4. /\ inconsistent = {} /\ Counts(L, allocated, free)
          /\ allocated.count = Cardinality(L)
          /\ \A s \in Sizes : /\ allocated.histogram[s] = Cardinality(L \cap OfSize(s))
                              /\ free.histogram[s] = Cardinality(OfSize(s) \ L)
      BY <1>5, <2>1 DEF HealthySoFar, Counts
    <2>5. L \in SUBSET DOMAIN arena.events /\ \A s : OfSize(s) \in SUBSET DOMAIN arena.events
      BY DEF LeftAt, AllocatedSet, OfSize
    <2>6. i' - 1 = i /\ LeftAt(i' - 1) = L \ E
      <3>1. i' - 1 = i
        BY <1>3, <2>1
      <3> QED
        BY <2>3, <3>1
    <2>7. S!MoveFastbin => /\ allocated' = S!RemoveN(allocated, size, n)
                           /\ free' = S!AddN(free, size, n)
                           /\ inconsistent' = IF S!Underflows(allocated, size, n)
                                              THEN inconsistent \cup {size} ELSE inconsistent
      BY DEF S!MoveFastbin
    <2>8. ~ S!MoveFastbin => n = 0 /\ UNCHANGED <<allocated, free, inconsistent>>
      BY <1>8 DEF S!SkipEmptyFastbin
    <2> HIDE DEF b, size, n, L, E
    <2>9. /\ IsFiniteSet(L) /\ n <= allocated.count /\ Cardinality(L \ E) = allocated.count - n
          /\ allocated.count \in Nat
      <3>1. IsFiniteSet(L)
        BY <2>5, UptoAll
      <3> QED
        BY <2>3, <2>4, <3>1, TakeAway
    <2>10. ASSUME NEW s \in Sizes
           PROVE  /\ allocated.histogram[s] \in Nat /\ free.histogram[s] \in Nat
                  /\ s # size => /\ (L \ E) \cap OfSize(s) = L \cap OfSize(s)
                                 /\ OfSize(s) \ (L \ E) = OfSize(s) \ L
                  /\ s = size => /\ n <= allocated.histogram[s]
                                 /\ Cardinality((L \ E) \cap OfSize(s)) = allocated.histogram[s] - n
                                 /\ Cardinality(OfSize(s) \ (L \ E)) = free.histogram[s] + n
                                 /\ free.histogram[s] + n <= MaxU64
      <3>1. allocated.histogram[s] \in Nat /\ free.histogram[s] \in Nat
        BY <1>4, HistogramFacts
      <3>2. ASSUME s # size
            PROVE  (L \ E) \cap OfSize(s) = L \cap OfSize(s) /\ OfSize(s) \ (L \ E) = OfSize(s) \ L
        <4>1. OfSize(s) \cap OfSize(size) = {}
          BY <3>2 DEF OfSize
        <4> QED
          BY <2>3, <4>1
      <3>3. ASSUME s = size
            PROVE  /\ n <= allocated.histogram[s]
                   /\ Cardinality((L \ E) \cap OfSize(s)) = allocated.histogram[s] - n
                   /\ Cardinality(OfSize(s) \ (L \ E)) = free.histogram[s] + n
                   /\ free.histogram[s] + n <= MaxU64
        <4> DEFINE C == OfSize(s)
                   K == L \cap C
        <4>1. C \in SUBSET DOMAIN arena.events /\ E \in SUBSET K
          BY <2>3, <2>5, <3>3
        <4>2. IsFiniteSet(C) /\ Cardinality(C) \in Nat /\ Cardinality(C) <= N
          BY <4>1, UptoAll
        <4>3. allocated.histogram[s] = Cardinality(K) /\ free.histogram[s] = Cardinality(C \ L)
          BY <2>4
        <4>4. (L \ E) \cap C = K \ E /\ C \ L = C \ K /\ C \ (L \ E) = C \ (K \ E)
          BY <4>1
        <4>5. K \in SUBSET C /\ (K \ E) \in SUBSET C
          OBVIOUS
        <4> HIDE DEF C, K
        <4>6. /\ Cardinality(C \ K) = Cardinality(C) - Cardinality(K)
              /\ Cardinality(K) \in Nat /\ Cardinality(K) <= Cardinality(C) /\ IsFiniteSet(K)
          BY <4>2, <4>5, TakeAway
        <4>7. Cardinality(K \ E) = Cardinality(K) - n /\ n <= Cardinality(K)
          BY <2>3, <4>1, <4>6, TakeAway
        <4>8. Cardinality(C \ (K \ E)) = Cardinality(C) - Cardinality(K \ E)
          BY <4>2, <4>5, TakeAway
        <4>9. /\ Cardinality(C \ (K \ E)) = Cardinality(C \ K) + n
              /\ Cardinality(C \ K) + n <= MaxU64
          BY <1>3, <2>2, <4>2, <4>6, <4>7, <4>8
        <4> QED
          BY <4>3, <4>4, <4>7, <4>9 DEF C, K
      <3> QED
        BY <3>1, <3>2, <3>3
    <2>11. i' <= Len(arena.fastbins) + 1 /\ pc' # "done"
      BY <1>3, <2>1
    <2>12. CASE S!MoveFastbin
      <3>1. inconsistent' = {}
        <4> DEFINE x == allocated.histogram[size]
        <4>1. x \in Nat /\ n <= x
          BY <2>2, <2>10
        <4> HIDE DEF x
        <4>2. ~ (x < n) /\ ~ (allocated.count < n)
          BY <2>2, <2>9, <4>1
        <4>3. ~ S!Underflows(allocated, size, n)
          BY <4>2 DEF S!Underflows, x
        <4> QED
          BY <2>4, <2>7, <2>12, <4>3
      <3>2. allocated'.count = Cardinality(L \ E)
        <4>1. allocated'.count = S!SatSub(allocated.count, n)
          BY <1>4, <2>2, <2>7, <2>12, RemoveNIs
        <4> QED
          BY <2>2, <2>9, <4>1, SatSubIs
      <3>3. ASSUME NEW s \in Sizes
            PROVE  /\ allocated'.histogram[s] = Cardinality((L \ E) \cap OfSize(s))
                   /\ free'.histogram[s] = Cardinality(OfSize(s) \ (L \ E))
        <4>1. /\ allocated'.histogram[s] = IF s = size THEN S!SatSub(allocated.histogram[s], n)
                                           ELSE allocated.histogram[s]
              /\ free'.histogram[s] = IF s = size THEN S!SatAdd(free.histogram[s], n)
                                      ELSE free.histogram[s]
          BY <1>4, <2>2, <2>7, <2>12, AddNIs, RemoveNIs
        <4>2. CASE s = size
          <5> DEFINE x == allocated.histogram[s]
                     y == free.histogram[s]
          <5>1. /\ x \in Nat /\ y \in Nat /\ n <= x /\ y + n <= MaxU64
                /\ Cardinality((L \ E) \cap OfSize(s)) = x - n
                /\ Cardinality(OfSize(s) \ (L \ E)) = y + n
            BY <2>10, <4>2
          <5>2. allocated'.histogram[s] = S!SatSub(x, n) /\ free'.histogram[s] = S!SatAdd(y, n)
            BY <4>1, <4>2
          <5> HIDE DEF x, y
          <5>3. S!SatSub(x, n) = x - n /\ S!SatAdd(y, n) = y + n
            BY <2>2, <5>1, SatAddIs, SatSubIs
          <5> QED
            BY <5>1, <5>2, <5>3
        <4>3. CASE s # size
          BY <2>4, <2>10, <4>1, <4>3
        <4> QED
          BY <4>2, <4>3
      <3>4. Counts(L \ E, allocated', free')
        BY <3>2, <3>3 DEF Counts
      <3> QED
        BY <2>6, <2>11, <3>1, <3>4
    <2>13. CASE ~ S!MoveFastbin
      <3>1. n = 0 /\ UNCHANGED <<allocated, free, inconsistent>>
        BY <2>8, <2>13
      <3>2. E = {}
        BY <2>3, <3>1, FS_EmptySet
      <3>3. L \ E = L
        BY <3>2
      <3>4. Counts(LeftAt(i' - 1), allocated', free')
        BY <2>4, <2>6, <3>1, <3>3
      <3> QED
        BY <2>4, <2>11, <3>1, <3>4
    <2> QED
      BY <2>12, <2>13
  <1> QED
    <2>1. ASSUME S!CountParked \/ S!CountAllocated \/ S!CountFree PROVE FALSE
      BY <1>5, <2>1 DEF S!CountParked, S!CountAllocated, S!CountFree, S!MoreEvents
    <2> QED
      BY <1>6, <1>7, <1>8, <2>1 DEF S!Next

LEMMA HealthyRight ==
  ASSUME StatsTypes, HealthySoFar
  PROVE  HealthyArenaIsCountedRight
  <1> SUFFICES ASSUME pc = "done", S!IsHealthy
               PROVE  /\ inconsistent = {}
                      /\ \A s \in Sizes :
                           /\ allocated.histogram[s] = S!Cardinality(S!LiveChunks(s))
                           /\ free.histogram[s] = S!Cardinality(S!ChunksOf(s)) - S!Cardinality(S!LiveChunks(s))
    BY DEF HealthyArenaIsCountedRight, S!HealthyArenaIsCountedRight
  <1> DEFINE n == Len(arena.fastbins)
             L == LeftAt(n)
  <1>1. /\ inconsistent = {}
        /\ \A s \in Sizes : /\ allocated.histogram[s] = Cardinality(L \cap OfSize(s))
                            /\ free.histogram[s] = Cardinality(OfSize(s) \ L)
    <2>1. i = n + 1 /\ n \in Nat /\ pc # "events"
      BY ArenaFacts DEF HealthySoFar
    <2>2. i - 1 = n
      BY <2>1
    <2> QED
      BY <2>1, <2>2 DEF HealthySoFar, Counts
  <1>2. MembersTo(n) = S!Members
    BY ArenaFacts DEF MembersTo, S!Members
  <1>3. \A s : L \cap OfSize(s) = S!LiveChunks(s) /\ OfSize(s) = S!ChunksOf(s)
    BY <1>2 DEF LeftAt, AllocatedSet, OfSize, S!LiveChunks, S!ChunksOf
  <1> HIDE DEF L
  <1>4. ASSUME NEW s \in Sizes
        PROVE  Cardinality(OfSize(s) \ L) = Cardinality(OfSize(s)) - Cardinality(L \cap OfSize(s))
    <2>1. OfSize(s) \in SUBSET DOMAIN arena.events /\ L \cap OfSize(s) \in SUBSET OfSize(s)
      BY DEF OfSize
    <2>2. IsFiniteSet(OfSize(s))
      BY <2>1, UptoAll
    <2>3. OfSize(s) \ L = OfSize(s) \ (L \cap OfSize(s))
      OBVIOUS
    <2> QED
      BY <2>1, <2>2, <2>3, TakeAway
  <1> QED
    BY <1>1, <1>3, <1>4, SameCardinality

-----------------------------------------------------------------------------
(* The theorems.                                                           *)

(* Before the first event nothing is counted.                              *)
LEMMA EmptyAgrees == Agree(S!EmptyTally)
  <1> DEFINE h == S!EmptyTally.histogram
             w == Weights(h)
  <1>1. \A s \in Sizes : s \in Nat /\ h[s] = 0
    BY EmptyTallyIs, Settings
  <1>2. \A s \in Sizes : w[s] = 0
    BY <1>1 DEF Weights
  <1> HIDE DEF h, w
  <1>3. {} \in SUBSET Sizes /\ IsFiniteSet(Sizes) /\ \A s \in Sizes : h[s] \in Nat /\ w[s] \in Nat
    BY <1>1, <1>2, Settings
  <1>4. Total(h, Sizes) = Total(h, {}) /\ Total(w, Sizes) = Total(w, {})
    BY <1>1, <1>2, <1>3, TotalNonzero
  <1>5. Total(h, {}) = 0 /\ Total(w, {}) = 0
    BY TotalEmpty
  <1> QED
    BY <1>4, <1>5, EmptyTallyIs DEF Agree, h, w

LEMMA StartRight ==
  StatsTypes /\ Start =>
    /\ CountedEvents /\ CountedTcache /\ ParkingSoFar
    /\ TotalsSoFar /\ ShownSoFar /\ HealthySoFar
  <1> SUFFICES ASSUME StatsTypes, Start
               PROVE  /\ CountedEvents /\ CountedTcache /\ ParkingSoFar
                      /\ TotalsSoFar /\ ShownSoFar /\ HealthySoFar
    OBVIOUS
  <1>1. /\ pc = "events" /\ i = 1 /\ i - 1 = 0 /\ allocated = S!EmptyTally /\ free = S!EmptyTally
        /\ tcacheThreads = {} /\ DOMAIN tcacheCounts = {} /\ shown = <<>> /\ DOMAIN shown = {}
        /\ inconsistent = {}
    BY DEF Start
  <1>2. \A C : Upto(C, 0) = 0
    BY UptoIs
  <1>3. N \in Nat /\ MaxU64 \in Nat
    BY ArenaFacts, Settings
  <1>4. CountedEvents
    BY <1>1, <1>2, <1>3, EmptyTallyIs DEF CountedEvents
  <1>5. \A f : Total(f, {}) = 0
    BY TotalEmpty
  <1>6. CountedTcache
    <2>1. \A b \in Nat : TcacheCount(b) = 0
      BY <1>1 DEF TcacheCount
    <2>2. IsFiniteSet({}) /\ Cardinality({}) = 0
      BY FS_EmptySet
    <2>3. free.count = 0 /\ 0 <= MaxU64
      BY <1>1, <1>3, EmptyTallyIs
    <2> QED
      BY <1>1, <1>2, <1>5, <2>1, <2>2, <2>3 DEF CountedTcache
  <1>7. TotalsSoFar
    <2>1. allocated.bytes = 0 /\ allocated.count = 0 /\ free.count = 0 /\ 0 <= MaxU64
      BY <1>1, <1>3, EmptyTallyIs
    <2>2. 1 .. 0 = {}
      OBVIOUS
    <2>3. Total(SizeOf, 1 .. i - 1) = 0
      BY <1>1, <1>5, <2>2
    <2>4. Agree(allocated) /\ Agree(free)
      BY <1>1, EmptyAgrees
    <2> QED
      BY <1>1, <2>1, <2>3, <2>4 DEF TotalsSoFar
  <1>8. ShownSoFar
    <2>1. free.count = 0
      BY <1>1, EmptyTallyIs
    <2> QED
      BY <1>1, <1>5, <2>1 DEF ShownSoFar
  <1>9. HealthySoFar
    BY <1>1 DEF HealthySoFar
  <1>10. ParkingSoFar
    <2>1. 1 .. 0 = {}
      OBVIOUS
    <2>2. OwnerThreads(i - 1) = {}
      BY <1>1, <2>1 DEF OwnerThreads
    <2> QED
      BY <1>1, <2>2 DEF ParkingSoFar
  <1> QED
    BY <1>4, <1>6, <1>7, <1>8, <1>9, <1>10

StatsInv ==
  /\ StatsTypes
  /\ HeapsTyped
  /\ Idle
  /\ CountedEvents
  /\ CountedTcache
  /\ ParkingSoFar
  /\ TotalsSoFar
  /\ ShownSoFar
  /\ HealthySoFar

LEMMA TlsPassFirst ==
  ASSUME TlsInv, Next
  PROVE  ~ Done
  <1>1. thread <= Len(proc.threads)
    BY DEF Next, NullTp, HasTp, BindArena, ReadTcache, HeadUnreadable, WalkBin, EndThread, Busy
  <1> QED
    BY <1>1, TlsFacts DEF Done

LEMMA StatsInvStep ==
  ASSUME TlsRight, StatsInv, [AccountingNext]_accountingVars
  PROVE  StatsInv'
  <1>1. TlsInv
    BY DEF TlsRight
  <1>2. CASE ResolveTls
    <2>1. Start
      BY <1>1, <1>2, TlsPassFirst DEF ResolveTls, StatsInv, Idle
    <2>2. UNCHANGED <<arena, pc, i, allocated, free, tcacheThreads, tcacheCounts, shown, inconsistent>>
      BY <1>2 DEF ResolveTls, statsVars
    <2>3. Start' /\ Idle'
      BY <2>1, <2>2 DEF Start, Idle, S!EmptyTally
    <2>4. StatsTypes' /\ HeapsTyped'
      BY <2>2 DEF StatsInv, StatsTypes, HeapsTyped, S!IsArena, S!SizeTally
    <2>5. (StatsTypes /\ Start =>
             /\ CountedEvents /\ CountedTcache /\ ParkingSoFar
             /\ TotalsSoFar /\ ShownSoFar /\ HealthySoFar)'
      BY StartRight, PTL
    <2> QED
      BY <2>3, <2>4, <2>5 DEF StatsInv
  <1>3. CASE Accumulate
    <2>1. S!Next /\ Done /\ UNCHANGED <<proc, thread>>
      BY <1>3 DEF Accumulate
    <2>2. StatsTypes' /\ arena' = arena
      BY <1>1, <2>1, StatsTypeStep DEF StatsInv
    <2>3. HeapsTyped'
      BY <2>2 DEF StatsInv, HeapsTyped
    <2>4. Idle'
      BY <2>1 DEF Idle, Done
    <2>5. CountedEvents' /\ CountedTcache'
      BY <1>1, <2>1, CountedEventsStep, CountedTcacheStep DEF StatsInv
    <2>6. TotalsSoFar' /\ ShownSoFar'
      BY <1>1, <2>1, TotalsStep, ShownStep DEF StatsInv
    <2>7. HealthySoFar' /\ ParkingSoFar'
      BY <1>1, <2>1, HealthyStep, ParkingStep DEF StatsInv
    <2> QED
      BY <2>2, <2>3, <2>4, <2>5, <2>6, <2>7 DEF StatsInv
  <1>4. CASE UNCHANGED accountingVars
    <2>1. /\ UNCHANGED <<proc, thread, membership>>
          /\ UNCHANGED <<arena, pc, i, allocated, free, tcacheThreads, tcacheCounts, shown, inconsistent>>
      BY <1>4 DEF accountingVars, vars, statsVars
    <2>2. /\ ParkedSet' = ParkedSet /\ AllocatedSet' = AllocatedSet /\ FreeSet' = FreeSet
          /\ \A s : OfSize(s)' = OfSize(s)
          /\ \A b : OfBin(b)' = OfBin(b)
          /\ N' = N
      BY <2>1, KeepSets DEF SetsKept
    <2>3. StatsTypes' /\ HeapsTyped' /\ Idle'
      BY <2>1 DEF StatsInv, StatsTypes, HeapsTyped, S!IsArena, S!SizeTally, Idle, Start, S!EmptyTally, Done
    <2>4. CountedEvents'
      BY <2>1, <2>2 DEF StatsInv, CountedEvents
    <2>5. CountedTcache'
      <3>1. \A b : TcacheCount(b)' = TcacheCount(b)
        BY <2>1 DEF TcacheCount
      <3> QED
        BY <2>1, <2>2, <3>1 DEF StatsInv, CountedTcache
    <2>6. TotalsSoFar'
      <3>1. SizeOf' = SizeOf /\ S!WalkedBytes' = S!WalkedBytes
        BY <2>1 DEF SizeOf, S!WalkedBytes
      <3>2. Agree(free)' <=> Agree(free)
        BY <2>1 DEF Agree
      <3>3. Agree(allocated)' <=> Agree(allocated)
        BY <2>1 DEF Agree
      <3> QED
        BY <2>1, <2>2, <3>1, <3>2, <3>3 DEF StatsInv, TotalsSoFar
    <2>7. ShownSoFar'
      BY <2>1 DEF StatsInv, ShownSoFar, CountsShown
    <2>8. HealthySoFar'
      <3>1. S!IsHealthy' <=> S!IsHealthy
        BY <2>1 DEF S!IsHealthy, S!ChunksAt
      <3>2. LeftAt(i - 1)' = LeftAt(i - 1)
        BY <2>1, <2>2 DEF LeftAt, MembersTo
      <3>3. Counts(LeftAt(i - 1), allocated, free)' <=> Counts(LeftAt(i - 1), allocated, free)
        BY <2>1, <2>2, <3>2 DEF Counts
      <3> QED
        BY <2>1, <3>1, <3>3 DEF StatsInv, HealthySoFar
    <2>9. ParkingSoFar'
      <3>1. \A n : OwnerThreads(n)' = OwnerThreads(n)
        BY <2>1, <2>2 DEF OwnerThreads
      <3>2. \A s, n : MovedTo(s, n)' = MovedTo(s, n)
        BY <2>1 DEF MovedTo, CountOf, BinsTo
      <3> QED
        BY <2>1, <2>2, <3>1, <3>2 DEF StatsInv, ParkingSoFar
    <2> QED
      BY <2>3, <2>4, <2>5, <2>6, <2>7, <2>8, <2>9 DEF StatsInv
  <1> QED
    BY <1>2, <1>3, <1>4 DEF AccountingNext

LEMMA StatsInvInit == AccountingInit => StatsInv
  <1> SUFFICES ASSUME AccountingInit PROVE StatsInv
    OBVIOUS
  <1>1. StatsTypes /\ Idle
    BY StatsInit
  <1>2. Start
    BY DEF AccountingInit, S!Init, Start
  <1>3. HeapsTyped
    <2>1. arena \in Arenas
      BY DEF AccountingInit, S!Init
    <2> QED
      BY <2>1, AccountingAssumption DEF HeapsTyped
  <1> QED
    BY <1>1, <1>2, <1>3, StartRight DEF StatsInv

LEMMA StatsAlwaysRight == AccountingSpec => []StatsInv
  <1>1. TlsRight /\ StatsInv /\ [AccountingNext]_accountingVars => StatsInv'
    BY StatsInvStep
  <1> QED
    BY <1>1, StatsInvInit, TlsAlwaysRight, PTL DEF AccountingSpec

(* The states of both parts have their types, whatever is read and counted *)
(* (resolve_tls, accumulate).                                              *)
THEOREM AccountingTypeCorrect == AccountingSpec => []TypesOK
  <1>1. TlsRight /\ StatsInv => TypesOK
    <2> SUFFICES ASSUME TlsRight, StatsInv PROVE TypesOK
      OBVIOUS
    <2>1. TlsInv /\ TypeOK
      BY DEF TlsRight, TlsInv
    <2>2. \A a \in DOMAIN membership : membership[a] \in [thread : Nat, bin : Nat]
      BY <2>1, MembershipTyped
    <2> QED
      BY <2>1, <2>2 DEF TypesOK, S!TypeOK, StatsInv, StatsTypes
  <1> QED
    BY <1>1, TlsAlwaysRight, StatsAlwaysRight, PTL

(* The tcache part of an arena is made of its parked chunks, each under    *)
(* the thread and the bin of its first owner, and what is free of a size   *)
(* is what the bits and the tcaches make free, each chunk once, and the    *)
(* counts of the fastbins (accumulate).                                    *)
THEOREM ParkedChunksAreCountedOnce == AccountingSpec => []TcacheCountedOnce
  <1>1. TlsRight /\ OneOwnerPerChunk /\ StatsInv => TcacheCountedOnce
    BY TcacheRight DEF TlsRight, StatsInv
  <1> QED
    BY <1>1, TlsAlwaysRight, EveryChunkHasOneOwner, StatsAlwaysRight, PTL

(* The numbers of an arena add up while they are counted, and those of the *)
(* finished entry do row by row, as long as no counter saturated and no    *)
(* underflow was reported (SizeTally, ArenaReport::build).                 *)
THEOREM EntriesAddUp == AccountingSpec => []ReportAddsUp
  <1>1. StatsInv => ReportAddsUp
    <2> SUFFICES ASSUME StatsInv PROVE ReportAddsUp
      OBVIOUS
    <2>1. StatsTypes /\ CountedTcache /\ TotalsSoFar /\ ShownSoFar /\ HeapsTyped
      BY DEF StatsInv
    <2>2. S!Agrees(free) <=> Agree(free)
      BY <2>1, AgreesIs DEF StatsTypes
    <2>3. S!Agrees(allocated) <=> Agree(allocated)
      BY <2>1, AgreesIs DEF StatsTypes
    <2>4. S!TotalsAgree
      BY <2>1, <2>2, <2>3 DEF S!TotalsAgree, TotalsSoFar, S!OverheadCount, N
    <2> QED
      BY <2>1, <2>4, EntryRight, HeapsRight DEF ReportAddsUp
  <1> QED
    BY <1>1, StatsAlwaysRight, PTL

(* On an arena whose fastbins hold what they say, the two histograms are   *)
(* exact when the last fastbin is moved, and no underflow is reported      *)
(* (accumulate, remove_n).                                                 *)
THEOREM HealthyArenasAreCountedRight == AccountingSpec => []HealthyArenaIsCountedRight
  <1>1. StatsInv => HealthyArenaIsCountedRight
    BY HealthyRight DEF StatsInv
  <1> QED
    BY <1>1, StatsAlwaysRight, PTL
=============================================================================
