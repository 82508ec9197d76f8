--------------------------- MODULE ReservedBytes ---------------------------
(***************************************************************************)
(* The relay and the receiver each keep a counter of the bytes they have   *)
(* promised to holders of a reservation.  Their models write the sum of    *)
(* the reservations as the number of elements of a set, with one element   *)
(* per holder and byte; this module proves how that number changes, and    *)
(* that a table with a cap stays within it.                                *)
(***************************************************************************)
EXTENDS Naturals, FiniteSets, FiniteSetTheorems, TLAPS

(* The bytes reserved by the holders in S, with f[i] bytes for holder i.     *)
Bytes(S, f) == UNION {{i} \X (1..f[i]) : i \in S}

LEMMA BytesMember ==
    ASSUME NEW S, NEW f, NEW p
    PROVE  p \in Bytes(S, f) <=> \E i \in S : \E b \in 1..f[i] : p = <<i, b>>
BY DEF Bytes

(* One holder has as many bytes as it reserved.                              *)
LEMMA BytesOfOne ==
    ASSUME NEW i, NEW n \in Nat
    PROVE  IsFiniteSet({i} \X (1..n)) /\ Cardinality({i} \X (1..n)) = n
<1> DEFINE A == {i}
           B == 1..n
<1>1. IsFiniteSet(A) /\ Cardinality(A) = 1
  BY FS_Singleton
<1>2. IsFiniteSet(B) /\ Cardinality(B) = n
  BY FS_Interval
<1> HIDE DEF A, B
<1>3. IsFiniteSet(A \X B) /\ Cardinality(A \X B) = Cardinality(A) * Cardinality(B)
  BY <1>1, <1>2, FS_Product, Zenon
<1>4. Cardinality(A) * Cardinality(B) = n
  BY <1>1, <1>2
<1> QED BY <1>3, <1>4 DEF A, B

(* A holder that joins adds its bytes to the sum.                            *)
LEMMA BytesAdded ==
    ASSUME NEW S, NEW f, IsFiniteSet(Bytes(S, f)), NEW T, NEW g, NEW i,
           i \notin S, T = S \cup {i}, \A j \in S : g[j] = f[j], g[i] \in Nat
    PROVE  /\ IsFiniteSet(Bytes(T, g))
           /\ Cardinality(Bytes(T, g)) = Cardinality(Bytes(S, f)) + g[i]
<1> DEFINE A == Bytes(S, f)
           B == {i} \X (1..g[i])
<1>1. Bytes(T, g) = A \cup B
  BY DEF Bytes
<1>2. A \cap B = {}
  BY BytesMember
<1>3. IsFiniteSet(B) /\ Cardinality(B) = g[i]
  BY BytesOfOne
<1>4. Cardinality(A) \in Nat
  BY FS_CardinalityType
<1> HIDE DEF A, B
<1>a. IsFiniteSet(A)
  BY DEF A
<1>5. /\ IsFiniteSet(A \cup B)
      /\ Cardinality(A \cup B) = Cardinality(A) + Cardinality(B) - Cardinality(A \cap B)
  BY <1>a, <1>3, FS_Union
<1>6. Cardinality(A \cap B) = 0
  BY <1>2, FS_EmptySet
<1>7. Cardinality(A \cup B) = Cardinality(A) + g[i]
  BY <1>3, <1>4, <1>5, <1>6
<1>8. Cardinality(Bytes(T, g)) = Cardinality(A) + g[i] /\ IsFiniteSet(Bytes(T, g))
  BY <1>1, <1>5, <1>7
<1> QED BY <1>8 DEF A

(* A holder that leaves takes exactly its bytes with it.                     *)
LEMMA BytesRemoved ==
    ASSUME NEW S, NEW f, IsFiniteSet(Bytes(S, f)), NEW T, NEW g, NEW i,
           i \in S, T = S \ {i}, \A j \in T : g[j] = f[j], f[i] \in Nat
    PROVE  /\ IsFiniteSet(Bytes(T, g))
           /\ Cardinality(Bytes(S, f)) = Cardinality(Bytes(T, g)) + f[i]
           /\ Cardinality(Bytes(T, g)) \in Nat
<1>1. Bytes(T, g) \in SUBSET Bytes(S, f)
  BY DEF Bytes
<1>2. IsFiniteSet(Bytes(T, g))
  BY <1>1, FS_Subset
<1>3. i \notin T /\ S = T \cup {i} /\ \A j \in T : f[j] = g[j]
  OBVIOUS
<1>4. Cardinality(Bytes(S, f)) = Cardinality(Bytes(T, g)) + f[i]
  BY <1>2, <1>3, BytesAdded
<1> QED BY <1>2, <1>4, FS_CardinalityType

(* The sum changes by as much as the reservation of the one holder that      *)
(* changes it.                                                               *)
LEMMA BytesChanged ==
    ASSUME NEW S, NEW f, IsFiniteSet(Bytes(S, f)), NEW g, NEW i \in S,
           \A j \in S \ {i} : g[j] = f[j], f[i] \in Nat, g[i] \in Nat
    PROVE  /\ IsFiniteSet(Bytes(S, g))
           /\ Cardinality(Bytes(S, f)) \in Nat /\ Cardinality(Bytes(S, g)) \in Nat
           /\ f[i] <= Cardinality(Bytes(S, f))
           /\ Cardinality(Bytes(S, g)) = Cardinality(Bytes(S, f)) - f[i] + g[i]
<1> DEFINE T == S \ {i}
<1>1. /\ IsFiniteSet(Bytes(T, f)) /\ Cardinality(Bytes(T, f)) \in Nat
      /\ Cardinality(Bytes(S, f)) = Cardinality(Bytes(T, f)) + f[i]
  BY BytesRemoved
<1>2. i \notin T /\ S = T \cup {i} /\ \A j \in T : g[j] = f[j]
  OBVIOUS
<1>3. /\ IsFiniteSet(Bytes(S, g))
      /\ Cardinality(Bytes(S, g)) = Cardinality(Bytes(T, f)) + g[i]
  BY <1>1, <1>2, BytesAdded
<1> QED BY <1>1, <1>3

(* Nothing is reserved.                                                      *)
LEMMA BytesNone ==
    ASSUME NEW S, NEW f, \A i \in S : f[i] = 0
    PROVE  IsFiniteSet(Bytes(S, f)) /\ Cardinality(Bytes(S, f)) = 0
<1>1. Bytes(S, f) = {}
  BY BytesMember
<1> QED BY <1>1, FS_EmptySet

(* A table only grows by the one entry its guard has room for.               *)
LEMMA TableGrows ==
    ASSUME NEW S, NEW T, NEW x, IsFiniteSet(S), T \subseteq S \cup {x}, NEW N \in Nat,
           Cardinality(S) <= N, ~(Cardinality(S) >= N)
    PROVE  IsFiniteSet(T) /\ Cardinality(T) <= N
<1>1. /\ IsFiniteSet(S \cup {x}) /\ Cardinality(S) \in Nat
      /\ Cardinality(S \cup {x}) = Cardinality(S) \/ Cardinality(S \cup {x}) = Cardinality(S) + 1
  BY FS_AddElement, FS_CardinalityType
<1>2. IsFiniteSet(T) /\ Cardinality(T) <= Cardinality(S \cup {x}) /\ Cardinality(T) \in Nat
  BY <1>1, FS_Subset, FS_CardinalityType
<1> QED BY <1>1, <1>2

(* A table that only shrinks stays within its cap.                           *)
LEMMA TableShrinks ==
    ASSUME NEW S, NEW T, IsFiniteSet(S), T \subseteq S, NEW N \in Nat, Cardinality(S) <= N
    PROVE  IsFiniteSet(T) /\ Cardinality(T) <= N
<1>1. /\ IsFiniteSet(T) /\ Cardinality(T) <= Cardinality(S)
      /\ Cardinality(T) \in Nat /\ Cardinality(S) \in Nat
  BY FS_Subset, FS_CardinalityType
<1> QED BY <1>1
=============================================================================
