--------------------------- MODULE SlotPool_proofs ---------------------------
(***************************************************************************)
(* A pool never lends more slots than it has, for every set of jobs and    *)
(* workers and every size.                                                 *)
(***************************************************************************)
EXTENDS SlotPool, FiniteSetTheorems, TLAPS

\* A slot taken is one more slot lent, and there was one left.
LEMMA TakeBounded ==
    ASSUME IsFiniteSet(Jobs), Size \in Nat, owner \in [Jobs -> Workers \cup {None}],
           NEW w \in Workers, NEW j \in Jobs, Take(w, j)
    PROVE  owner' \in [Jobs -> Workers \cup {None}] /\ Bounded'
<1>1. owner' = [owner EXCEPT ![j] = w] /\ Cardinality(Lent) < Size
  BY DEF Take
<1>2. Lent' \subseteq Lent \cup {j}
  BY <1>1 DEF Lent
<1>3. IsFiniteSet(Lent)
  BY FS_Subset DEF Lent
<1>4. IsFiniteSet(Lent \cup {j}) /\ Cardinality(Lent \cup {j}) <= Cardinality(Lent) + 1
  <2>1. PICK L : L = Lent
    OBVIOUS
  <2>2. Cardinality(L) \in Nat
    BY <1>3, <2>1, FS_CardinalityType
  <2>3. /\ IsFiniteSet(L \cup {j})
        /\ Cardinality(L \cup {j}) = IF j \in L THEN Cardinality(L) ELSE Cardinality(L) + 1
    BY <1>3, <2>1, FS_AddElement
  <2> QED
    BY <2>1, <2>2, <2>3
<1>5. IsFiniteSet(Lent') /\ Cardinality(Lent') <= Cardinality(Lent \cup {j})
  BY <1>2, <1>4, FS_Subset
<1> QED
  BY <1>1, <1>3, <1>4, <1>5, FS_CardinalityType DEF Bounded

\* Slots that come back leave no more lent than before.
LEMMA ReturnBounded ==
    ASSUME IsFiniteSet(Jobs), Size \in Nat, owner \in [Jobs -> Workers \cup {None}], Bounded,
           NEW S \in SUBSET Jobs, Return(S)
    PROVE  owner' \in [Jobs -> Workers \cup {None}] /\ Bounded'
<1>1. owner' \in [Jobs -> Workers \cup {None}] /\ Lent' \subseteq Lent
  BY DEF Return, Lent
<1>2. IsFiniteSet(Lent)
  BY FS_Subset DEF Lent
<1>3. IsFiniteSet(Lent') /\ Cardinality(Lent') <= Cardinality(Lent)
  BY <1>1, <1>2, FS_Subset
<1> QED
  BY <1>1, <1>2, <1>3, FS_CardinalityType DEF Bounded

\* A pool of a finite set of jobs never lends more slots than it has.
THEOREM SlotsBounded ==
    ASSUME IsFiniteSet(Jobs), Size \in Nat
    PROVE  Spec => []Bounded
<1> DEFINE Inv == owner \in [Jobs -> Workers \cup {None}] /\ Bounded
<1>1. Init => Inv
  <2> SUFFICES ASSUME Init PROVE Inv
    OBVIOUS
  <2>1. Lent = {}
    BY DEF Init, Lent
  <2> QED
    BY <2>1, FS_EmptySet DEF Init, Bounded
<1>2. Inv /\ [Next]_owner => Inv'
  <2> SUFFICES ASSUME Inv, [Next]_owner PROVE Inv'
    OBVIOUS
  <2>1. CASE UNCHANGED owner
    BY <2>1 DEF Bounded, Lent
  <2>2. CASE Next
    BY <2>2, TakeBounded, ReturnBounded DEF Next
  <2> QED
    BY <2>1, <2>2
<1> QED
  BY <1>1, <1>2, PTL DEF Spec

=============================================================================
