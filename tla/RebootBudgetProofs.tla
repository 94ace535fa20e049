-------------------------- MODULE RebootBudgetProofs --------------------------
(* The specification of the rate limit keeps what it is there to promise.   *)
EXTENDS RebootBudget, FiniteSetTheorems, TLAPS

BudgetInv ==
    /\ spent \subseteq Request
    /\ IsFiniteSet(spent)
    /\ WithinBudget

(* A request is issued: the windows of the earlier requests do not reach   *)
(* it, and its own had room for it.                                        *)
LEMMA IssueKeepsBudget ==
    ASSUME Limit \in Nat, Span \in Int, Times \subseteq Int,
           BudgetInv, NEW r \in Request, Issue(r)
    PROVE  BudgetInv'
<1>1. spent' = spent \union {r} /\ r.at \in Int /\ \A s \in spent : s.at \in Int /\ s.at < r.at
  BY DEF BudgetInv, Issue, Request
<1>2. spent' \subseteq Request
  BY <1>1 DEF BudgetInv
<1>3. IsFiniteSet(spent')
  BY <1>1, FS_AddElement DEF BudgetInv
<1>4. ASSUME NEW q \in spent', q.auto
      PROVE  Cardinality({s \in spent' : s.at >= q.at - Span /\ s.at <= q.at}) <= Limit
  <2> DEFINE W  == {s \in spent : s.at >= q.at - Span}
             W2 == {s \in spent' : s.at >= q.at - Span /\ s.at <= q.at}
  <2>1. CASE q \in spent
    <3>1. W2 = {s \in W : s.at <= q.at}
      BY <1>1, <2>1
    <3>2. Cardinality({s \in InWindow(q.at) : s.at <= q.at}) <= Limit
      BY <1>4, <2>1 DEF BudgetInv, WithinBudget
    <3> QED
      BY <3>1, <3>2 DEF InWindow
  <2>2. CASE q = r
    <3>1. IsFiniteSet(W) /\ Cardinality(W) < Limit
      BY <1>4, <2>2, FS_Subset DEF BudgetInv, Issue, InWindow
    <3>2. IsFiniteSet(W \union {r}) /\ Cardinality(W \union {r}) <= Cardinality(W) + 1
      <4> HIDE DEF W
      <4>1. Cardinality(W) \in Nat
        BY <3>1, FS_CardinalityType
      <4>2. /\ IsFiniteSet(W \union {r})
            /\ Cardinality(W \union {r}) = IF r \in W THEN Cardinality(W) ELSE Cardinality(W) + 1
        BY <3>1, FS_AddElement
      <4> QED
        BY <4>1, <4>2
    <3>3. W2 \subseteq W \union {r}
      BY <1>1
    <3>4. Cardinality(W2) <= Limit
      <4> HIDE DEF W, W2
      <4>1. Cardinality(W2) <= Cardinality(W \union {r}) /\ IsFiniteSet(W2)
        BY <3>2, <3>3, FS_Subset
      <4>2. /\ Cardinality(W) \in Nat
            /\ Cardinality(W2) \in Nat
            /\ Cardinality(W \union {r}) \in Nat
        BY <3>1, <3>2, <4>1, FS_CardinalityType
      <4> QED
        BY <3>1, <3>2, <4>1, <4>2
    <3> QED
      BY <3>4
  <2> QED
    BY <1>1, <2>1, <2>2
<1>5. WithinBudget'
  BY <1>4 DEF WithinBudget, InWindow
<1> QED
  BY <1>2, <1>3, <1>5 DEF BudgetInv

(* Whatever implements RebootBudget keeps the limit: no window that ends   *)
(* with an automated request holds more than Limit of them.                *)
THEOREM BudgetIsKept ==
    ASSUME Limit \in Nat, Span \in Int, Times \subseteq Int
    PROVE  Spec => []WithinBudget
<1>1. Init => BudgetInv
  BY FS_EmptySet DEF Init, BudgetInv, WithinBudget
<1>2. BudgetInv /\ [Next]_spent => BudgetInv'
  <2>1. ASSUME BudgetInv, NEW r \in Request, Issue(r) PROVE BudgetInv'
    BY <2>1, IssueKeepsBudget
  <2>2. ASSUME BudgetInv, UNCHANGED spent PROVE BudgetInv'
    BY <2>2 DEF BudgetInv, WithinBudget, InWindow
  <2> QED
    BY <2>1, <2>2 DEF Next
<1>3. BudgetInv => WithinBudget
  BY DEF BudgetInv
<1> QED
  BY <1>1, <1>2, <1>3, PTL DEF Spec
=============================================================================
