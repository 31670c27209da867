------------------------- MODULE TokenBucketProofs -------------------------
(***************************************************************************)
(* Facts about the arithmetic of a bucket that the proofs about the shared *)
(* bucket and about the connection limiter rest on.                        *)
(***************************************************************************)
EXTENDS TokenBucket, TLAPS

\* Whatever a round draws, a negative count included, zeroTime ends up above
\* what it was by at least as much, and above a bucket full at any earlier time
\* by at least as much; and it is not in the future of the time of the call if
\* no more was drawn than the balance (TokenBucketStorage::consume).
LEMMA DrawBounds ==
  ASSUME NEW z \in Int, NEW d \in Int, NEW n \in Nat, NEW f \in Nat, f <= n
  PROVE  /\ Balance(z, n) \in Int
         /\ Debited(z, d, n) \in Int
         /\ Balance(z, n) >= d => Debited(z, d, n) <= Rate * n
         /\ Debited(z, d, n) >= z + d
         /\ FullStartZeroTime(f) \in Int
         /\ Debited(z, d, n) >= FullStartZeroTime(f) + d
<1> DEFINE filled == Rate * n - z
<1>1. Rate \in Nat /\ Capacity \in Nat
  BY BucketAssumption
<1>2. /\ Rate * n \in Int
      /\ Rate * f \in Int
      /\ Rate * f <= Rate * n
  BY <1>1
<1>3. Balance(z, n) = IF filled < Capacity THEN filled ELSE Capacity
  BY DEF Balance
<1>4. Debited(z, d, n) = Rate * n - (Balance(z, n) - d)
  BY DEF Debited
<1>5. FullStartZeroTime(f) = Rate * f - Capacity
  BY DEF FullStartZeroTime
<1> HIDE DEF filled
<1>6. filled \in Int /\ filled = Rate * n - z
  BY <1>2 DEF filled
<1>7. Balance(z, n) \in Int /\ Balance(z, n) <= filled /\ Balance(z, n) <= Capacity
  BY <1>1, <1>3, <1>6
<1> QED
  BY <1>1, <1>2, <1>4, <1>5, <1>6, <1>7

\* A balance is a whole number of tokens, as zeroTime is.
LEMMA BalanceIsInteger ==
  ASSUME NEW z \in Int, NEW n \in Nat
  PROVE  Balance(z, n) \in Int
<1>1. Rate * n \in Int /\ Capacity \in Nat
  BY BucketAssumption
<1> QED
  BY <1>1 DEF Balance

\* A debit that is affordable leaves a zeroTime that is not in the future of
\* the time of the call, is above what it was by at least the cost, and is
\* above a bucket full at any earlier time by at least the cost
\* (TokenBucketStorage::consume).
LEMMA DebitBounds ==
  ASSUME NEW z \in Int, NEW c \in Nat, NEW n \in Nat, NEW f \in Nat,
         f <= n, Affordable(z, c, n)
  PROVE  /\ Debited(z, c, n) \in Int
         /\ Debited(z, c, n) <= Rate * n
         /\ Debited(z, c, n) >= z + c
         /\ Debited(z, c, n) >= FullStartZeroTime(f) + c
<1>1. Balance(z, n) >= c
  BY DEF Affordable
<1> QED
  BY <1>1, DrawBounds

\* A bucket in debt cannot pay a cost that is not negative (the early return
\* of BasicDynamicTokenBucket::consume).
LEMMA DebtRefuses ==
  ASSUME NEW z \in Int, NEW c \in Nat, NEW n \in Nat, Balance(z, n) < 0
  PROVE  ~Affordable(z, c, n)
<1>1. Rate * n \in Int /\ Capacity \in Nat
  BY BucketAssumption
<1>2. Balance(z, n) \in Int
  BY <1>1 DEF Balance
<1> QED
  BY <1>2 DEF Affordable

\* The zeroTime of a full bucket and the one tryConsume leaves are integers,
\* and tryConsume never makes a bucket fuller.
LEMMA ConsumeKeepsDebt ==
  ASSUME NEW z \in Int, NEW c \in Nat, NEW n \in Nat
  PROVE  /\ FullStartZeroTime(n) \in Int
         /\ AfterConsume(z, c, n) \in Int
         /\ AfterConsume(z, c, n) >= z
<1>1. Rate * n \in Int /\ Capacity \in Nat
  BY BucketAssumption
<1>2. CASE c > 0 /\ Affordable(z, c, n)
  <2>1. Debited(z, c, n) \in Int /\ Debited(z, c, n) >= z + c
    BY <1>2, DebitBounds
  <2> QED
    BY <1>1, <1>2, <2>1 DEF AfterConsume, FullStartZeroTime
<1>3. CASE ~(c > 0 /\ Affordable(z, c, n))
  BY <1>1, <1>3 DEF AfterConsume, FullStartZeroTime
<1> QED
  BY <1>2, <1>3
=============================================================================
