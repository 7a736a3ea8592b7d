---------------------------- MODULE DmaIndexProofs ----------------------------
(***************************************************************************)
(* The position arithmetic of both ring buffers, for every buffer size.    *)
(***************************************************************************)
EXTENDS DmaIndex, TLAPS

-------------------------------------------------------------------------------
(* Arithmetic. *)

LEMMA CapPositive == Cap \in Nat /\ Cap >= 2
  BY CapAssumption

\* The facts about division by Cap that as_index and advance rest on.
LEMMA Division ==
  ASSUME NEW a \in Nat
  PROVE  /\ a % Cap \in 0 .. Cap - 1
         /\ a \div Cap \in Nat
         /\ a = (a \div Cap) * Cap + (a % Cap)
  BY CapPositive, SMT

\* Below two passes the quotient is 0 or 1.
LEMMA ShortDivision ==
  ASSUME NEW a \in 0 .. 2 * Cap - 1
  PROVE  /\ a < Cap => a \div Cap = 0 /\ a % Cap = a
         /\ a >= Cap => a \div Cap = 1 /\ a % Cap = a - Cap
  BY CapPositive, SMT

\* Multiplying by Cap keeps a distance of whole passes.
LEMMA Passes ==
  ASSUME NEW a \in Int
  PROVE  /\ a * Cap \in Int
         /\ a = 0 => a * Cap = 0
         /\ a >= 1 => a * Cap >= Cap
         /\ a >= 2 => a * Cap >= 2 * Cap
         /\ a <= -1 => a * Cap <= -Cap
         /\ a = 1 => a * Cap = Cap
         /\ (a + 1) * Cap = a * Cap + Cap
  BY CapPositive, SMT

-------------------------------------------------------------------------------
(* The index operators keep the type of an index. *)

LEMMA SyncType ==
  ASSUME NEW ix \in Index, NEW n \in Nat, NEW r \in 0 .. Cap
  PROVE  /\ dma_sync(ix, n, r) \in Index
         /\ dma_sync(ix, n, r).pos \in 0 .. Cap
  BY CapPositive DEF dma_sync, Index

LEMMA AdvanceType ==
  ASSUME NEW ix \in Index, NEW n \in Nat
  PROVE  /\ advance(ix, n) \in Index
         /\ advance(ix, n).pos \in 0 .. Cap - 1
  <1> DEFINE a == ix.pos + n
  <1>1. a \in Nat
    BY DEF Index
  <1>2. a % Cap \in 0 .. Cap - 1 /\ a \div Cap \in Nat
    BY <1>1, Division
  <1>3. ix.complete_count + (a \div Cap) \in Nat /\ a % Cap \in Nat
    BY <1>2, CapPositive DEF Index
  <1> HIDE DEF a
  <1>4. advance(ix, n) = [complete_count |-> ix.complete_count + (a \div Cap),
                          pos |-> a % Cap]
    BY DEF advance, a
  <1>5. QED
    BY <1>2, <1>3, <1>4 DEF Index

LEMMA LowerType ==
  ASSUME NEW l \in Index, NEW r \in Index
  PROVE  /\ Lower(l, MinCount(l, r)) \in Index
         /\ Lower(r, MinCount(l, r)) \in Index
         /\ Lower(l, MinCount(l, r)).pos = l.pos
         /\ Lower(r, MinCount(l, r)).pos = r.pos
         /\ diff(Lower(l, MinCount(l, r)), Lower(r, MinCount(l, r))) = diff(l, r)
         /\ diff(l, r) \in Int
  <1>1. /\ Lower(l, MinCount(l, r)) \in Index
        /\ Lower(r, MinCount(l, r)) \in Index
        /\ Lower(l, MinCount(l, r)).pos = l.pos
        /\ Lower(r, MinCount(l, r)).pos = r.pos
    BY DEF Lower, MinCount, Index
  <1>2. ASSUME NEW m \in Nat
        PROVE  diff(Lower(l, m), Lower(r, m)) = diff(l, r)
    <2>1. ASSUME NEW c \in Int PROVE (c - m) * Cap = c * Cap - m * Cap
      BY CapPositive, SMT
    <2>2. /\ l.complete_count \in Int /\ l.pos \in Int
          /\ r.complete_count \in Int /\ r.pos \in Int
      BY DEF Index
    <2>3. /\ Lower(l, m).complete_count = l.complete_count - m
          /\ Lower(r, m).complete_count = r.complete_count - m
          /\ Lower(l, m).pos = l.pos
          /\ Lower(r, m).pos = r.pos
      BY DEF Lower, Index
    <2>4. /\ l.complete_count * Cap \in Int
          /\ r.complete_count * Cap \in Int
          /\ m * Cap \in Int
      BY <2>2, CapPositive
    <2>5. /\ (l.complete_count - m) * Cap = l.complete_count * Cap - m * Cap
          /\ (r.complete_count - m) * Cap = r.complete_count * Cap - m * Cap
      BY <2>1, <2>2
    <2>6. QED
      BY <2>2, <2>3, <2>4, <2>5 DEF diff
  <1>3. MinCount(l, r) \in Nat
    BY DEF MinCount, Index
  <1>4. diff(l, r) \in Int
    BY Passes DEF diff, Index
  <1>5. QED
    BY <1>1, <1>2, <1>3, <1>4


\* Advancing the read index by n elements brings it n elements closer.
LEMMA AdvanceDiff ==
  ASSUME NEW l \in Index, NEW r \in Index, NEW n \in Nat
  PROVE  diff(l, advance(r, n)) = diff(l, r) - n
  <1> DEFINE a == r.pos + n
             q == a \div Cap
             m == a % Cap
  <1>1. r.pos \in Nat /\ r.complete_count \in Nat /\ a \in Nat
    BY DEF Index
  <1>2. m \in Nat /\ q \in Nat /\ r.pos + n = q * Cap + m
    <2> HIDE DEF a
    <2>1. /\ a % Cap \in 0 .. Cap - 1 /\ a \div Cap \in Nat
          /\ a = (a \div Cap) * Cap + (a % Cap)
      BY <1>1, Division
    <2>2. a = r.pos + n
      BY DEF a
    <2>3. QED
      BY <2>1, <2>2, CapPositive
  <1>3. (r.complete_count + q) * Cap = r.complete_count * Cap + q * Cap
    BY <1>1, <1>2, CapPositive, SMT
  <1>4. /\ advance(r, n).complete_count = r.complete_count + q
        /\ advance(r, n).pos = m
    BY DEF advance
  <1>5. /\ r.complete_count * Cap \in Int /\ q * Cap \in Int
        /\ l.complete_count * Cap \in Int /\ l.pos \in Int
    BY <1>1, <1>2, CapPositive DEF Index
  <1> HIDE DEF a, q, m
  <1>6. QED
    BY <1>1, <1>2, <1>3, <1>4, <1>5 DEF diff

===============================================================================
