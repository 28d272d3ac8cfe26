----------------------------- MODULE OnblockProofs -----------------------------
(***************************************************************************)
(* Theorems about what onblock keeps, for every value of the constants.    *)
(*                                                                         *)
(* First the table of blocks (BlockInfo): it never outgrows the window,    *)
(* the blocks of the window that were recorded are in it, and readers are  *)
(* told the truth, whatever onblocks failed.  Then the pay of producers    *)
(* for their blocks (ProducerPay): the books balance, unpaid blocks and    *)
(* shares add up to the sums the contract keeps, and no claim takes the    *)
(* part of another producer.                                               *)
(***************************************************************************)
EXTENDS BlockInfo, ProducerPay, InflationLemmas

(***************************************************************************)
(* Least and greatest heights.                                             *)
(***************************************************************************)
(* A table with a row has a highest row, and Latest is it. *)
LEMMA LatestIsHighest ==
  ASSUME NEW S, S \subseteq Nat, S # {}, NEW n \in Nat, \A x \in S : x <= n
  PROVE  \E m \in S : \A x \in S : x <= m
<1> DEFINE Above == {k \in Nat : \A x \in S : x <= k}
<1>1. n \in Above
  OBVIOUS
<1>2. PICK m \in Above : \A k \in Above : m <= k
  BY <1>1, HasLowest
<1>3. m \in S
  <2>1. SUFFICES ASSUME m \notin S PROVE FALSE
    OBVIOUS
  <2>2. \A x \in S : x <= m - 1
    BY <1>2, <2>1
  <2>3. m - 1 \in Nat
    <3>1. PICK x \in S : x <= m - 1
      BY <2>2
    <3>2. x \in Nat /\ m \in Nat
      BY <1>2
    <3> QED
      BY <3>1, <3>2
  <2> QED
    BY <1>2, <2>2, <2>3
<1> QED
  BY <1>2, <1>3

(***************************************************************************)
(* The inductive invariant: besides what the theorems say, a block is      *)
(* recorded once, and every row has the time of its block.                 *)
(***************************************************************************)
RecordedOnce == \A r, q \in recorded : r[1] = q[1] => r = q
RowsAreTrue == \A h \in table : <<h, timestamp[h]>> \in recorded
BlockInfoInv == BlockTypeOK /\ Bounded /\ RecordedOnce /\ RowsAreTrue /\ RecentKept

(* What pruning never takes and what it leaves. *)
LEMMA WindowIsKept ==
  ASSUME NEW S, NEW h \in Nat, NEW x \in S, x \in Nat, h < x + Window, 1 <= x
  PROVE  x \in Pruned(S, h)
BY BlockInfoAssumption DEF Pruned, TwoLowest, Prunable, LastPrunable, Larger

(* Recording a block and pruning leave no more rows than the window has. *)
LEMMA PruningBounds ==
  ASSUME NEW T, NEW n \in Nat, T \subseteq 1 .. n, Cardinality(T) <= Window
  PROVE  Cardinality(Pruned(T \cup {n + 1}, n + 1)) <= Window
<1> DEFINE S == T \cup {n + 1}
           P == Prunable(S, n + 1)
<1>1. S \subseteq 1 .. n + 1 /\ IsFiniteSet(1 .. n + 1)
  BY FS_Interval
<1>2. IsFiniteSet(S) /\ IsFiniteSet(T)
  BY <1>1, FS_Subset
<1>3. Pruned(S, n + 1) \subseteq S /\ P \subseteq S /\ P \subseteq Nat
  <2>1. S \subseteq Nat
    BY <1>1
  <2> HIDE DEF S
  <2> QED
    BY <2>1 DEF Pruned, Prunable
<1>4. Cardinality(S) <= Cardinality(T) + 1
      /\ Cardinality(T) \in Nat /\ Cardinality(S) \in Nat
  BY <1>2, FS_AddElement, FS_CardinalityType
<1>5. CASE P = {}
  <2> DEFINE low == LastPrunable(n + 1)
  <2>1. low \in Nat /\ n + 1 - low <= Window /\ low <= n + 1
    BY BlockInfoAssumption DEF LastPrunable, Larger
  <2>2. S \subseteq low + 1 .. n + 1
    BY <1>1, <1>5, <2>1 DEF Prunable
  <2>3. IsFiniteSet(low + 1 .. n + 1) /\ Cardinality(low + 1 .. n + 1) <= Window
    <3>1. low + 1 \in Int /\ n + 1 \in Int
      BY <2>1
    <3>2. Cardinality(low + 1 .. n + 1) = IF low + 1 > n + 1 THEN 0 ELSE n + 1 - (low + 1) + 1
      BY <3>1, FS_Interval
    <3> HIDE DEF low
    <3>3. (IF low + 1 > n + 1 THEN 0 ELSE n + 1 - (low + 1) + 1) <= Window
      BY <2>1, BlockInfoAssumption
    <3> QED
      BY <3>1, <3>2, <3>3, FS_Interval
  <2>4. Pruned(S, n + 1) \subseteq low + 1 .. n + 1
    BY <1>3, <2>2
  <2>5. Cardinality(Pruned(S, n + 1)) <= Cardinality(low + 1 .. n + 1)
        /\ Cardinality(Pruned(S, n + 1)) \in Nat
        /\ Cardinality(low + 1 .. n + 1) \in Nat
    BY <2>3, <2>4, FS_Subset, FS_CardinalityType
  <2> QED
    BY <2>3, <2>5, BlockInfoAssumption
<1>6. CASE P # {}
  <2>1. PICK m \in P : \A x \in P : m <= x
    BY <1>3, <1>6, HasLowest
  <2>2. Earlier(P, m) = {}
    <3> HIDE DEF P
    <3>1. m \in Nat /\ \A x \in P : x \in Nat /\ m <= x
      BY <1>3, <2>1
    <3>2. ~ \E x \in P : x < m
      BY <3>1
    <3> QED
      BY <3>2, Zenon DEF Earlier
  <2>3. Cardinality(Earlier(P, m)) < 2
    BY <2>2, FS_EmptySet
  <2>4. m \in TwoLowest(P)
    BY <2>1, <2>3 DEF TwoLowest
  <2>5. Pruned(S, n + 1) \subseteq S \ {m}
    BY <2>4 DEF Pruned
  <2>6. IsFiniteSet(S \ {m}) /\ Cardinality(S \ {m}) = Cardinality(S) - 1
    BY <1>2, <1>3, <2>1, FS_RemoveElement
  <2>7. Cardinality(Pruned(S, n + 1)) <= Cardinality(S \ {m})
        /\ Cardinality(Pruned(S, n + 1)) \in Nat
    BY <2>5, <2>6, FS_Subset, FS_CardinalityType
  <2> DEFINE pruned == Cardinality(Pruned(S, n + 1))
             left == Cardinality(S \ {m})
             all == Cardinality(S)
             old == Cardinality(T)
  <2>8. /\ all <= old + 1 /\ old <= Window /\ left = all - 1 /\ pruned <= left
        /\ all \in Nat /\ old \in Nat /\ pruned \in Nat /\ Window \in Nat
    BY <1>4, <2>6, <2>7, BlockInfoAssumption
  <2> HIDE DEF pruned, left, all, old
  <2>9. pruned <= Window
    BY ONLY <2>8
  <2> QED
    BY <2>9 DEF pruned
<1> QED
  BY <1>5, <1>6

(* When stale rows wait and the latest block is in the table, recording    *)
(* the next one makes at most one row stale and erases two, or all.        *)
LEMMA PruningLessens ==
  ASSUME NEW T, NEW n \in Nat, T \subseteq 1 .. n,
         NEW old, old = {x \in T : x <= n - Window}, old # {},
         NEW left, left = {x \in Pruned(T \cup {n + 1}, n + 1) : x <= n + 1 - Window}
  PROVE  Cardinality(left) < Cardinality(old)
<1> DEFINE P == Prunable(T \cup {n + 1}, n + 1)
           low == n + 1 - Window
<1>1. /\ Window \in Nat \ {0} /\ T \subseteq Nat
      /\ low \in Nat \ {0} /\ low < n + 1 /\ LastPrunable(n + 1) = low
  <2>1. PICK x \in 1 .. n : x <= n - Window
    OBVIOUS
  <2> QED
    BY <2>1, BlockInfoAssumption DEF LastPrunable, Larger
<1>2. \A x : x \in P <=> x \in T /\ x <= low
  <2>1. \A x : x \in P <=> x \in T \cup {n + 1} /\ x <= low
    BY <1>1, Zenon DEF Prunable
  <2> QED
    BY <1>1, <2>1
<1>3. left = P \ TwoLowest(P)
  <2>1. \A x : x \in left <=>
               x \in T \cup {n + 1} /\ x \notin TwoLowest(P) /\ x <= low
    BY DEF Pruned
  <2> HIDE DEF P, low
  <2>2. ~ (n + 1 <= low)
    BY <1>1
  <2> QED
    BY <1>2, <2>1, <2>2
<1>4. P \subseteq old \cup {low} /\ old \subseteq P /\ P \subseteq Nat
  <2>1. \A x : x \in old <=> x \in T /\ x <= n - Window
    OBVIOUS
  <2>2. \A x \in T : x <= low <=> x <= n - Window \/ x = low
    BY <1>1
  <2> HIDE DEF P, low
  <2> QED
    BY <1>1, <1>2, <2>1, <2>2
<1>5. old \subseteq T
  OBVIOUS
<1> HIDE DEF P, low
<1>6. IsFiniteSet(old) /\ Cardinality(old) \in Nat
  <2>1. IsFiniteSet(1 .. n)
    BY FS_Interval
  <2>2. old \subseteq 1 .. n
    BY <1>5
  <2> QED
    BY <2>1, <2>2, FS_Subset, FS_CardinalityType
<1>7. /\ IsFiniteSet(P) /\ Cardinality(P) \in Nat
      /\ Cardinality(P) <= Cardinality(old) + 1
  <2>1. /\ IsFiniteSet(old \cup {low})
        /\ Cardinality(old \cup {low}) <= Cardinality(old) + 1
        /\ Cardinality(old \cup {low}) \in Nat
    <3>1. /\ IsFiniteSet(old \cup {low})
          /\ Cardinality(old \cup {low})
               = IF low \in old THEN Cardinality(old) ELSE Cardinality(old) + 1
      BY <1>6, FS_AddElement, Zenon
    <3> QED
      BY <1>6, <3>1
  <2>2. /\ IsFiniteSet(P) /\ Cardinality(P) \in Nat
        /\ Cardinality(P) <= Cardinality(old \cup {low})
    BY <1>4, <2>1, FS_Subset, FS_CardinalityType
  <2> QED
    BY <1>6, <2>1, <2>2
<1>8. Cardinality(old) > 0
  BY <1>6, FS_EmptySet
<1>9. PICK m \in P : \A x \in P : m <= x
  BY <1>4, HasLowest
<1>10. m \in TwoLowest(P)
  <2>1. Earlier(P, m) = {}
    <3>1. ~ \E x \in P : x < m
      BY <1>4, <1>9
    <3> QED
      BY <3>1, Zenon DEF Earlier
  <2> QED
    BY <1>9, <2>1, FS_EmptySet DEF TwoLowest
<1>11. IsFiniteSet(P \ {m}) /\ Cardinality(P \ {m}) = Cardinality(P) - 1
  BY <1>7, <1>9, FS_RemoveElement
<1>12. CASE P = {m}
  <2>1. left = {}
    BY <1>3, <1>10, <1>12
  <2> QED
    BY <1>8, <2>1, FS_EmptySet
<1>13. CASE P # {m}
  <2>1. PICK k \in P \ {m} : \A x \in P \ {m} : k <= x
    <3>1. P \ {m} # {} /\ P \ {m} \subseteq Nat
      BY <1>4, <1>9, <1>13
    <3> QED
      BY <3>1, HasLowest
  <2>2. k \in TwoLowest(P)
    <3>1. \A x \in P : x < k => x = m
      BY <1>4, <2>1
    <3>2. Earlier(P, k) \subseteq {m}
      BY <3>1 DEF Earlier
    <3>3. IsFiniteSet({m}) /\ Cardinality({m}) = 1
      BY FS_Singleton
    <3>4. Cardinality(Earlier(P, k)) \in Nat /\ Cardinality(Earlier(P, k)) <= 1
      BY <3>2, <3>3, FS_Subset, FS_CardinalityType
    <3> QED
      BY <2>1, <3>4 DEF TwoLowest
  <2>3. left \subseteq (P \ {m}) \ {k}
    BY <1>3, <1>10, <2>2
  <2>4. /\ IsFiniteSet((P \ {m}) \ {k})
        /\ Cardinality((P \ {m}) \ {k}) = Cardinality(P \ {m}) - 1
    BY <1>11, <2>1, FS_RemoveElement
  <2>5. /\ Cardinality(left) \in Nat
        /\ Cardinality(left) <= Cardinality((P \ {m}) \ {k})
    BY <2>3, <2>4, FS_Subset, FS_CardinalityType
  <2> QED
    BY <1>7, <1>11, <1>6, <2>4, <2>5
<1> QED
  BY <1>12, <1>13

(***************************************************************************)
(* The invariant holds initially and every block preserves it.             *)
(***************************************************************************)
LEMMA BlockInitially == BlockInit => BlockInfoInv
<1>1. ASSUME BlockInit PROVE Cardinality(table) <= Window
  <2>1. Cardinality(table) = 0
    BY <1>1, FS_EmptySet DEF BlockInit
  <2> QED
    BY <2>1, BlockInfoAssumption
<1>2. ASSUME BlockInit PROVE BlockTypeOK /\ RecordedOnce /\ RowsAreTrue /\ RecentKept
  BY <1>2, BlockInfoAssumption
  DEF BlockInit, BlockTypeOK, RecordedOnce, RowsAreTrue, RecentKept, Heights
<1> QED
  BY <1>1, <1>2 DEF BlockInfoInv, Bounded

LEMMA FailedKeepsInv ==
  ASSUME BlockInfoInv, NEW gap \in Gaps, FailedOnblock(gap)
  PROVE  BlockInfoInv'
<1>1. height' \in 0 .. MaxHeight /\ height' = height + 1 /\ height \in Nat
  BY BlockInfoAssumption DEF BlockInfoInv, BlockTypeOK, FailedOnblock, NextBlock
<1>2. BlockTypeOK'
  <2>1. time' \in Nat
    BY BlockInfoAssumption DEF BlockInfoInv, BlockTypeOK, FailedOnblock, NextBlock
  <2>2. 1 .. height \subseteq 1 .. height'
    BY <1>1
  <2> QED
    BY <1>1, <2>1, <2>2 DEF BlockInfoInv, BlockTypeOK, FailedOnblock
<1>3. (Bounded /\ RecordedOnce /\ RowsAreTrue /\ RecentKept)'
  BY DEF BlockInfoInv, Bounded, RecordedOnce, RowsAreTrue, RecentKept, FailedOnblock
<1> QED
  BY <1>2, <1>3 DEF BlockInfoInv

LEMMA RecordingKeepsInv ==
  ASSUME BlockInfoInv, NEW gap \in Gaps, SucceededOnblock(gap)
  PROVE  BlockInfoInv'
<1> DEFINE h == height + 1
           new == <<h, time'>>
<1>1. /\ height \in Nat /\ h \in 1 .. MaxHeight /\ height' = h
      /\ time' \in Nat
      /\ table' = Pruned(table \cup {h}, h)
      /\ timestamp' = [timestamp EXCEPT ![h] = time']
      /\ recorded' = recorded \cup {new}
  BY BlockInfoAssumption
  DEF BlockInfoInv, BlockTypeOK, SucceededOnblock, NextBlock, add_to_blockinfo_table, NewBlockHeight
<1>2. table \subseteq 1 .. height /\ recorded \subseteq (1 .. height) \X Nat
  BY DEF BlockInfoInv, BlockTypeOK
<1>3. table' \subseteq table \cup {h}
  BY <1>1 DEF Pruned
<1>4. /\ timestamp'[h] = time'
      /\ \A x \in 1 .. height : timestamp'[x] = timestamp[x]
  BY <1>1 DEF BlockInfoInv, BlockTypeOK, Heights
<1>5. BlockTypeOK'
  <2>1. timestamp' \in [Heights -> Nat]
    BY <1>1 DEF BlockInfoInv, BlockTypeOK
  <2>2. recorded' \subseteq (1 .. height') \X Nat
    <3>1. 1 .. height \subseteq 1 .. height' /\ h \in 1 .. height'
      BY <1>1
    <3> QED
      BY <1>1, <1>2, <3>1
  <2>3. table' \subseteq {r[1] : r \in recorded'}
    <3>1. table \subseteq {r[1] : r \in recorded}
      BY DEF BlockInfoInv, BlockTypeOK
    <3>2. new \in recorded' /\ new[1] = h /\ recorded \subseteq recorded'
      BY <1>1
    <3> HIDE DEF new, h
    <3> QED
      BY <1>3, <3>1, <3>2
  <2>4. height' \in 0 .. MaxHeight
    BY <1>1
  <2> QED
    BY <1>1, <2>1, <2>2, <2>3, <2>4 DEF BlockTypeOK
<1>6. Bounded'
  <2>1. Cardinality(table) <= Window
    BY DEF BlockInfoInv, Bounded
  <2> QED
    BY <1>1, <1>2, <2>1, PruningBounds DEF Bounded
<1>7. RecordedOnce'
  <2>1. \A r \in recorded : r[1] # h
    BY <1>1, <1>2
  <2>2. RecordedOnce
    BY DEF BlockInfoInv
  <2>3. new[1] = h
    OBVIOUS
  <2> HIDE DEF new, h
  <2> QED
    BY <1>1, <2>1, <2>2, <2>3 DEF RecordedOnce
<1>8. RowsAreTrue'
  <2>1. \A x \in table : <<x, timestamp'[x]>> \in recorded
    BY <1>2, <1>4 DEF BlockInfoInv, RowsAreTrue
  <2>2. <<h, timestamp'[h]>> \in recorded'
    BY <1>1, <1>4
  <2>3. recorded \subseteq recorded'
    BY <1>1
  <2>4. \A x \in table' : <<x, timestamp'[x]>> \in recorded'
    BY ONLY <1>3, <2>1, <2>2, <2>3
  <2> QED
    BY <2>4 DEF RowsAreTrue
<1>9. RecentKept'
  <2>1. h \in table'
    <3>1. h \in Nat /\ h < h + Window /\ 1 <= h
      BY <1>1, BlockInfoAssumption
    <3> QED
      BY <1>1, <3>1, WindowIsKept
  <2>2. ASSUME NEW r \in recorded, \A x \in table' : x < r[1] + Window
        PROVE  r[1] \in table' /\ timestamp'[r[1]] = r[2]
    <3>1. r[1] \in 1 .. height /\ h < r[1] + Window
      BY <1>2, <2>1, <2>2
    <3>2. \A x \in table : x < r[1] + Window
      BY <1>1, <1>2, <3>1, BlockInfoAssumption
    <3>3. r[1] \in table /\ timestamp[r[1]] = r[2]
      BY <3>2 DEF BlockInfoInv, RecentKept
    <3>4. r[1] \in Pruned(table \cup {h}, h)
      BY <1>1, <3>1, <3>3, WindowIsKept
    <3> QED
      BY <1>1, <1>4, <3>1, <3>3, <3>4
  <2>3. timestamp'[new[1]] = new[2] /\ new[1] = h
    BY <1>4
  <2> HIDE DEF new
  <2> QED
    BY <1>1, <2>1, <2>2, <2>3 DEF RecentKept
<1> QED
  BY <1>5, <1>6, <1>7, <1>8, <1>9 DEF BlockInfoInv

(* The invariant of the table of blocks, over every behaviour.             *)
THEOREM BlockInfoInvariant == BlockSpec => []BlockInfoInv
<1>1. BlockInfoInv /\ [BlockNext]_blockVars => BlockInfoInv'
  <2>1. ASSUME BlockInfoInv, BlockNext PROVE BlockInfoInv'
    BY <2>1, RecordingKeepsInv, FailedKeepsInv DEF BlockNext
  <2>2. ASSUME BlockInfoInv, UNCHANGED blockVars PROVE BlockInfoInv'
    BY <2>2
    DEF blockVars, BlockInfoInv, BlockTypeOK, Bounded, RecordedOnce, RowsAreTrue, RecentKept
  <2> QED
    BY <2>1, <2>2
<1> QED
  BY BlockInitially, <1>1, PTL DEF BlockSpec

(* Every row stands for a block whose onblock succeeded.                   *)
THEOREM BlockTypeCorrect == BlockSpec => []BlockTypeOK
BY BlockInfoInvariant, PTL DEF BlockInfoInv

(* add_to_blockinfo_table erases enough, so that the table never has more  *)
(* rows than the window has blocks, and no row of the window.              *)
THEOREM WindowIsComplete == BlockSpec => []WindowKept
<1>1. BlockInfoInv => WindowKept
  BY DEF BlockInfoInv, WindowKept
<1> QED
  BY <1>1, BlockInfoInvariant, PTL

(***************************************************************************)
(* What readers are told: arithmetic first.                                *)
(***************************************************************************)
(* BatchStart ends the distance from the offset at a multiple of the size. *)
LEMMA StartIsInBatch ==
  ASSUME NEW end \in Nat, NEW offset \in Nat, NEW size \in Nat \ {0}, offset <= end
  PROVE  LET start == BatchStart(end, offset, size)
         IN  /\ start \in Nat /\ offset <= start /\ start <= end
             /\ end < start + size
             /\ \E k \in 0 .. end : start = offset + k * size
<1> DEFINE d == end - offset
           k == d \div size
           m == d % size
<1>1. d \in Nat /\ d <= end
  OBVIOUS
<1> HIDE DEF d
<1>2. k \in Nat /\ m \in Nat /\ m < size /\ d = k * size + m
  BY <1>1
<1> HIDE DEF k, m
<1>3. k <= k * size
  BY <1>2
<1>4. k * size \in Nat
  BY <1>2
<1>5. m <= d /\ k <= d
  BY <1>1, <1>2, <1>3, <1>4
<1>6. BatchStart(end, offset, size) = end - m
  BY DEF BatchStart, m, d
<1>7. end - m = offset + k * size
  BY <1>2, <1>4 DEF d
<1> QED
  BY <1>1, <1>2, <1>4, <1>5, <1>6, <1>7

(* Two batches of a size and an offset with a common block are the same.   *)
LEMMA BatchIsUnique ==
  ASSUME NEW end \in Nat, NEW offset \in Nat, NEW size \in Nat \ {0},
         NEW j \in Nat, NEW k \in Nat,
         offset + j * size <= end, end < offset + j * size + size,
         offset + k * size <= end, end < offset + k * size + size
  PROVE  j = k
<1>1. ASSUME NEW a \in Nat, NEW b \in Nat, a < b
      PROVE  a * size + size <= b * size
  <2>1. PICK c \in Nat : b = a + 1 + c
    <3>1. b - (a + 1) \in Nat /\ b = a + 1 + (b - (a + 1))
      BY <1>1
    <3> QED
      BY <3>1
  <2>2. b * size = a * size + size + c * size
    BY <2>1
  <2>3. c * size \in Nat /\ a * size \in Nat
    BY <2>1
  <2> QED
    BY <2>2, <2>3
<1>2. j * size \in Nat /\ k * size \in Nat
  OBVIOUS
<1>3. ~ (j < k)
  BY <1>1, <1>2
<1>4. ~ (k < j)
  BY <1>1, <1>2
<1> QED
  BY <1>3, <1>4

(* The latest row of a table that is not empty. *)
LEMMA LatestRow ==
  ASSUME BlockTypeOK, table # {}
  PROVE  /\ Latest \in table /\ Latest \in Nat
         /\ \A x \in table : x \in Nat /\ x <= Latest
<1>1. /\ table \subseteq Nat /\ height \in Nat
      /\ \A x \in table : x <= height
  BY BlockInfoAssumption DEF BlockTypeOK
<1>2. \E m \in table : \A x \in table : x <= m
  BY <1>1, LatestIsHighest
<1>3. Latest \in table /\ IsLatest(Latest)
  BY <1>2 DEF Latest, IsLatest
<1> QED
  BY <1>1, <1>3 DEF IsLatest

(* An answer is about the batch of the latest block, with recorded times.  *)
LEMMA AnswersAreTrue ==
  ASSUME BlockInfoInv, NEW offset \in Nat, NEW size \in Nat,
         get_latest_block_batch_info(offset, size).ok
  PROVE  AnswerIsTrue(get_latest_block_batch_info(offset, size), offset, size)
<1> DEFINE start == BatchStart(Latest, offset, size)
           answer == get_latest_block_batch_info(offset, size)
<1>1. size # 0 /\ table # {} /\ ~ (Latest < offset) /\ start \in table
  BY DEF get_latest_block_batch_info, NoAnswer
<1>2. /\ answer.start_height = start /\ answer.start_timestamp = timestamp[start]
      /\ answer.end_height = Latest /\ answer.end_timestamp = timestamp[Latest]
  BY <1>1 DEF get_latest_block_batch_info
<1>3. Latest \in table /\ Latest \in Nat
  BY <1>1, LatestRow DEF BlockInfoInv
<1>4. IsBatch(start, offset, size)
  <2>1. offset <= Latest /\ size \in Nat \ {0}
    BY <1>1, <1>3
  <2> QED
    BY <1>3, <2>1, StartIsInBatch DEF IsBatch
<1>5. /\ <<start, timestamp[start]>> \in recorded
      /\ <<Latest, timestamp[Latest]>> \in recorded
  BY <1>1, <1>3 DEF BlockInfoInv, RowsAreTrue
<1> HIDE DEF start, answer
<1>6. AnswerIsTrue(answer, offset, size)
  BY <1>2, <1>4, <1>5 DEF AnswerIsTrue
<1> QED
  BY <1>6 DEF answer

(* Whoever asks for a batch whose start is within the window is answered.  *)
LEMMA WindowIsAnswered ==
  ASSUME BlockInfoInv, NEW offset \in Nat, NEW size \in Nat,
         Answerable(offset, size)
  PROVE  get_latest_block_batch_info(offset, size).ok
<1> DEFINE start == BatchStart(Latest, offset, size)
<1>1. table # {} /\ size \in Nat \ {0}
  BY DEF Answerable
<1>2. PICK r \in recorded : IsBatch(r[1], offset, size) /\ Latest < r[1] + Window
  BY DEF Answerable
<1>3. /\ Latest \in table /\ Latest \in Nat
      /\ \A x \in table : x \in Nat /\ x <= Latest
  BY <1>1, LatestRow DEF BlockInfoInv
<1>4. r[1] \in Nat
  BY <1>2 DEF BlockInfoInv, BlockTypeOK
<1>5. r[1] \in table
  <2>1. \A x \in table : x < r[1] + Window
    BY <1>2, <1>3, <1>4, BlockInfoAssumption
  <2> QED
    BY <2>1 DEF BlockInfoInv, RecentKept
<1>6. offset <= Latest
  BY <1>2, <1>3, <1>4 DEF IsBatch
<1>7. PICK k \in 0 .. Latest : start = offset + k * size
  BY <1>1, <1>3, <1>6, StartIsInBatch
<1>8. start \in Nat /\ start <= Latest /\ Latest < start + size
  BY <1>1, <1>3, <1>6, StartIsInBatch
<1>9. PICK j \in 0 .. Latest : r[1] = offset + j * size
  BY <1>2 DEF IsBatch
<1>10. j = k
  <2>1. j \in Nat /\ k \in Nat
    BY <1>3
  <2>2. r[1] <= Latest /\ Latest < r[1] + size
    BY <1>2 DEF IsBatch
  <2> HIDE DEF start
  <2> QED
    BY <1>1, <1>3, <1>7, <1>8, <1>9, <2>1, <2>2, BatchIsUnique
<1>11. start \in table
  BY <1>5, <1>7, <1>9, <1>10
<1>12. size # 0 /\ ~ (Latest < offset)
  BY <1>1, <1>3, <1>6
<1> QED
  BY <1>1, <1>11, <1>12 DEF get_latest_block_batch_info

(* get_latest_block_batch_info tells the truth in every state, and answers *)
(* whenever the start of the batch is within the window and was recorded.  *)
THEOREM ReadersToldTheTruth == BlockSpec => []BatchesRight
<1>1. BlockInfoInv => BatchesRight
  <2> SUFFICES ASSUME BlockInfoInv, NEW offset \in Offsets, NEW size \in Sizes
               PROVE  LET answer == get_latest_block_batch_info(offset, size)
                      IN  /\ answer.ok => AnswerIsTrue(answer, offset, size)
                          /\ Answerable(offset, size) => answer.ok
    BY DEF BatchesRight
  <2>1. offset \in Nat /\ size \in Nat
    BY BlockInfoAssumption
  <2> QED
    BY <2>1, AnswersAreTrue, WindowIsAnswered
<1> QED
  BY <1>1, BlockInfoInvariant, PTL

(* Stale rows become fewer with every block that is recorded right after   *)
(* another: CatchesUp, for every length of the window.                     *)
THEOREM TableCatchesUp == BlockSpec => CatchesUp
<1> DEFINE Fewer ==
      table # {} /\ Stale # {} /\ height = Latest /\ recorded' # recorded =>
        Cardinality(Stale') < Cardinality(Stale)
<1>1. ASSUME BlockInfoInv, BlockNext PROVE Fewer
  <2> SUFFICES ASSUME table # {}, Stale # {}, height = Latest, recorded' # recorded
               PROVE  Cardinality(Stale') < Cardinality(Stale)
    OBVIOUS
  <2>1. PICK gap \in Gaps : SucceededOnblock(gap)
    BY <1>1 DEF BlockNext, FailedOnblock
  <2> DEFINE S == table \cup {height + 1}
  <2>2. /\ height \in Nat /\ table \subseteq 1 .. height
        /\ table' = Pruned(S, height + 1)
    <3>1. height \in Nat /\ table \subseteq 1 .. height
      BY <1>1, BlockInfoAssumption DEF BlockInfoInv, BlockTypeOK
    <3> QED
      BY <2>1, <3>1 DEF SucceededOnblock, add_to_blockinfo_table, NewBlockHeight
  <2>3. height \in table
    <3>1. Latest \in table
      BY <1>1, LatestRow DEF BlockInfoInv
    <3> QED
      BY <3>1
  <2>4. Stale = {x \in table : x <= height - Window}
    <3>1. \A h \in table : (\E x \in table : h <= x - Window) <=> h <= height - Window
      BY <2>2, <2>3, BlockInfoAssumption
    <3> QED
      BY <3>1, Zenon DEF Stale
  <2>5. Stale' = {x \in Pruned(S, height + 1) : x <= height + 1 - Window}
    <3>1. /\ Stale' = {h \in Pruned(S, height + 1) :
                        \E x \in Pruned(S, height + 1) : h <= x - Window}
          /\ Pruned(S, height + 1) \subseteq S
      BY <2>2 DEF Stale, Pruned
    <3>2. height + 1 \in Pruned(S, height + 1)
      BY <2>2, WindowIsKept, BlockInfoAssumption
    <3>3. \A x \in S : x \in Nat /\ x <= height + 1
      BY <2>2
    <3> HIDE DEF S
    <3>4. \A h \in S : (\E x \in Pruned(S, height + 1) : h <= x - Window)
                         <=> h <= height + 1 - Window
      BY <2>2, <3>1, <3>2, <3>3, BlockInfoAssumption
    <3> QED
      BY <3>1, <3>4
  <2> QED
    BY <2>2, <2>4, <2>5, PruningLessens
<1>2. BlockInfoInv /\ [BlockNext]_blockVars => [Fewer]_blockVars
  BY <1>1
<1> QED
  BY <1>2, BlockInfoInvariant, PTL DEF BlockSpec, CatchesUp

(***************************************************************************)
(* Who is paid.                                                            *)
(***************************************************************************)
LEMMA OutsidePurses == \A p \in Producers : p \in Holders /\ p \notin Purses
BY InflationAssumption, ProducerPayAssumption

LEMMA VoterKeepsBooks ==
  ASSUME BooksInv, NEW reward \in Incomes, voterclaim(reward)
  PROVE  BooksInv'
<1>1. PICK to \in Users :
        /\ CanPay(fill_buckets.liquid, VotersAccount, to, reward)
        /\ liquid' = Paid(fill_buckets.liquid, VotersAccount, to, reward)
  BY DEF voterclaim
<1>2. to \in Holders \ Purses /\ reward \in Nat /\ VotersAccount # Bpay
  BY InflationAssumption, PursesAre DEF PursesDiffer
<1>3. fill_buckets.perblock \in Nat /\ fill_buckets.voters \in Nat
  BY FilledBooks DEF Balanced
<1>4. /\ reward \in 1 .. fill_buckets.voters
      /\ supply' = fill_buckets.supply /\ perblock' = fill_buckets.perblock
      /\ voters' = fill_buckets.voters - reward
      /\ lastFill' = LastFillAfter /\ now' = now
  BY DEF voterclaim
<1>5. /\ perblock' = fill_buckets.perblock - (IF VotersAccount = Bpay THEN reward ELSE 0)
      /\ perblock' \in Nat /\ voters' \in Nat
  BY <1>2, <1>3, <1>4
<1> QED
  BY <1>1, <1>2, <1>4, <1>5, ClaimKeepsBooks

(***************************************************************************)
(* The rows of producers, over every operation.                            *)
(***************************************************************************)
RowsTypeOK ==
  /\ activated \in BOOLEAN
  /\ registered \subseteq Producers /\ active \subseteq registered
  /\ unpaid \in [Producers -> Nat] /\ totalUnpaid \in Nat
  /\ claimed \in [Producers -> 0 .. now]
  /\ votes \in [Producers -> 0 .. MaxVotes]

SharesTypeOK ==
  /\ hasShare \subseteq registered
  /\ share \in [Producers -> Nat] /\ updated \in [Producers -> 0 .. now]
  /\ totalShare \in Nat /\ totalRate \in Nat /\ totalUpdated \in 0 .. now

PayInv == BooksInv /\ RowsTypeOK /\ SharesTypeOK /\ UnpaidAgree

LEMMA PayInvTypes ==
  ASSUME PayInv
  PROVE  /\ TypeOK /\ BooksInv
         /\ now \in Nat /\ now >= 1 /\ lastFill \in 0 .. now /\ now \in now .. MaxTime
         /\ IsFiniteSet(Producers)
BY InflationAssumption, ProducerPayAssumption
DEF PayInv, BooksInv, RowsTypeOK, SharesTypeOK, InflationTypeOK, TypeOK

LEMMA PayInitially == Init => PayInv
<1> SUFFICES ASSUME Init PROVE PayInv
  OBVIOUS
<1>1. now = 1 /\ MaxVotes \in Nat /\ IsFiniteSet(Producers) /\ Old \subseteq Producers
  BY ProducerPayAssumption DEF Init, InflationInit
<1>2. BooksInv
  BY BooksInitially DEF Init
<1>3. RowsTypeOK
  <2>1. claimed \in [Producers -> 0 .. now]
    <3>1. PICK c \in OldClaims : claimed = [p \in Producers |-> IF p \in Old THEN c ELSE 0]
      BY DEF Init
    <3>2. c \in 0 .. now /\ 0 \in 0 .. now
      BY <1>1, ProducerPayAssumption
    <3>3. \A p \in Producers : (IF p \in Old THEN c ELSE 0) \in 0 .. now
      BY <3>2
    <3> QED
      BY <3>1, <3>3
  <2>2. unpaid \in [Producers -> Nat] /\ totalUnpaid \in Nat
    BY DEF Init
  <2>3. votes \in [Producers -> 0 .. MaxVotes]
    <3>1. 0 \in 0 .. MaxVotes
      BY <1>1
    <3> QED
      BY <3>1 DEF Init
  <2>4. activated \in BOOLEAN /\ registered \subseteq Producers /\ active \subseteq registered
    BY <1>1 DEF Init
  <2> QED
    BY <2>1, <2>2, <2>3, <2>4 DEF RowsTypeOK
<1>4. SharesTypeOK
  BY <1>1 DEF SharesTypeOK, Init
<1>5. UnpaidAgree
  <2>1. unpaid \in [Producers -> Nat] /\ \A p \in Producers : unpaid[p] = 0
    BY DEF Init
  <2>2. Total(unpaid) = 0
    BY <1>1, <2>1, TotalZero
  <2> QED
    BY <2>2 DEF UnpaidAgree, Init
<1> QED
  BY <1>2, <1>3, <1>4, <1>5 DEF PayInv

(* The sums of shares stay natural numbers, whatever is added to them.     *)
LEMMA SumsStayNatural ==
  ASSUME PayInv, NEW more \in Int, NEW rate \in Int, now' = now,
         update_total_votepay_share(more, rate)
  PROVE  totalShare' \in Nat /\ totalRate' \in Nat /\ totalUpdated' \in 0 .. now'
<1>1. /\ totalShare \in Nat /\ totalRate \in Nat /\ totalUpdated \in 0 .. now
      /\ now \in Nat
  BY PayInvTypes DEF PayInv, SharesTypeOK
<1>2. Accrued(totalShare, totalRate, totalUpdated) \in Int
  <2>1. totalRate * (now - totalUpdated) \in Int
    BY <1>1
  <2> QED
    BY <1>1, <2>1 DEF Accrued
<1> QED
  BY <1>1, <1>2 DEF update_total_votepay_share, NotBelow0

LEMMA NewShareType ==
  ASSUME PayInv, NEW p \in Producers
  PROVE  NewShare(p) \in Nat
<1>1. /\ share[p] \in Nat /\ votes[p] \in Nat /\ updated[p] \in 0 .. now /\ now \in Nat
  BY PayInvTypes, ProducerPayAssumption DEF PayInv, RowsTypeOK, SharesTypeOK
<1>2. now - updated[p] \in Nat
  BY <1>1
<1>3. votes[p] * (now - updated[p]) \in Nat
  BY <1>1, <1>2, ProductOfNats
<1> QED
  BY <1>1, <1>3 DEF NewShare, Accrued

LEMMA OnblockKeeps ==
  ASSUME PayInv, NEW p \in Signers, onblock(p)
  PROVE  PayInv'
<1>1. BooksInv'
  <2>1. /\ UNCHANGED <<supply, liquid, perblock, voters>> /\ now' = now
        /\ lastFill' \in {now, lastFill}
    BY DEF onblock
  <2> QED
    BY <2>1, PayInvTypes, SameBooks
<1>2. SharesTypeOK'
  BY DEF onblock, PayInv, SharesTypeOK, shares
<1>3. CASE activated /\ p \in registered
  <2>1. p \in Producers /\ unpaid \in [Producers -> Nat] /\ unpaid[p] \in Nat
    BY <1>3 DEF PayInv, RowsTypeOK
  <2>2. unpaid' = [unpaid EXCEPT ![p] = unpaid[p] + 1] /\ totalUnpaid' = totalUnpaid + 1
    BY <1>3 DEF onblock
  <2>3. unpaid' \in [Producers -> Nat] /\ unpaid'[p] = unpaid[p] + 1
        /\ \A q \in Producers \ {p} : unpaid'[q] = unpaid[q]
    BY <2>1, <2>2
  <2>4. Total(unpaid) \in Nat /\ Total(unpaid') = Total(unpaid) - unpaid[p] + unpaid'[p]
    BY <2>1, <2>3, TotalChange, PayInvTypes
  <2>5. UnpaidAgree'
    BY <2>1, <2>2, <2>3, <2>4 DEF PayInv, UnpaidAgree
  <2>6. RowsTypeOK'
    BY <2>2, <2>3 DEF onblock, PayInv, RowsTypeOK
  <2> QED
    BY <1>1, <1>2, <2>5, <2>6 DEF PayInv
<1>4. CASE ~ (activated /\ p \in registered)
  BY <1>1, <1>2, <1>4 DEF onblock, PayInv, RowsTypeOK, UnpaidAgree
<1> QED
  BY <1>3, <1>4

LEMMA ChangeVotesKeeps ==
  ASSUME PayInv, NEW d \in Changes, ChangeVotes(d)
  PROVE  PayInv'
<1> DEFINE T == DOMAIN d \cap hasShare
           expired == [p \in {q \in T : Expires(q)} |-> NewShare(p)]
           change == [p \in T |-> RateChange(d, p)]
<1>1. /\ T \subseteq Producers /\ \A p \in DOMAIN d : d[p] \in Int /\ p \in Producers
      /\ IsFiniteSet(T) /\ IsFiniteSet({q \in T : Expires(q)})
  <2>1. T \subseteq Producers /\ \A p \in DOMAIN d : d[p] \in Int /\ p \in Producers
    BY ProducerPayAssumption
  <2> QED
    BY <2>1, ProducerPayAssumption, FS_Subset
<1>2. BooksInv'
  BY PayInvTypes, SameBooks DEF ChangeVotes, books
<1>3. RowsTypeOK'
  <2>1. votes' \in [Producers -> 0 .. MaxVotes]
    BY DEF ChangeVotes, PayInv, RowsTypeOK
  <2> QED
    BY <2>1 DEF ChangeVotes, PayInv, RowsTypeOK
<1>4. UnpaidAgree'
  BY DEF ChangeVotes, PayInv, UnpaidAgree
<1>5. Total(expired) \in Nat
  <2>1. expired \in [{q \in T : Expires(q)} -> Nat]
    BY <1>1, NewShareType
  <2> HIDE DEF expired, T
  <2> QED
    BY <1>1, <2>1, TotalType
<1>6. SumOf(change) \in Int
  <2>1. \A p \in T : change[p] \in Int
    BY <1>1, ProducerPayAssumption DEF RateChange, PayInv, RowsTypeOK
  <2>2. DOMAIN change = T
    OBVIOUS
  <2> HIDE DEF change, T
  <2> DEFINE pos == [p \in T |-> NotBelow0(change[p])]
             neg == [p \in T |-> NotBelow0(-change[p])]
  <2>3. pos \in [T -> Nat] /\ neg \in [T -> Nat]
    BY <2>1 DEF NotBelow0
  <2>4. SumOf(change) = Total(pos) - Total(neg)
    BY <2>2 DEF SumOf
  <2> HIDE DEF pos, neg
  <2>5. Total(pos) \in Nat /\ Total(neg) \in Nat
    BY <1>1, <2>3, TotalType
  <2> QED
    BY <2>4, <2>5
<1>7. SharesTypeOK'
  <2>1. update_total_votepay_share(-Total(expired), SumOf(change)) /\ now' = now
    BY DEF ChangeVotes
  <2>2. totalShare' \in Nat /\ totalRate' \in Nat /\ totalUpdated' \in 0 .. now'
    BY <1>5, <1>6, <2>1, SumsStayNatural
  <2>3. share' \in [Producers -> Nat]
    BY NewShareType DEF ChangeVotes, PayInv, SharesTypeOK
  <2>4. updated' \in [Producers -> 0 .. now']
    BY PayInvTypes DEF ChangeVotes, PayInv, SharesTypeOK
  <2>5. hasShare' \subseteq registered'
    BY DEF ChangeVotes, PayInv, SharesTypeOK
  <2> QED
    BY <2>2, <2>3, <2>4, <2>5 DEF SharesTypeOK
<1> QED
  BY <1>2, <1>3, <1>4, <1>7 DEF PayInv

LEMMA RegisterKeeps ==
  ASSUME PayInv, NEW p \in Producers, register_producer(p)
  PROVE  PayInv'
<1>1. BooksInv'
  BY PayInvTypes, SameBooks DEF register_producer, books
<1>2. RowsTypeOK'
  <2>1. claimed' \in [Producers -> 0 .. now']
    BY PayInvTypes DEF register_producer, PayInv, RowsTypeOK
  <2> QED
    BY <2>1 DEF register_producer, PayInv, RowsTypeOK
<1>3. UnpaidAgree'
  BY DEF register_producer, PayInv, UnpaidAgree
<1>4. SharesTypeOK'
  <2>1. CASE p \in hasShare
    BY <2>1 DEF register_producer, PayInv, SharesTypeOK, shares
  <2>2. CASE p \notin hasShare
    <3>1. totalShare' \in Nat /\ totalRate' \in Nat /\ totalUpdated' \in 0 .. now'
      <4>1. CASE p \in registered
        <5>1. 0 \in Int /\ votes[p] \in Int
          BY ProducerPayAssumption DEF PayInv, RowsTypeOK
        <5>2. update_total_votepay_share(0, votes[p]) /\ now' = now
          BY <2>2, <4>1 DEF register_producer
        <5> QED
          BY <5>1, <5>2, SumsStayNatural
      <4>2. CASE p \notin registered
        BY <2>2, <4>2 DEF register_producer, PayInv, SharesTypeOK
      <4> QED
        BY <4>1, <4>2
    <3>2. updated' \in [Producers -> 0 .. now']
      BY <2>2, PayInvTypes DEF register_producer, PayInv, SharesTypeOK
    <3> QED
      BY <2>2, <3>1, <3>2 DEF register_producer, PayInv, SharesTypeOK
  <2> QED
    BY <2>1, <2>2
<1> QED
  BY <1>1, <1>2, <1>3, <1>4 DEF PayInv

(* The pay of a claim is in the bucket, and leaves the others their part.  *)
LEMMA PayIsPart ==
  ASSUME PayInv, NEW p \in Producers, NEW b \in Nat
  PROVE  /\ PerBlockPay(b, p) \in 0 .. b
         /\ unpaid[p] \in 0 .. totalUnpaid
         /\ totalUnpaid > 0 =>
              (b - PerBlockPay(b, p)) * totalUnpaid >= b * (totalUnpaid - unpaid[p])
<1>1. unpaid[p] \in Nat /\ totalUnpaid \in Nat /\ unpaid[p] <= totalUnpaid
  BY TotalBound, PayInvTypes DEF PayInv, RowsTypeOK, UnpaidAgree
<1>2. CASE totalUnpaid > 0
  <2>1. totalUnpaid \in Nat \ {0}
    BY <1>1, <1>2
  <2>2. PerBlockPay(b, p) = (b * unpaid[p]) \div totalUnpaid
    BY <1>2 DEF PerBlockPay
  <2>3. /\ (b * unpaid[p]) \div totalUnpaid \in 0 .. b
        /\ (b - (b * unpaid[p]) \div totalUnpaid) * totalUnpaid
             >= b * (totalUnpaid - unpaid[p])
    BY <1>1, <2>1, PartOfBucket, Zenon
  <2> QED
    BY <1>1, <2>2, <2>3
<1>3. CASE ~ (totalUnpaid > 0)
  BY <1>1, <1>3 DEF PerBlockPay
<1> QED
  BY <1>2, <1>3

LEMMA ClaimKeeps ==
  ASSUME PayInv, NEW p \in Producers, claimrewards(p)
  PROVE  PayInv'
<1> DEFINE pay == PerBlockPay(fill_buckets.perblock, p)
<1>1. /\ supply' = fill_buckets.supply
      /\ perblock' = fill_buckets.perblock - pay
      /\ voters' = fill_buckets.voters
      /\ lastFill' = LastFillAfter
      /\ now' = now
      /\ pay > 0 => /\ CanPay(fill_buckets.liquid, Bpay, p, pay)
                    /\ liquid' = Paid(fill_buckets.liquid, Bpay, p, pay)
      /\ ~ (pay > 0) => liquid' = fill_buckets.liquid
  BY DEF claimrewards
<1>2. Balanced(fill_buckets) /\ fill_buckets.supply \in Nat /\ LastFillAfter \in 0 .. now
  BY PayInvTypes, FilledBooks
<1>3. fill_buckets.perblock \in Nat /\ fill_buckets.voters \in Nat
  BY <1>2 DEF Balanced
<1>4. pay \in 0 .. fill_buckets.perblock /\ unpaid[p] \in 0 .. totalUnpaid
  BY <1>3, PayIsPart
<1> HIDE DEF pay
<1>5. BooksInv'
  <2>1. perblock' \in Nat /\ voters' \in Nat /\ pay \in Nat
    BY <1>1, <1>3, <1>4
  <2>2. CASE pay > 0
    <3>1. p \in Holders \ Purses /\ Bpay # VotersAccount
      BY OutsidePurses, PursesAre DEF PursesDiffer
    <3>2. /\ perblock' = fill_buckets.perblock - (IF Bpay = Bpay THEN pay ELSE 0)
          /\ voters' = fill_buckets.voters - (IF Bpay = VotersAccount THEN pay ELSE 0)
      BY <1>1, <1>3, <3>1
    <3> QED
      BY <1>1, <2>1, <2>2, <3>1, <3>2, PayInvTypes, ClaimKeepsBooks
  <2>3. CASE ~ (pay > 0)
    <3>1. pay = 0
      BY <2>1, <2>3
    <3> QED
      BY <1>1, <1>2, <1>3, <2>3, <3>1
      DEF PayInv, BooksInv, InflationTypeOK, BooksBalance, SupplyHeld, BucketsBacked,
          Balanced
  <2> QED
    BY <2>2, <2>3
<1>6. RowsTypeOK' /\ UnpaidAgree'
  <2>1. unpaid \in [Producers -> Nat] /\ unpaid' = [unpaid EXCEPT ![p] = 0]
        /\ totalUnpaid \in Nat /\ totalUnpaid' = totalUnpaid - unpaid[p]
    BY DEF claimrewards, LeftUnpaid, PayInv, RowsTypeOK
  <2>2. unpaid' \in [Producers -> Nat] /\ unpaid'[p] = 0
        /\ \A q \in Producers \ {p} : unpaid'[q] = unpaid[q]
    BY <2>1
  <2>3. Total(unpaid') = Total(unpaid) - unpaid[p] + unpaid'[p]
    <3>1. IsFiniteSet(Producers) /\ unpaid \in [Producers -> Nat]
      BY <2>1, PayInvTypes
    <3> QED
      BY <2>2, <3>1, TotalChange
  <2>4. UnpaidAgree'
    BY <1>4, <2>1, <2>2, <2>3 DEF PayInv, UnpaidAgree
  <2>5. claimed' \in [Producers -> 0 .. now']
    BY PayInvTypes DEF claimrewards, PayInv, RowsTypeOK
  <2> QED
    BY <1>4, <2>1, <2>2, <2>4, <2>5 DEF claimrewards, PayInv, RowsTypeOK
<1>7. SharesTypeOK'
  <2> DEFINE more == -(IF p \in hasShare THEN NewShare(p) ELSE 0)
             rate == IF p \in hasShare => UpdatedAfter(p) THEN votes[p] ELSE 0
  <2>1. update_total_votepay_share(more, rate)
    BY DEF claimrewards
  <2>2. more \in Int /\ rate \in Int
    BY NewShareType, ProducerPayAssumption DEF PayInv, RowsTypeOK
  <2> HIDE DEF more, rate
  <2>3. totalShare' \in Nat /\ totalRate' \in Nat /\ totalUpdated' \in 0 .. now'
    BY <1>1, <2>1, <2>2, SumsStayNatural
  <2>4. updated' \in [Producers -> 0 .. now'] /\ share' \in [Producers -> Nat]
    BY PayInvTypes DEF claimrewards, PayInv, SharesTypeOK
  <2>5. hasShare' \subseteq registered'
    BY DEF claimrewards, PayInv, RowsTypeOK, SharesTypeOK
  <2> QED
    BY <2>3, <2>4, <2>5 DEF SharesTypeOK
<1> QED
  BY <1>5, <1>6, <1>7 DEF PayInv

(* The other operations touch the books, or one row, only.                 *)
LEMMA SameRows ==
  ASSUME PayInv, BooksInv', now' \in now .. MaxTime,
         UNCHANGED <<activated, producer, totalUnpaid, shares>>
  PROVE  PayInv'
<1>1. 0 .. now \subseteq 0 .. now'
  BY PayInvTypes
<1>2. RowsTypeOK'
  <2>1. claimed \in [Producers -> 0 .. now']
    BY <1>1 DEF PayInv, RowsTypeOK
  <2> QED
    BY <2>1 DEF PayInv, RowsTypeOK, producer
<1>3. SharesTypeOK'
  <2>1. updated \in [Producers -> 0 .. now'] /\ totalUpdated \in 0 .. now'
    BY <1>1 DEF PayInv, SharesTypeOK
  <2> QED
    BY <2>1 DEF PayInv, SharesTypeOK, shares, producer
<1> QED
  BY <1>2, <1>3 DEF PayInv, UnpaidAgree, producer

LEMMA OthersKeep ==
  ASSUME PayInv,
         \/ \E p \in Producers : unregprod(p)
         \/ \E n \in Incomes :
              \/ voterclaim(n)
              \/ \E from \in Users :
                   PayFees(from, n) /\ UNCHANGED <<activated, producer, totalUnpaid, shares>>
         \/ Activate
         \/ Wait /\ UNCHANGED <<activated, producer, totalUnpaid, shares>>
         \/ UNCHANGED vars
  PROVE  PayInv'
<1>1. CASE \E p \in Producers : unregprod(p)
  <2>1. BooksInv'
    BY <1>1, PayInvTypes, SameBooks DEF unregprod, books
  <2> QED
    BY <1>1, <2>1
    DEF unregprod, PayInv, RowsTypeOK, SharesTypeOK, UnpaidAgree, shares
<1>2. ASSUME NEW n \in Incomes, voterclaim(n) PROVE PayInv'
  <2>1. BooksInv' /\ now' = now
    BY <1>2, PayInvTypes, VoterKeepsBooks DEF voterclaim
  <2> QED
    BY <1>2, <2>1, PayInvTypes, SameRows DEF voterclaim
<1>3. ASSUME NEW n \in Incomes, NEW from \in Users, PayFees(from, n),
             UNCHANGED <<activated, producer, totalUnpaid, shares>>
      PROVE  PayInv'
  <2>1. BooksInv' /\ now' = now
    BY <1>3, PayInvTypes, FeesKeepBooks DEF PayFees
  <2> QED
    BY <1>3, <2>1, PayInvTypes, SameRows
<1>4. CASE Activate
  <2>1. BooksInv'
    BY <1>4, PayInvTypes, SameBooks DEF Activate, books
  <2> QED
    BY <1>4, <2>1
    DEF Activate, PayInv, RowsTypeOK, SharesTypeOK, UnpaidAgree, shares, producer
<1>5. CASE Wait /\ UNCHANGED <<activated, producer, totalUnpaid, shares>>
  <2>1. BooksInv' /\ now' \in now .. MaxTime
    <3>1. now' = now + 1 /\ now' <= MaxTime /\ MaxTime \in Nat
      BY <1>5, PayInvTypes, InflationAssumption DEF Wait
    <3> QED
      BY <1>5, <3>1, PayInvTypes, WaitKeepsBooks
  <2> QED
    BY <1>5, <2>1, SameRows
<1>6. CASE UNCHANGED vars
  <2>1. BooksInv'
    BY <1>6, PayInvTypes, SameBooks DEF vars, books
  <2> QED
    BY <1>6, <2>1, PayInvTypes, SameRows DEF vars
<1> QED
  BY <1>1, <1>2, <1>3, <1>4, <1>5, <1>6

(* Types, books and the count of unpaid blocks, over every behaviour.      *)
THEOREM PayInvariant == Spec => []PayInv
<1>1. PayInv /\ [Next]_vars => PayInv'
  <2> SUFFICES ASSUME PayInv, [Next]_vars PROVE PayInv'
    OBVIOUS
  <2>1. ASSUME NEW p \in Signers, onblock(p) PROVE PayInv'
    BY <2>1, OnblockKeeps
  <2>2. ASSUME NEW p \in Producers, register_producer(p) \/ claimrewards(p)
        PROVE  PayInv'
    BY <2>2, RegisterKeeps, ClaimKeeps
  <2>3. ASSUME NEW d \in Changes, ChangeVotes(d) PROVE PayInv'
    BY <2>3, ChangeVotesKeeps
  <2> QED
    BY <2>1, <2>2, <2>3, OthersKeep DEF Next
<1> QED
  BY PayInitially, <1>1, PTL DEF Spec

(* What is in use by the code as numbers of tokens, blocks and shares is   *)
(* one: nothing becomes negative.                                          *)
THEOREM PayTypeCorrect == Spec => []TypeOK
<1>1. PayInv => TypeOK
  BY PayInvTypes
<1> QED
  BY <1>1, PayInvariant, PTL

(* fill_buckets and the payments of claims neither create nor lose tokens, *)
(* and each bucket is backed by the account that pays it.                  *)
THEOREM BooksAlwaysBalance == Spec => []BooksBalance
<1>1. PayInv => BooksBalance
  BY DEF PayInv, BooksInv
<1> QED
  BY <1>1, PayInvariant, PTL

(* total_unpaid_blocks is the sum of unpaid_blocks over all producers.     *)
THEOREM UnpaidAlwaysAgree == Spec => []UnpaidAgree
<1>1. PayInv => UnpaidAgree
  BY DEF PayInv
<1> QED
  BY <1>1, PayInvariant, PTL

(* What a claim leaves in the bucket, against what was there before.       *)
LEMMA ClaimTakesItsPart ==
  ASSUME PayInv, NEW p \in Producers, claimrewards(p), totalUnpaid' < totalUnpaid
  PROVE  perblock' * totalUnpaid >= perblock * totalUnpaid'
<1> DEFINE b == fill_buckets.perblock
           pay == PerBlockPay(b, p)
           u == unpaid[p]
           t == totalUnpaid
<1>1. b \in Nat /\ perblock <= b /\ perblock \in Nat
  BY PayInvTypes, FilledBooks DEF Balanced, BooksInv, InflationTypeOK
<1>2. perblock' = b - pay /\ totalUnpaid' = t - u /\ t \in Nat
  BY DEF claimrewards, LeftUnpaid, PayInv, RowsTypeOK
<1>3. u \in 0 .. t
  BY <1>1, PayIsPart
<1>4. t > 0
  BY <1>2, <1>3
<1>5. (b - pay) * t >= b * (t - u) /\ pay \in 0 .. b
  BY <1>1, <1>4, PayIsPart
<1> HIDE DEF b, pay, u, t
<1>6. t - u \in Nat /\ perblock * (t - u) <= b * (t - u)
  BY <1>1, <1>2, <1>3, LargerFactor
<1>7. (b - pay) * t \in Nat /\ b * (t - u) \in Nat /\ perblock * (t - u) \in Nat
  <2>1. b - pay \in Nat
    BY <1>1, <1>5
  <2> QED
    BY <1>1, <1>2, <1>6, <2>1, ProductOfNats
<1>8. (b - pay) * t >= perblock * (t - u)
  BY <1>5, <1>6, <1>7
<1> QED
  BY <1>2, <1>8 DEF t

(* claimrewards takes no part of the bucket for blocks from the others: it *)
(* leaves at least as much for each unpaid block as there was before.      *)
THEOREM OthersAreNeverDiluted == Spec => OthersNotDiluted
<1>1. ASSUME PayInv, [Next]_vars, totalUnpaid' < totalUnpaid
      PROVE  perblock' * totalUnpaid >= perblock * totalUnpaid'
  <2>1. totalUnpaid \in Nat
    BY <1>1 DEF PayInv, RowsTypeOK
  <2>2. ASSUME NEW p \in Signers, onblock(p) PROVE FALSE
    BY <1>1, <2>1, <2>2 DEF onblock
  <2>3. ASSUME NEW p \in Producers, register_producer(p) \/ unregprod(p) PROVE FALSE
    BY <1>1, <2>1, <2>3 DEF register_producer, unregprod
  <2>4. ASSUME NEW d \in Changes, ChangeVotes(d) PROVE FALSE
    BY <1>1, <2>1, <2>4 DEF ChangeVotes
  <2>5. ASSUME NEW n \in Incomes, voterclaim(n) PROVE FALSE
    BY <1>1, <2>1, <2>5 DEF voterclaim
  <2>6. CASE UNCHANGED <<activated, producer, totalUnpaid, shares>> \/ Activate \/ UNCHANGED vars
    BY <1>1, <2>1, <2>6 DEF Activate, vars
  <2>7. ASSUME NEW p \in Producers, claimrewards(p)
        PROVE  perblock' * totalUnpaid >= perblock * totalUnpaid'
    BY <1>1, <2>7, ClaimTakesItsPart
  <2> QED
    BY <1>1, <2>2, <2>3, <2>4, <2>5, <2>6, <2>7 DEF Next
<1> QED
  BY <1>1, PayInvariant, PTL DEF Spec, OthersNotDiluted

(***************************************************************************)
(* The sums of shares.  Over all producers, the rate of one is its votes   *)
(* as long as they count, and what it has earned its share and what came   *)
(* since its row was updated.                                              *)
(***************************************************************************)
RateOf(p) == IF p \in Counted THEN votes[p] ELSE 0
EarnedBy(p) == share[p] + RateOf(p) * (now - updated[p])
Rates == [p \in Producers |-> RateOf(p)]
Earned == [p \in Producers |-> EarnedBy(p)]

SumsHeld ==
  /\ totalRate = Total(Rates)
  /\ totalShare + totalRate * (now - totalUpdated) = Total(Earned)

(* Who has no share never claimed; who is not registered has no votes.     *)
RowFacts ==
  /\ \A p \in Producers : p \in hasShare <=> claimed[p] > 0
  /\ \A p \in Producers \ hasShare : share[p] = 0
  /\ \A p \in Producers \ registered : votes[p] = 0

SharesInv == PayInv /\ RowFacts /\ SumsHeld

ShareTypes ==
  /\ \A p \in Producers :
       /\ votes[p] \in Nat /\ share[p] \in Nat
       /\ updated[p] \in Nat /\ updated[p] <= now
       /\ claimed[p] \in Nat /\ claimed[p] <= now
       /\ RateOf(p) \in Nat /\ EarnedBy(p) \in Nat
  /\ Rates \in [Producers -> Nat] /\ Earned \in [Producers -> Nat]
  /\ Total(Rates) \in Nat /\ Total(Earned) \in Nat
  /\ IsFiniteSet(Producers)
  /\ now \in Nat /\ now >= 1

LEMMA ShareTypesHold == PayInv => ShareTypes
<1> SUFFICES ASSUME PayInv PROVE ShareTypes
  OBVIOUS
<1>1. now \in Nat /\ now >= 1 /\ IsFiniteSet(Producers)
  BY PayInvTypes
<1>2. ASSUME NEW p \in Producers
      PROVE  /\ votes[p] \in Nat /\ share[p] \in Nat
             /\ updated[p] \in Nat /\ updated[p] <= now
             /\ claimed[p] \in Nat /\ claimed[p] <= now
  BY <1>1, ProducerPayAssumption DEF PayInv, RowsTypeOK, SharesTypeOK
<1>3. ASSUME NEW p \in Producers
      PROVE  RateOf(p) \in Nat /\ EarnedBy(p) \in Nat
  <2>1. RateOf(p) \in Nat /\ now - updated[p] \in Nat
    BY <1>1, <1>2 DEF RateOf
  <2>2. RateOf(p) * (now - updated[p]) \in Nat
    BY <2>1, ProductOfNats
  <2> QED
    BY <1>2, <2>1, <2>2 DEF EarnedBy
<1>4. Rates \in [Producers -> Nat] /\ Earned \in [Producers -> Nat]
  BY <1>3 DEF Rates, Earned
<1>5. Total(Rates) \in Nat /\ Total(Earned) \in Nat
  BY <1>1, <1>4, TotalType
<1> QED
  BY <1>1, <1>2, <1>3, <1>4, <1>5 DEF ShareTypes

LEMMA ShareTypesHoldNext == PayInv' => ShareTypes'
BY ShareTypesHold, PTL

(* What the code keeps is what the invariant sums up over all producers.   *)
LEMMA HeldIsAgreed ==
  ASSUME PayInv
  PROVE  SumsHeld <=> SharesAgree
<1> DEFINE r == [p \in Counted |-> votes[p]]
           e == [p \in Counted |-> votes[p] * (now - updated[p])]
           padded == [p \in Producers |-> IF p \in Counted THEN e[p] ELSE 0]
<1>1. ShareTypes /\ Counted \subseteq Producers
  BY ShareTypesHold DEF Counted, PayInv, SharesTypeOK, RowsTypeOK
<1>2. Rates = [p \in Producers |-> IF p \in Counted THEN r[p] ELSE 0]
  BY DEF Rates, RateOf
<1>3. r \in [Counted -> Nat]
  BY <1>1 DEF ShareTypes
<1>4. Total(Rates) = Total(r)
  <2> HIDE DEF r
  <2> QED
    BY <1>1, <1>2, <1>3, TotalPadded
<1>5. e \in [Counted -> Nat]
  <2>1. ASSUME NEW p \in Counted PROVE votes[p] * (now - updated[p]) \in Nat
    <3>1. votes[p] \in Nat /\ now - updated[p] \in Nat
      BY <1>1 DEF ShareTypes
    <3> QED
      BY <3>1, ProductOfNats
  <2> QED
    BY <2>1
<1>6. \A p \in Producers : EarnedBy(p) = share[p] + padded[p]
  <2>1. ASSUME NEW p \in Producers PROVE EarnedBy(p) = share[p] + padded[p]
    <3>1. CASE p \in Counted
      BY <3>1 DEF EarnedBy, RateOf
    <3>2. CASE p \notin Counted
      <4>1. 0 * (now - updated[p]) = 0
        BY <1>1 DEF ShareTypes
      <4> QED
        BY <3>2, <4>1 DEF EarnedBy, RateOf
    <3> QED
      BY <3>1, <3>2
  <2> QED
    BY <2>1
<1>7. Total(padded) = Total(e) /\ padded \in [Producers -> Nat]
  <2>1. Total(padded) = Total(e)
    <3> HIDE DEF e
    <3> QED
      BY <1>1, <1>5, TotalPadded
  <2>2. \A p \in Counted : e[p] \in Nat
    BY <1>5
  <2> HIDE DEF e
  <2> QED
    BY <2>1, <2>2
<1> HIDE DEF padded, e, r
<1>8. share \in [Producers -> Nat]
  BY DEF PayInv, SharesTypeOK
<1>9. Earned = [p \in Producers |-> share[p] + padded[p]]
  BY <1>6 DEF Earned
<1>10. Total(Earned) = Total(share) + Total(padded)
  BY <1>1, <1>7, <1>8, <1>9, TotalSum DEF ShareTypes
<1> QED
  BY <1>4, <1>7, <1>10 DEF SumsHeld, SharesAgree, r, e

(* Sums and rows change alike. *)
LEMMA SumsFollow ==
  ASSUME PayInv, PayInv', SumsHeld, now' = now, NEW more \in Int, NEW rate \in Int,
         update_total_votepay_share(more, rate),
         Total(Rates') = Total(Rates) + rate,
         Total(Earned') = Total(Earned) + more
  PROVE  SumsHeld'
<1>1. /\ Total(Rates) \in Nat /\ Total(Earned) \in Nat
      /\ Total(Rates') \in Nat /\ Total(Earned') \in Nat /\ now \in Nat
  BY ShareTypesHold, ShareTypesHoldNext DEF ShareTypes
<1>2. Accrued(totalShare, totalRate, totalUpdated) = Total(Earned)
  <2>1. /\ totalShare \in Nat /\ totalRate \in Nat /\ totalUpdated \in 0 .. now
        /\ totalShare + totalRate * (now - totalUpdated) = Total(Earned)
    BY DEF PayInv, SharesTypeOK, SumsHeld
  <2>2. CASE now > totalUpdated
    BY <2>1, <2>2 DEF Accrued
  <2>3. CASE now = totalUpdated
    <3>1. totalRate * (now - totalUpdated) = 0
      BY <1>1, <2>1, <2>3
    <3> QED
      BY <1>1, <2>1, <2>3, <3>1 DEF Accrued
  <2> QED
    BY <1>1, <2>1, <2>2, <2>3
<1>3. totalRate' = Total(Rates')
  BY <1>1 DEF update_total_votepay_share, NotBelow0, SumsHeld
<1>4. totalShare' = Total(Earned')
  BY <1>1, <1>2 DEF update_total_votepay_share, NotBelow0
<1>5. totalRate' * (now' - totalUpdated') = 0
  <2>1. now' - totalUpdated' = 0 /\ totalRate' \in Nat
    BY <1>1, <1>3 DEF update_total_votepay_share
  <2> QED
    BY <2>1
<1>6. totalShare' + totalRate' * (now' - totalUpdated') = Total(Earned')
  BY <1>1, <1>4, <1>5
<1> QED
  BY <1>3, <1>6 DEF SumsHeld

(* One row changes. *)
LEMMA OneRowChanges ==
  ASSUME PayInv, PayInv', NEW p \in Producers,
         \A q \in Producers \ {p} :
           RateOf(q)' = RateOf(q) /\ EarnedBy(q)' = EarnedBy(q)
  PROVE  /\ Total(Rates') = Total(Rates) + (RateOf(p)' - RateOf(p))
         /\ Total(Earned') = Total(Earned) + (EarnedBy(p)' - EarnedBy(p))
<1>1. ShareTypes /\ ShareTypes'
  BY ShareTypesHold, ShareTypesHoldNext
<1>2. /\ Rates' \in [Producers -> Nat] /\ Earned' \in [Producers -> Nat]
      /\ Rates \in [Producers -> Nat] /\ Earned \in [Producers -> Nat]
      /\ IsFiniteSet(Producers)
  BY <1>1 DEF ShareTypes
<1>3. \A q \in Producers : /\ Rates[q] = RateOf(q) /\ Rates'[q] = RateOf(q)'
                           /\ Earned[q] = EarnedBy(q) /\ Earned'[q] = EarnedBy(q)'
  BY DEF Rates, Earned
<1>4. Total(Rates') = Total(Rates) - Rates[p] + Rates'[p] /\ Total(Rates) \in Nat
  <2>1. \A q \in Producers \ {p} : Rates'[q] = Rates[q]
    BY <1>3
  <2> QED
    BY <1>2, <2>1, TotalChange
<1>5. Total(Earned') = Total(Earned) - Earned[p] + Earned'[p] /\ Total(Earned) \in Nat
  <2>1. \A q \in Producers \ {p} : Earned'[q] = Earned[q]
    BY <1>3
  <2> QED
    BY <1>2, <2>1, TotalChange
<1>6. /\ RateOf(p) \in Nat /\ EarnedBy(p) \in Nat
      /\ RateOf(p)' \in Nat /\ EarnedBy(p)' \in Nat
  BY <1>1 DEF ShareTypes
<1> QED
  BY <1>3, <1>4, <1>5, <1>6

(* Touching a row that counts from now on. *)
LEMMA CountsFromNow ==
  ASSUME PayInv, PayInv', now' = now, NEW p \in Producers,
         p \in hasShare', claimed'[p] = now, updated'[p] = now
  PROVE  RateOf(p)' = votes'[p] /\ EarnedBy(p)' = share'[p]
<1>1. ShareTypes' /\ ShareTypes /\ Day \in Nat \ {0}
  BY ShareTypesHold, ShareTypesHoldNext, ProducerPayAssumption
<1>2. ~ (now + 3 * Day <= now)
  BY <1>1 DEF ShareTypes
<1>3. ~ UpdatedAfter(p)'
  BY <1>2 DEF UpdatedAfter, Threshold
<1>4. RateOf(p)' = votes'[p]
  BY <1>3 DEF RateOf, Counted
<1>5. RateOf(p)' * (now' - updated'[p]) = 0
  BY <1>1 DEF ShareTypes
<1>6. share'[p] \in Nat
  BY <1>1 DEF ShareTypes
<1> QED
  BY <1>4, <1>5, <1>6 DEF EarnedBy

(* A row that is not touched keeps its rate and what it earned. *)
LEMMA UntouchedRow ==
  ASSUME now' = now, NEW q, q \in hasShare' <=> q \in hasShare,
         claimed'[q] = claimed[q], updated'[q] = updated[q],
         share'[q] = share[q], q \in hasShare => votes'[q] = votes[q]
  PROVE  RateOf(q)' = RateOf(q) /\ EarnedBy(q)' = EarnedBy(q)
<1>1. UpdatedAfter(q)' <=> UpdatedAfter(q)
  BY DEF UpdatedAfter, Threshold
<1>2. q \in Counted' <=> q \in Counted
  BY <1>1 DEF Counted
<1>3. RateOf(q)' = RateOf(q)
  BY <1>2 DEF RateOf, Counted
<1> QED
  BY <1>3 DEF EarnedBy

(* What a row has earned is what the code computes when it is touched.     *)
LEMMA EarnedIsNewShare ==
  ASSUME PayInv, NEW p \in hasShare
  PROVE  EarnedBy(p) = NewShare(p) /\ RateOf(p) = (IF UpdatedAfter(p) THEN 0 ELSE votes[p])
<1>1. p \in Producers /\ ShareTypes
  BY ShareTypesHold DEF PayInv, RowsTypeOK, SharesTypeOK
<1>2. /\ votes[p] \in Nat /\ share[p] \in Nat /\ updated[p] \in Nat
      /\ updated[p] <= now /\ now \in Nat
  BY <1>1 DEF ShareTypes
<1>3. RateOf(p) = (IF UpdatedAfter(p) THEN 0 ELSE votes[p])
  BY DEF RateOf, Counted
<1>4. CASE UpdatedAfter(p)
  <2>1. 0 * (now - updated[p]) = 0
    BY <1>2
  <2> QED
    BY <1>2, <1>3, <1>4, <2>1 DEF EarnedBy, NewShare
<1>5. CASE ~ UpdatedAfter(p)
  <2>1. CASE now > updated[p]
    BY <1>3, <1>5, <2>1 DEF EarnedBy, NewShare, Accrued
  <2>2. CASE now = updated[p]
    <3>1. votes[p] * (now - updated[p]) = 0
      BY <1>2, <2>2
    <3> QED
      BY <1>2, <1>3, <1>5, <2>2, <3>1 DEF EarnedBy, NewShare, Accrued
  <2> QED
    BY <1>2, <2>1, <2>2
<1> QED
  BY <1>3, <1>4, <1>5

LEMMA RegisterKeepsShares ==
  ASSUME SharesInv, NEW p \in Producers, register_producer(p)
  PROVE  SharesInv'
<1>1. PayInv /\ PayInv' /\ RowFacts /\ SumsHeld /\ ShareTypes /\ now' = now
  BY RegisterKeeps, ShareTypesHold DEF SharesInv, register_producer
<1>2. CASE p \in hasShare
  <2>1. claimed[p] # 0
    BY <1>1, <1>2 DEF RowFacts, ShareTypes
  <2>2. UNCHANGED <<claimed, shares, votes, now>> /\ registered \subseteq registered'
    BY <1>2, <2>1 DEF register_producer
  <2>3. UNCHANGED <<claimed, hasShare, share, updated, totalShare, totalRate, totalUpdated,
                    votes, now>>
    BY <2>2 DEF shares
  <2>4. RowFacts'
    BY <1>1, <2>2, <2>3 DEF RowFacts
  <2>5. \A q \in Producers : RateOf(q)' = RateOf(q) /\ EarnedBy(q)' = EarnedBy(q)
    BY <2>3, UntouchedRow
  <2>6. Rates' = Rates /\ Earned' = Earned
    BY <2>5 DEF Rates, Earned
  <2>7. SumsHeld'
    BY <1>1, <2>3, <2>6 DEF SumsHeld
  <2> QED
    BY <1>1, <2>4, <2>7 DEF SharesInv
<1>3. CASE p \notin hasShare
  <2>1. claimed[p] = 0 /\ share[p] = 0
    BY <1>1, <1>3 DEF RowFacts, ShareTypes
  <2>2. /\ hasShare' = hasShare \cup {p} /\ registered' = registered \cup {p}
        /\ claimed' = [claimed EXCEPT ![p] = now] /\ updated' = [updated EXCEPT ![p] = now]
        /\ share' = share /\ votes' = votes
    BY <1>3, <2>1 DEF register_producer
  <2>3. claimed'[p] = now /\ updated'[p] = now /\ p \in hasShare'
        /\ \A q \in Producers \ {p} : claimed'[q] = claimed[q] /\ updated'[q] = updated[q]
    BY <2>2 DEF PayInv, RowsTypeOK, SharesTypeOK, SharesInv
  <2>4. RowFacts'
    BY <1>1, <2>1, <2>2, <2>3 DEF RowFacts, ShareTypes
  <2>5. RateOf(p)' = votes[p] /\ EarnedBy(p)' = 0
    BY <1>1, <2>1, <2>2, <2>3, CountsFromNow
  <2>6. RateOf(p) = 0 /\ EarnedBy(p) = 0
    <3>1. RateOf(p) = 0
      BY <1>3 DEF RateOf, Counted
    <3>2. 0 * (now - updated[p]) = 0
      BY <1>1 DEF ShareTypes
    <3> QED
      BY <2>1, <3>1, <3>2 DEF EarnedBy
  <2>7. \A q \in Producers \ {p} : RateOf(q)' = RateOf(q) /\ EarnedBy(q)' = EarnedBy(q)
    BY <1>1, <2>2, <2>3, UntouchedRow
  <2>8. Total(Rates') = Total(Rates) + (votes[p] - 0) /\ Total(Earned') = Total(Earned) + (0 - 0)
    BY <1>1, <2>5, <2>6, <2>7, OneRowChanges
  <2>9. /\ Total(Rates') = Total(Rates) + votes[p] /\ Total(Earned') = Total(Earned) + 0
        /\ votes[p] \in Nat /\ Total(Rates) \in Nat /\ Total(Earned) \in Nat
    BY <1>1, <2>8 DEF ShareTypes
  <2>10. CASE p \in registered
    <3>1. update_total_votepay_share(0, votes[p])
      BY <1>3, <2>10 DEF register_producer
    <3>2. SumsHeld'
      BY <1>1, <2>9, <3>1, SumsFollow
    <3> QED
      BY <1>1, <2>4, <3>2 DEF SharesInv
  <2>11. CASE p \notin registered
    <3>1. votes[p] = 0
      BY <1>1, <2>11 DEF RowFacts
    <3>2. UNCHANGED <<totalShare, totalRate, totalUpdated>>
      BY <1>3, <2>11 DEF register_producer
    <3>3. SumsHeld'
      BY <1>1, <2>9, <3>1, <3>2 DEF SumsHeld
    <3> QED
      BY <1>1, <2>4, <3>3 DEF SharesInv
  <2> QED
    BY <2>10, <2>11
<1> QED
  BY <1>2, <1>3

LEMMA ClaimKeepsShares ==
  ASSUME SharesInv, NEW p \in Producers, claimrewards(p)
  PROVE  SharesInv'
<1>1. PayInv /\ PayInv' /\ RowFacts /\ SumsHeld /\ ShareTypes /\ now' = now
  BY ClaimKeeps, ShareTypesHold DEF SharesInv, claimrewards
<1>2. /\ hasShare' = hasShare \cup {p} /\ registered' = registered /\ votes' = votes
      /\ claimed' = [claimed EXCEPT ![p] = now] /\ updated' = [updated EXCEPT ![p] = now]
      /\ share' = [share EXCEPT ![p] = 0]
  BY DEF claimrewards
<1>3. /\ claimed'[p] = now /\ updated'[p] = now /\ share'[p] = 0 /\ p \in hasShare'
      /\ \A q \in Producers \ {p} :
           claimed'[q] = claimed[q] /\ updated'[q] = updated[q] /\ share'[q] = share[q]
  BY <1>1, <1>2 DEF PayInv, RowsTypeOK, SharesTypeOK
<1>4. RowFacts'
  BY <1>1, <1>2, <1>3 DEF RowFacts, ShareTypes
<1>5. RateOf(p)' = votes[p] /\ EarnedBy(p)' = 0
  BY <1>1, <1>2, <1>3, CountsFromNow
<1>6. \A q \in Producers \ {p} : RateOf(q)' = RateOf(q) /\ EarnedBy(q)' = EarnedBy(q)
  BY <1>1, <1>2, <1>3, UntouchedRow
<1>7. /\ Total(Rates') = Total(Rates) + (votes[p] - RateOf(p))
      /\ Total(Earned') = Total(Earned) + (0 - EarnedBy(p))
  BY <1>1, <1>5, <1>6, OneRowChanges
<1> DEFINE mine == IF p \in hasShare THEN NewShare(p) ELSE 0
           rate == IF p \in hasShare => UpdatedAfter(p) THEN votes[p] ELSE 0
<1>8. update_total_votepay_share(-mine, rate)
  BY DEF claimrewards
<1>9. votes[p] \in Nat /\ RateOf(p) \in Nat /\ EarnedBy(p) \in Nat
  BY <1>1 DEF ShareTypes
<1>10. rate = votes[p] - RateOf(p) /\ mine = EarnedBy(p)
  <2>1. CASE p \in hasShare
    <3>1. EarnedBy(p) = NewShare(p) /\ RateOf(p) = (IF UpdatedAfter(p) THEN 0 ELSE votes[p])
      BY <1>1, <2>1, EarnedIsNewShare
    <3>2. mine = EarnedBy(p)
      BY <2>1, <3>1
    <3>3. rate = IF UpdatedAfter(p) THEN votes[p] ELSE 0
      BY <2>1
    <3> HIDE DEF mine, rate
    <3>4. CASE UpdatedAfter(p)
      BY <1>9, <3>1, <3>2, <3>3, <3>4
    <3>5. CASE ~ UpdatedAfter(p)
      BY <1>9, <3>1, <3>2, <3>3, <3>5
    <3> QED
      BY <3>4, <3>5
  <2>2. CASE p \notin hasShare
    <3>1. RateOf(p) = 0 /\ share[p] = 0
      BY <1>1, <2>2 DEF RateOf, Counted, RowFacts
    <3>2. 0 * (now - updated[p]) = 0
      BY <1>1 DEF ShareTypes
    <3>3. EarnedBy(p) = 0
      BY <3>1, <3>2 DEF EarnedBy
    <3> QED
      BY <1>9, <2>2, <3>1, <3>3
  <2> QED
    BY <2>1, <2>2
<1> HIDE DEF mine, rate
<1>11. Total(Rates') = Total(Rates) + rate /\ Total(Earned') = Total(Earned) + -mine
  <2>1. Total(Earned) \in Nat
    BY <1>1 DEF ShareTypes
  <2> QED
    BY <1>7, <1>9, <1>10, <2>1
<1>12. SumsHeld'
  <2>1. -mine \in Int /\ rate \in Int
    BY <1>9, <1>10
  <2> QED
    BY <1>1, <1>8, <1>11, <2>1, SumsFollow
<1> QED
  BY <1>1, <1>4, <1>12 DEF SharesInv

(***************************************************************************)
(* A change of votes touches many rows at once.                            *)
(***************************************************************************)
(* Functions that differ, entry by entry, by what comes and what goes.     *)
LEMMA TotalComesAndGoes ==
  ASSUME NEW S, IsFiniteSet(S),
         NEW f \in [S -> Nat], NEW g \in [S -> Nat],
         NEW come \in [S -> Nat], NEW go \in [S -> Nat],
         \A x \in S : g[x] + go[x] = f[x] + come[x]
  PROVE  Total(g) = Total(f) + (Total(come) - Total(go))
<1>1. [x \in S |-> g[x] + go[x]] = [x \in S |-> f[x] + come[x]]
  OBVIOUS
<1>2. Total([x \in S |-> g[x] + go[x]]) = Total(g) + Total(go)
  BY TotalSum
<1>3. Total([x \in S |-> f[x] + come[x]]) = Total(f) + Total(come)
  BY TotalSum
<1>4. /\ Total(f) \in Nat /\ Total(g) \in Nat
      /\ Total(come) \in Nat /\ Total(go) \in Nat
  BY TotalType
<1> QED
  BY <1>1, <1>2, <1>3, <1>4

(* A row of the change: how its rate and what it earned change.            *)
LEMMA RowOfChange ==
  ASSUME SharesInv, NEW d \in Changes, ChangeVotes(d), PayInv',
         NEW p \in DOMAIN d \cap hasShare
  PROVE  /\ RateOf(p)' = RateOf(p) + RateChange(d, p) /\ RateChange(d, p) \in Int
         /\ EarnedBy(p)' = (IF Expires(p) THEN 0 ELSE EarnedBy(p))
<1>1. PayInv /\ ShareTypes /\ ShareTypes' /\ now' = now
  BY ShareTypesHold, ShareTypesHoldNext DEF SharesInv, ChangeVotes
<1>2. p \in Producers /\ d[p] \in Int
  BY ProducerPayAssumption
<1>3. /\ votes'[p] = votes[p] + d[p] /\ claimed'[p] = claimed[p]
      /\ updated'[p] = now /\ hasShare' = hasShare
      /\ share'[p] = (IF Expires(p) THEN 0 ELSE NewShare(p))
  BY <1>2 DEF ChangeVotes
<1>4. /\ votes[p] \in Nat /\ votes'[p] \in Nat /\ updated[p] \in Nat /\ updated[p] <= now
      /\ now \in Nat /\ share'[p] \in Nat /\ EarnedBy(p) \in Nat
      /\ claimed[p] \in Nat /\ Day \in Nat
  BY <1>1, <1>2, ProducerPayAssumption DEF ShareTypes
<1>5. EarnedBy(p) = NewShare(p) /\ RateOf(p) = (IF UpdatedAfter(p) THEN 0 ELSE votes[p])
  BY <1>1, EarnedIsNewShare
<1>6. UpdatedAfter(p)' <=> Crossed(p)
  BY <1>3 DEF UpdatedAfter, Crossed, Threshold
<1>7. RateOf(p)' = (IF Crossed(p) THEN 0 ELSE votes'[p])
  BY <1>3, <1>6 DEF RateOf, Counted
<1>8. UpdatedAfter(p) => Crossed(p)
  BY <1>4 DEF UpdatedAfter, Crossed, Threshold
<1>9. EarnedBy(p)' = share'[p]
  <2>1. RateOf(p)' * (now' - updated'[p]) = 0
    BY <1>1, <1>2, <1>3 DEF ShareTypes
  <2> QED
    BY <1>4, <2>1 DEF EarnedBy
<1>10. /\ RateOf(p)' = RateOf(p) + RateChange(d, p)
       /\ RateChange(d, p) \in Int
  BY <1>2, <1>3, <1>4, <1>5, <1>7, <1>8 DEF RateChange
<1> QED
  BY <1>3, <1>5, <1>9, <1>10

LEMMA ChangeVotesKeepsShares ==
  ASSUME SharesInv, NEW d \in Changes, ChangeVotes(d)
  PROVE  SharesInv'
<1> DEFINE T == DOMAIN d \cap hasShare
           E == {q \in T : Expires(q)}
           expired == [p \in E |-> NewShare(p)]
           change == [p \in T |-> RateChange(d, p)]
           up == [p \in T |-> NotBelow0(RateChange(d, p))]
           down == [p \in T |-> NotBelow0(-RateChange(d, p))]
           come == [p \in Producers |-> IF p \in T THEN up[p] ELSE 0]
           go == [p \in Producers |-> IF p \in T THEN down[p] ELSE 0]
           gone == [p \in Producers |-> IF p \in E THEN expired[p] ELSE 0]
           none == [p \in Producers |-> 0]
<1>1. PayInv /\ PayInv' /\ RowFacts /\ SumsHeld /\ ShareTypes /\ ShareTypes' /\ now' = now
  BY ChangeVotesKeeps, ShareTypesHold, ShareTypesHoldNext DEF SharesInv, ChangeVotes
<1>2. T \subseteq Producers /\ E \subseteq Producers
  BY ProducerPayAssumption
<1>3. \A p \in T : /\ RateOf(p)' = RateOf(p) + RateChange(d, p)
                   /\ RateChange(d, p) \in Int
                   /\ EarnedBy(p)' = (IF Expires(p) THEN 0 ELSE EarnedBy(p))
                   /\ NewShare(p) = EarnedBy(p)
  BY <1>1, RowOfChange, EarnedIsNewShare
<1>4. \A p \in Producers \ T : RateOf(p)' = RateOf(p) /\ EarnedBy(p)' = EarnedBy(p)
  <2> SUFFICES ASSUME NEW p \in Producers \ T
               PROVE  RateOf(p)' = RateOf(p) /\ EarnedBy(p)' = EarnedBy(p)
    OBVIOUS
  <2>1. /\ claimed'[p] = claimed[p] /\ updated'[p] = updated[p]
        /\ share'[p] = share[p] /\ hasShare' = hasShare
        /\ p \in hasShare => votes'[p] = votes[p]
    BY DEF ChangeVotes
  <2> QED
    BY <1>1, <2>1, UntouchedRow
<1>5. RowFacts'
  BY <1>1 DEF ChangeVotes, RowFacts, PayInv, SharesTypeOK
<1>6. up \in [T -> Nat] /\ down \in [T -> Nat] /\ expired \in [E -> Nat]
  BY <1>1, <1>2, <1>3, NewShareType DEF NotBelow0
<1>7. \A p \in T : up[p] - down[p] = RateChange(d, p)
  BY <1>3 DEF NotBelow0
<1>8. \A p \in E : expired[p] = EarnedBy(p)
  BY <1>3
<1>9. SumOf(change) = Total(up) - Total(down)
  BY DEF SumOf
<1>10. update_total_votepay_share(-Total(expired), SumOf(change))
  BY DEF ChangeVotes
<1> HIDE DEF up, down, expired, change
<1>11. Total(come) = Total(up) /\ Total(go) = Total(down) /\ Total(gone) = Total(expired)
  <2> HIDE DEF T, E
  <2> QED
    BY <1>2, <1>6, TotalPadded
<1>12. /\ come \in [Producers -> Nat] /\ go \in [Producers -> Nat]
       /\ gone \in [Producers -> Nat] /\ none \in [Producers -> Nat]
  BY <1>6
<1>13. Total(none) = 0 /\ IsFiniteSet(Producers)
  <2>1. IsFiniteSet(Producers) /\ \A p \in Producers : none[p] = 0
    BY <1>1 DEF ShareTypes
  <2> HIDE DEF none
  <2> QED
    BY <1>12, <2>1, TotalZero
<1>14. \A p \in Producers : Rates'[p] + go[p] = Rates[p] + come[p]
  <2> SUFFICES ASSUME NEW p \in Producers
               PROVE  RateOf(p)' + go[p] = RateOf(p) + come[p]
    BY DEF Rates
  <2>1. RateOf(p) \in Nat /\ RateOf(p)' \in Nat
    BY <1>1 DEF ShareTypes
  <2>2. CASE p \in T
    <3>1. up[p] \in Nat /\ down[p] \in Nat /\ go[p] = down[p] /\ come[p] = up[p]
      BY <1>6, <2>2
    <3>2. RateOf(p)' = RateOf(p) + RateChange(d, p) /\ up[p] - down[p] = RateChange(d, p)
      BY <1>3, <1>7, <2>2
    <3> QED
      BY <2>1, <3>1, <3>2
  <2>3. CASE p \notin T
    BY <1>4, <2>1, <2>3
  <2> QED
    BY <2>2, <2>3
<1>15. \A p \in Producers : Earned'[p] + gone[p] = Earned[p] + none[p]
  <2> SUFFICES ASSUME NEW p \in Producers
               PROVE  EarnedBy(p)' + gone[p] = EarnedBy(p) + 0
    BY DEF Earned
  <2>1. EarnedBy(p) \in Nat /\ EarnedBy(p)' \in Nat
    BY <1>1 DEF ShareTypes
  <2>2. CASE p \in E
    BY <1>3, <1>8, <2>1, <2>2
  <2>3. CASE p \in T \ E
    BY <1>3, <2>1, <2>3
  <2>4. CASE p \notin T
    BY <1>4, <2>1, <2>4
  <2> QED
    BY <2>2, <2>3, <2>4
<1> HIDE DEF come, go, gone, none, T, E
<1>16. /\ Total(Rates') = Total(Rates) + (Total(come) - Total(go))
       /\ Total(Earned') = Total(Earned) + (Total(none) - Total(gone))
  <2>1. /\ Rates \in [Producers -> Nat] /\ Rates' \in [Producers -> Nat]
        /\ Earned \in [Producers -> Nat] /\ Earned' \in [Producers -> Nat]
    BY <1>1 DEF ShareTypes
  <2>2. Total(Rates') = Total(Rates) + (Total(come) - Total(go))
    BY <1>12, <1>13, <1>14, <2>1, TotalComesAndGoes
  <2>3. Total(Earned') = Total(Earned) + (Total(none) - Total(gone))
    BY <1>12, <1>13, <1>15, <2>1, TotalComesAndGoes
  <2> QED
    BY <2>2, <2>3
<1>17. Total(come) \in Nat /\ Total(go) \in Nat /\ Total(gone) \in Nat
  BY <1>12, <1>13, TotalType
<1>18. /\ SumOf(change) \in Int /\ -Total(expired) \in Int
       /\ Total(Rates') = Total(Rates) + SumOf(change)
       /\ Total(Earned') = Total(Earned) + -Total(expired)
  BY <1>9, <1>11, <1>13, <1>16, <1>17
<1>19. SumsHeld'
  BY <1>1, <1>10, <1>18, SumsFollow
<1> QED
  BY <1>1, <1>5, <1>19 DEF SharesInv

(* Time passes: each row earns at its rate, and the sum at the sum of them.*)
LEMMA WaitKeepsShares ==
  ASSUME SharesInv, Wait, UNCHANGED <<activated, producer, totalUnpaid, shares>>
  PROVE  SharesInv'
<1>1. PayInv /\ RowFacts /\ SumsHeld /\ ShareTypes
  BY ShareTypesHold DEF SharesInv
<1>2. PayInv' /\ now' = now + 1
  BY <1>1, OthersKeep DEF Wait
<1>3. ShareTypes'
  BY <1>2, ShareTypesHoldNext
<1>4. /\ UNCHANGED <<registered, claimed, votes, hasShare, share, updated>>
      /\ UNCHANGED <<totalShare, totalRate, totalUpdated>>
  BY DEF producer, shares
<1>5. RowFacts'
  BY <1>1, <1>4 DEF RowFacts
<1>6. ASSUME NEW p \in Producers
      PROVE  RateOf(p)' = RateOf(p) /\ EarnedBy(p)' = EarnedBy(p) + RateOf(p)
  <2>1. p \in Counted' <=> p \in Counted
    BY <1>4 DEF Counted, UpdatedAfter, Threshold
  <2>2. RateOf(p)' = RateOf(p)
    BY <1>4, <2>1 DEF RateOf
  <2>3. /\ RateOf(p) \in Nat /\ share[p] \in Nat /\ updated[p] \in Nat
        /\ updated[p] <= now /\ now \in Nat
    BY <1>1 DEF ShareTypes
  <2>4. RateOf(p) * (now + 1 - updated[p]) = RateOf(p) * (now - updated[p]) + RateOf(p)
    BY <2>3
  <2>5. RateOf(p) * (now - updated[p]) \in Nat
    BY <2>3, ProductOfNats
  <2> QED
    BY <1>2, <1>4, <2>2, <2>3, <2>4, <2>5 DEF EarnedBy
<1>7. Rates' = Rates
  BY <1>6 DEF Rates
<1>8. Earned' = [p \in Producers |-> Earned[p] + Rates[p]]
  BY <1>6 DEF Earned, Rates
<1>9. Total(Earned') = Total(Earned) + Total(Rates)
  BY <1>1, <1>8, TotalSum DEF ShareTypes
<1>10. SumsHeld'
  <2>1. /\ totalRate = Total(Rates)
        /\ totalShare + totalRate * (now - totalUpdated) = Total(Earned)
    BY <1>1 DEF SumsHeld
  <2>2. /\ totalRate \in Nat /\ totalShare \in Nat /\ now \in Nat
        /\ totalUpdated \in 0 .. now
    BY <1>1 DEF PayInv, SharesTypeOK, ShareTypes
  <2>3. totalRate * (now + 1 - totalUpdated) = totalRate * (now - totalUpdated) + totalRate
    BY <2>2
  <2>4. totalRate * (now - totalUpdated) \in Nat
    BY <2>2, ProductOfNats
  <2>5. totalShare + totalRate * (now + 1 - totalUpdated) = Total(Earned')
    BY <1>9, <2>1, <2>2, <2>3, <2>4
  <2>6. totalShare' + totalRate' * (now' - totalUpdated') = Total(Earned')
    <3>1. now' - totalUpdated' = now + 1 - totalUpdated
      BY <1>2, <1>4, <2>2
    <3>2. totalShare' = totalShare /\ totalRate' = totalRate
      BY <1>4
    <3> QED
      BY <2>5, <3>1, <3>2
  <2>7. totalRate' = Total(Rates')
    BY <1>4, <1>7, <2>1
  <2> QED
    BY <2>6, <2>7 DEF SumsHeld
<1> QED
  BY <1>2, <1>5, <1>10 DEF SharesInv

(* What touches no share. *)
LEMMA SameShares ==
  ASSUME SharesInv, PayInv',
         UNCHANGED <<registered, claimed, votes, shares, now>>
  PROVE  SharesInv'
<1>1. RowFacts /\ SumsHeld
  BY DEF SharesInv
<1>2. UNCHANGED <<registered, claimed, votes, now, hasShare, share, updated,
                  totalShare, totalRate, totalUpdated>>
  BY DEF shares
<1>3. \A p \in Producers : RateOf(p)' = RateOf(p) /\ EarnedBy(p)' = EarnedBy(p)
  BY <1>2, UntouchedRow
<1>4. Rates' = Rates /\ Earned' = Earned
  BY <1>3 DEF Rates, Earned
<1> QED
  BY <1>1, <1>2, <1>4 DEF SharesInv, RowFacts, SumsHeld

LEMMA SharesInitially ==
  ASSUME OldClaims = {0}
  PROVE  Init => SharesInv
<1> SUFFICES ASSUME Init PROVE SharesInv
  OBVIOUS
<1>1. PayInv /\ ShareTypes
  BY PayInitially, ShareTypesHold
<1>2. /\ hasShare = {} /\ totalShare = 0 /\ totalRate = 0 /\ totalUpdated = 0
      /\ share = [p \in Producers |-> 0] /\ votes = [p \in Producers |-> 0]
      /\ \E c \in OldClaims : claimed = [p \in Producers |-> IF p \in Old THEN c ELSE 0]
  BY DEF Init
<1>3. \A p \in Producers : claimed[p] = 0 /\ share[p] = 0 /\ votes[p] = 0
  BY <1>2
<1>4. RowFacts
  BY <1>2, <1>3 DEF RowFacts
<1>5. ASSUME NEW p \in Producers PROVE RateOf(p) = 0 /\ EarnedBy(p) = 0
  <2>1. RateOf(p) = 0
    BY <1>2 DEF RateOf, Counted
  <2>2. 0 * (now - updated[p]) = 0
    BY <1>1 DEF ShareTypes
  <2> QED
    BY <1>3, <2>1, <2>2 DEF EarnedBy
<1>6. \A p \in Producers : Rates[p] = 0 /\ Earned[p] = 0
  BY <1>5 DEF Rates, Earned
<1>7. Total(Rates) = 0 /\ Total(Earned) = 0
  BY <1>1, <1>6, TotalZero DEF ShareTypes
<1>8. 0 + 0 * (now - 0) = 0
  BY <1>1 DEF ShareTypes
<1> QED
  BY <1>1, <1>2, <1>4, <1>7, <1>8 DEF SharesInv, SumsHeld

(* update_total_votepay_share keeps the sums of the shares of producers    *)
(* and of their rates, when there are no claims from before producers2.    *)
THEOREM SharesAlwaysAgree ==
  ASSUME OldClaims = {0}
  PROVE  Spec => []SharesAgree
<1>1. Init => SharesInv
  BY SharesInitially
<1>2. SharesInv /\ [Next]_vars => SharesInv'
  <2> SUFFICES ASSUME SharesInv, [Next]_vars PROVE SharesInv'
    OBVIOUS
  <2>1. ASSUME NEW p \in Signers, onblock(p) PROVE SharesInv'
    BY <2>1, OnblockKeeps, SameShares DEF SharesInv, onblock
  <2>2. ASSUME NEW p \in Producers, register_producer(p) \/ claimrewards(p)
        PROVE  SharesInv'
    BY <2>2, RegisterKeepsShares, ClaimKeepsShares
  <2>3. ASSUME NEW d \in Changes, ChangeVotes(d) PROVE SharesInv'
    BY <2>3, ChangeVotesKeepsShares
  <2>4. ASSUME NEW p \in Producers, unregprod(p) PROVE SharesInv'
    <3>1. PayInv'
      BY <2>4, OthersKeep DEF SharesInv
    <3> QED
      BY <2>4, <3>1, SameShares DEF unregprod
  <2>5. ASSUME NEW n \in Incomes, voterclaim(n) PROVE SharesInv'
    <3>1. PayInv'
      BY <2>5, OthersKeep DEF SharesInv
    <3> QED
      BY <2>5, <3>1, SameShares DEF voterclaim, producer
  <2>6. ASSUME NEW n \in Incomes, NEW from \in Users, PayFees(from, n),
               UNCHANGED <<activated, producer, totalUnpaid, shares>>
        PROVE  SharesInv'
    <3>1. PayInv'
      BY <2>6, OthersKeep DEF SharesInv
    <3> QED
      BY <2>6, <3>1, SameShares DEF PayFees, producer
  <2>7. CASE Activate \/ UNCHANGED vars
    <3>1. PayInv'
      BY <2>7, OthersKeep DEF SharesInv
    <3> QED
      BY <2>7, <3>1, SameShares DEF Activate, vars, producer
  <2>8. CASE Wait /\ UNCHANGED <<activated, producer, totalUnpaid, shares>>
    BY <2>8, WaitKeepsShares
  <2> QED
    BY <2>1, <2>2, <2>3, <2>4, <2>5, <2>6, <2>7, <2>8 DEF Next
<1>3. SharesInv => SharesAgree
  BY HeldIsAgreed DEF SharesInv
<1> QED
  BY <1>1, <1>2, <1>3, PTL DEF Spec
==============================================================================
