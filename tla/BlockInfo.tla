------------------------------- MODULE BlockInfo -------------------------------
(***************************************************************************)
(* The table of the latest blocks that eosio.system keeps for other        *)
(* contracts, and the function they read it with.                          *)
(*                                                                         *)
(* onblock records each new block and erases up to two records that have   *)
(* fallen out of a rolling window: two, so that the table catches up after *)
(* blocks in which onblock failed.  Records are then missing, and records  *)
(* outside the window are still there: the reader must tell apart what it  *)
(* may answer.                                                             *)
(***************************************************************************)
EXTENDS Integers, FiniteSets

CONSTANTS
  Window,      \* rolling_window_size
  MaxHeight,   \* bound: blocks
  Gaps,        \* slots that a block may come after the one before
  Offsets, Sizes  \* arguments of readers

ASSUME BlockInfoAssumption ==
  /\ Window \in Nat \ {0}
  /\ MaxHeight \in Nat
  /\ Gaps \subseteq Nat
  /\ Offsets \subseteq Nat /\ Sizes \subseteq Nat

VARIABLES
  height,     \* of the latest block
  time,       \* of the latest block
  table,      \* heights with a row in blockinfo
  timestamp,  \* blockinfo: block_timestamp of each height
  recorded    \* history: blocks whose onblock succeeded, with their time

blockVars == <<height, time, table, timestamp, recorded>>

Heights == 1 .. MaxHeight

(* The contract is deployed at some block; nothing is recorded before it.  *)
BlockInit ==
  /\ height \in 0 .. MaxHeight
  /\ time = 0
  /\ table = {}
  /\ timestamp = [h \in Heights |-> 0]
  /\ recorded = {}

-----------------------------------------------------------------------------
(* The heights that have fallen out of the window when block h is recorded.*)
(* The slip loses the oldest block of the window.                          *)
Larger(m, n) == IF m >= n THEN m ELSE n
OffByOne(h) == Larger(h + 1, Window) - Window
LastPrunable(h) == Larger(h, Window) - Window

(* Records are erased in the order of their heights, as many as allowed.   *)
Earlier(S, h) == {x \in S : x < h}
OneLowest(S) == {h \in S : Cardinality(Earlier(S, h)) < 1}
TwoLowest(S) == {h \in S : Cardinality(Earlier(S, h)) < 2}

(* The rows outside the window, and what is left when some are erased.     *)
Prunable(S, h) == {x \in S : x <= LastPrunable(h)}
Pruned(S, h) == S \ TwoLowest(Prunable(S, h))

(* onblock is given the id of the block before, whose first bytes are that *)
(* block's height.  The slip takes it for the height of the new block.     *)
HeightInId(previous) == previous
NewBlockHeight(previous) == previous + 1

add_to_blockinfo_table(previous, t) ==
  LET h == NewBlockHeight(previous)
  IN  /\ table' = Pruned(table \cup {h}, h)
      /\ timestamp' = [timestamp EXCEPT ![h] = t]
      /\ recorded' = recorded \cup {<<height', t>>}

NextBlock(gap) ==
  /\ height < MaxHeight
  /\ gap > 0
  /\ height' = height + 1
  /\ time' = time + gap

SucceededOnblock(gap) ==
  /\ NextBlock(gap)
  /\ add_to_blockinfo_table(height, time')

(* onblock fails: the block is made without it. *)
FailedOnblock(gap) ==
  /\ NextBlock(gap)
  /\ UNCHANGED <<table, timestamp, recorded>>

BlockNext == \E gap \in Gaps : SucceededOnblock(gap) \/ FailedOnblock(gap)

BlockSpec == BlockInit /\ [][BlockNext]_blockVars

-----------------------------------------------------------------------------
(* The highest height in the table, where the reader finds the end.        *)
IsLatest(h) == h \in table /\ \A x \in table : x <= h
Latest == CHOOSE h \in table : IsLatest(h)

(* Where the batch that ends at the latest block starts.  The slip counts  *)
(* batches from the first block of the chain.                              *)
FromOne(end, offset, size) == end - (end % size)
BatchStart(end, offset, size) == end - ((end - offset) % size)

NoAnswer(code) == [ok |-> FALSE, error_code |-> code]

(* The latest batch of size blocks, when batches start at offset. *)
get_latest_block_batch_info(offset, size) ==
  LET start == BatchStart(Latest, offset, size)
  IN  IF size = 0 THEN NoAnswer("invalid_input")
      ELSE IF table = {} THEN NoAnswer("insufficient_data")
      ELSE IF Latest < offset THEN NoAnswer("insufficient_data")
      ELSE IF start \notin table THEN NoAnswer("insufficient_data")
      ELSE [ok |-> TRUE,
            start_height |-> start,
            start_timestamp |-> timestamp[start],
            end_height |-> Latest,
            end_timestamp |-> timestamp[Latest]]

-----------------------------------------------------------------------------
BlockTypeOK ==
  /\ height \in 0 .. MaxHeight
  /\ time \in Nat
  /\ timestamp \in [Heights -> Nat]
  /\ recorded \subseteq (1 .. height) \X Nat
  /\ table \subseteq {r[1] : r \in recorded}

(* The table never grows beyond the window, however many blocks fail.      *)
Bounded == Cardinality(table) <= Window

(* Of the latest blocks, as many as the window is long, every one that was *)
(* recorded is still there with its time, whatever gaps came before.       *)
RecentKept ==
  \A r \in recorded :
    (\A h \in table : h < r[1] + Window) =>
      r[1] \in table /\ timestamp[r[1]] = r[2]

(* The table is the window: it never has more rows than that, however many *)
(* blocks fail, and it lacks none of the latest.                           *)
WindowKept == Bounded /\ RecentKept

(* Records outside the window become fewer with every block recorded right *)
(* after another.                                                          *)
Stale == {h \in table : \E x \in table : h <= x - Window}
CatchesUp ==
  [][table # {} /\ Stale # {} /\ height = Latest /\ recorded' # recorded =>
       Cardinality(Stale') < Cardinality(Stale)]_blockVars

(* What readers are told is true: the batch starts at a multiple of its    *)
(* size from the offset, is the one with the latest block, and both times  *)
(* are those of the blocks.  They are told whenever the start is within    *)
(* the window and was recorded.                                            *)
IsBatch(start, offset, size) ==
  /\ offset <= start /\ start <= Latest
  /\ Latest < start + size
  /\ \E k \in 0 .. Latest : start = offset + k * size
AnswerIsTrue(answer, offset, size) ==
  /\ IsBatch(answer.start_height, offset, size)
  /\ <<answer.start_height, answer.start_timestamp>> \in recorded
  /\ <<answer.end_height, answer.end_timestamp>> \in recorded
  /\ answer.end_height = Latest
Answerable(offset, size) ==
  /\ table # {} /\ size > 0
  /\ \E r \in recorded :
       IsBatch(r[1], offset, size) /\ Latest < r[1] + Window
BatchesRight ==
  \A offset \in Offsets, size \in Sizes :
    LET answer == get_latest_block_batch_info(offset, size)
    IN  /\ answer.ok => AnswerIsTrue(answer, offset, size)
        /\ Answerable(offset, size) => answer.ok
================================================================================
