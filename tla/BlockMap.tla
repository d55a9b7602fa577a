------------------------------ MODULE BlockMap ------------------------------
(***************************************************************************)
(* The static geometry DynamicLock and GeneticLock share: an array of      *)
(* ArraySize positions is divided into kBlocks blocks of equal size, and   *)
(* the blocks into kLockCnt consecutive partitions, one per lock.  A       *)
(* partitioning is given by its cuts: lock l guards the blocks             *)
(* cuts[l] .. cuts[l + 1] - 1.  The code keeps a cached map from blocks to *)
(* locks besides the cuts.  kBlocks is 1024 in the code, a parameter here. *)
(***************************************************************************)
EXTENDS Integers

CONSTANTS
    ArraySize,  \* array_size_, the number of guarded positions
    kBlocks,    \* number of blocks
    kLockCnt    \* number of locks

ASSUME SizeAssumption ==
    /\ ArraySize \in Nat \ {0}
    /\ kBlocks \in Nat \ {0}
    /\ kLockCnt \in 1 .. kBlocks

Positions == 0 .. ArraySize - 1
Blocks    == 0 .. kBlocks - 1
Locks     == 0 .. kLockCnt - 1

Lesser(a, b)  == IF a <= b THEN a ELSE b
Greater(a, b) == IF a <= b THEN b ELSE a

block_size_ == 1 + ((ArraySize - 1) \div kBlocks)

PositionToBlock(pos) == Lesser(pos \div block_size_, kBlocks - 1)

(* The prologue of every query: both ends are clamped into the array, then *)
(* put in order.                                                           *)
Clamp(pos) == Lesser(pos, ArraySize - 1)
ClampedLeft(request)  == Lesser(Clamp(request[1]), Clamp(request[2]))
ClampedRight(request) == Greater(Clamp(request[1]), Clamp(request[2]))

(* The blocks a query over left..right touches.                            *)
BlocksOf(left, right) == PositionToBlock(left) .. PositionToBlock(right)

(* The partitionings that the code can install: no partition is empty,     *)
(* since the optimiser only extends a partition from a smaller left end.   *)
Cuts ==
    {cuts \in [0 .. kLockCnt -> 0 .. kBlocks] :
        /\ cuts[0] = 0
        /\ cuts[kLockCnt] = kBlocks
        /\ \A l, m \in 0 .. kLockCnt : l < m => cuts[l] < cuts[m]}

(* The constructor's partitioning.                                         *)
UniformCuts == [l \in 0 .. kLockCnt |-> (l * kBlocks) \div kLockCnt]

(* What a complete run of RefreshBlockToLock leaves in the map: each block *)
(* is mapped to the lock whose partition contains it.                      *)
IsRefreshOf(map, cuts) ==
    \A b \in Blocks : cuts[map[b]] <= b /\ b < cuts[map[b] + 1]

(* The locks whose partitions meet a range of positions, by definition of  *)
(* a partitioning and without the map.                                     *)
LocksMeeting(cuts, left, right) ==
    {l \in Locks : \E b \in BlocksOf(left, right) :
                      cuts[l] <= b /\ b < cuts[l + 1]}
=============================================================================
