------------------------------- MODULE Debra --------------------------------
(***************************************************************************)
(* reclaimer_debra, the epoch based reclamation that the benchmark gives   *)
(* every data structure, behind a record_manager with one record type, an  *)
(* allocator that frees at once and no pool.  The client is any structure: *)
(* an operation retires some records between startOp and endOp.  Composed  *)
(* with the harness, which initialises and deinitialises the threads in    *)
(* every stage.                                                            *)
(*                                                                         *)
(* Stores to announcedEpoch are relaxed, but record_manager's startOp      *)
(* ends in a full fence: they are visible before the operation begins.     *)
(***************************************************************************)
EXTENDS Microbench, Functions

CONSTANTS
    Records,              \* the records an operation may retire
    MaxRetired,           \* how many one operation retires at most
    BLOCK_SIZE,           \* records per block of a blockbag
    MIN_OPS_BEFORE_READ

ASSUME DebraAssumption ==
    /\ BLOCK_SIZE \in Nat \ {0}
    /\ MIN_OPS_BEFORE_READ \in Nat \ {0}
    /\ MaxRetired \in Nat

VARIABLES
    epoch,
    \* threadData
    announcedEpoch, localvar_announcedEpoch, epochbags, index, currentBag,
    deamortizedFreeables, checked, opsSinceRead,
    init,       \* the flags of record_manager::initThread
    dpc,        \* control point inside the operation
    retired,    \* how many records the operation has retired
    \* history: the operations a retired record has to wait for, and the
    \* epoch in which it was retired
    waits, retiredIn

threadVars == <<announcedEpoch, localvar_announcedEpoch, epochbags, index,
                currentBag, deamortizedFreeables, checked, opsSinceRead, init>>
opVars == <<dpc, retired>>
history == <<waits, retiredIn>>
debraVars == <<epoch, threadVars, opVars, history>>
vars == <<benchVars, debraVars>>

EPOCH_INCREMENT == 2
NUMBER_OF_EPOCH_BAGS == 3
Bags == 0 .. NUMBER_OF_EPOCH_BAGS - 1
BITS_EPOCH(ann) == ann - (ann % EPOCH_INCREMENT)
QUIESCENT(ann) == ann % 2 = 1
GET_WITH_QUIESCENT(ann) == IF QUIESCENT(ann) THEN ann ELSE ann + 1

(* The constructor.  A data structure's constructor then initialises       *)
(* thread 0 to allocate its first records.                                 *)
Init ==
    /\ BenchInit
    /\ epoch = 0
    /\ announcedEpoch = [t \in Threads |-> GET_WITH_QUIESCENT(0)]
    /\ localvar_announcedEpoch = [t \in Threads |-> GET_WITH_QUIESCENT(0)]
    /\ epochbags = [t \in Threads |-> [b \in Bags |-> <<>>]]
    /\ index = [t \in Threads |-> 0]
    /\ currentBag = [t \in Threads |-> 0]
    /\ deamortizedFreeables = [t \in Threads |-> {}]
    /\ checked = [t \in Threads |-> 0]
    /\ opsSinceRead = [t \in Threads |-> 0]
    /\ init = [t \in Threads |-> t = 0]
    /\ dpc = [t \in Threads |-> "idle"]
    /\ retired = [t \in Threads |-> 0]
    /\ waits = [r \in Records |-> {}]
    /\ retiredIn = [r \in Records |-> 0]

InBags(t) == UNION {Range(epochbags[t][b]) : b \in Bags}
limbo == UNION {InBags(t) \cup deamortizedFreeables[t] : t \in Threads}
inOp == {t \in Threads : ~QUIESCENT(announcedEpoch[t])}

-----------------------------------------------------------------------------

(* blockbag: the blocks behind the head are full; appendMoveFullBlocks     *)
(* takes those and leaves the head.                                        *)
FullLength(bag) == (Len(bag) \div BLOCK_SIZE) * BLOCK_SIZE
FullBlocks(bag) == SubSeq(bag, 1, FullLength(bag))
HeadBlock(bag) == SubSeq(bag, FullLength(bag) + 1, Len(bag))

(* Mutant: the bag in use is taken for the oldest.                         *)
SameBag(i) == i

NextIndex(i) == (i + 1) % NUMBER_OF_EPOCH_BAGS

(* rotateEpochBags: what is in full blocks of the oldest bag may be freed, *)
(* and that bag becomes the current one.                                   *)
Rotate(t) ==
    LET next == NextIndex(index[t]) IN
    /\ index' = [index EXCEPT ![t] = next]
    /\ currentBag' = [currentBag EXCEPT ![t] = next]
    /\ epochbags' = [epochbags EXCEPT ![t][next] = HeadBlock(@)]
    /\ checked' = [checked EXCEPT ![t] = 0]

Freeable(t) ==
    deamortizedFreeables[t] \cup
        (IF epoch = localvar_announcedEpoch[t] THEN {}
         ELSE Range(FullBlocks(epochbags[t][NextIndex(index[t])])))

(* startOp up to the announcement: the thread's own data.  Of the records  *)
(* that may be freed one is, whichever is on top.                          *)
ReadEpoch(t) ==
    /\ tpc[t] = "call"
    /\ dpc[t] = "idle"
    /\ call[t].result = "pending"
    /\ dpc' = [dpc EXCEPT ![t] = "announce"]
    /\ localvar_announcedEpoch' = [localvar_announcedEpoch EXCEPT ![t] = epoch]
    /\ IF epoch # localvar_announcedEpoch[t] THEN Rotate(t)
       ELSE UNCHANGED <<index, currentBag, epochbags, checked>>
    /\ \E r \in (IF Freeable(t) = {} THEN {{}} ELSE {{f} : f \in Freeable(t)}) :
          deamortizedFreeables' = [deamortizedFreeables EXCEPT
                                     ![t] = Freeable(t) \ r]
    /\ UNCHANGED <<benchVars, epoch, announcedEpoch, opsSinceRead, init,
                   retired, history>>

Announce(t) ==
    /\ dpc[t] = "announce"
    /\ dpc' = [dpc EXCEPT ![t] = "scan"]
    /\ announcedEpoch' = [announcedEpoch EXCEPT
                            ![t] = localvar_announcedEpoch[t]]
    /\ UNCHANGED <<benchVars, epoch, localvar_announcedEpoch, epochbags,
                   index, currentBag, deamortizedFreeables, checked,
                   opsSinceRead, init, retired, history>>

(* Mutant: a thread in an operation is passed over whatever it announced.  *)
AnyAnnouncement(t) == TRUE

(* The thread checked next has seen the epoch or is quiescent.             *)
SeenBy(t) ==
    LET other == announcedEpoch[checked[t]] IN
    BITS_EPOCH(other) = localvar_announcedEpoch[t] \/ QUIESCENT(other)

(* Every MIN_OPS_BEFORE_READ operations the next thread is checked.        *)
Scan(t) ==
    LET reads == opsSinceRead[t] + 1 = MIN_OPS_BEFORE_READ
        seen  == reads /\ SeenBy(t)
    IN
    /\ dpc[t] = "scan"
    /\ opsSinceRead' = [opsSinceRead EXCEPT ![t] = IF reads THEN 0 ELSE @ + 1]
    /\ checked' = [checked EXCEPT ![t] = IF seen THEN @ + 1 ELSE @]
    /\ dpc' = [dpc EXCEPT
                 ![t] = IF seen /\ checked'[t] >= MaxThreads THEN "advance"
                                                             ELSE "body"]
    /\ UNCHANGED <<benchVars, epoch, announcedEpoch, localvar_announcedEpoch,
                   epochbags, index, currentBag, deamortizedFreeables, init,
                   retired, history>>

(* The compare-and-swap on epoch.                                          *)
AdvanceEpoch(t) ==
    /\ dpc[t] = "advance"
    /\ dpc' = [dpc EXCEPT ![t] = "body"]
    /\ epoch' = IF epoch = localvar_announcedEpoch[t]
                THEN epoch + EPOCH_INCREMENT ELSE epoch
    /\ UNCHANGED <<benchVars, threadVars, retired, history>>

(* The client has unlinked a record and retires it.                        *)
Retire(t) ==
    /\ dpc[t] = "body"
    /\ retired[t] < MaxRetired
    /\ \E r \in Records \ limbo :
          /\ epochbags' = [epochbags EXCEPT ![t][currentBag[t]] = Append(@, r)]
          /\ waits' = [waits EXCEPT ![r] = inOp]
          /\ retiredIn' = [retiredIn EXCEPT ![r] = localvar_announcedEpoch[t]]
    /\ retired' = [retired EXCEPT ![t] = @ + 1]
    /\ UNCHANGED <<benchVars, epoch, announcedEpoch, localvar_announcedEpoch,
                   index, currentBag, deamortizedFreeables, checked,
                   opsSinceRead, init, dpc>>

EndOp(t) ==
    /\ dpc[t] = "body"
    /\ dpc' = [dpc EXCEPT ![t] = "idle"]
    /\ retired' = [retired EXCEPT ![t] = 0]
    /\ announcedEpoch' = [announcedEpoch EXCEPT
              ![t] = GET_WITH_QUIESCENT(localvar_announcedEpoch[t])]
    /\ Decide(t, "success")
    /\ waits' = [r \in Records |-> waits[r] \ {t}]
    /\ UNCHANGED <<mpc, stage, running, start, operCount, tpc, counter,
                   key_checksum, num_operations, curKeySum, epoch,
                   localvar_announcedEpoch, epochbags, index, currentBag,
                   deamortizedFreeables, checked, opsSinceRead, init,
                   retiredIn>>

(* initThread, at the start of a stage, unless it has been called.  The    *)
(* bags are new and empty; index is not set.                               *)
InitThread(t) ==
    /\ Pre(t)
    /\ init' = [init EXCEPT ![t] = TRUE]
    /\ IF init[t] THEN UNCHANGED <<currentBag, checked, opsSinceRead>>
       ELSE /\ currentBag' = [currentBag EXCEPT ![t] = 0]
            /\ checked' = [checked EXCEPT ![t] = 0]
            /\ opsSinceRead' = [opsSinceRead EXCEPT ![t] = 0]
    /\ UNCHANGED <<epoch, announcedEpoch, localvar_announcedEpoch, epochbags,
                   index, deamortizedFreeables, opVars, history>>

(* Mutant: only the epoch bags are emptied.                                *)
KeepsFreeables(t) == deamortizedFreeables[t]

LeftByDeinit(t) == {}

(* deinitThread, at the end of a stage: everything is freed at once.       *)
DeinitThread(t) ==
    /\ Leave(t)
    /\ init' = [init EXCEPT ![t] = FALSE]
    /\ epochbags' = [epochbags EXCEPT ![t] = [b \in Bags |-> <<>>]]
    /\ deamortizedFreeables' = [deamortizedFreeables EXCEPT
                                  ![t] = LeftByDeinit(t)]
    /\ UNCHANGED <<epoch, announcedEpoch, localvar_announcedEpoch, index,
                   currentBag, checked, opsSinceRead, opVars, history>>

Loop(t) ==
    /\ \/ SeeStart(t) \/ IsStopped(t) \/ StepCall(t, {}) \/ Post(t)
       \/ dpc[t] = "idle" /\ StepReturn(t)
    /\ UNCHANGED debraVars

ThreadStep(t) ==
    \/ Loop(t) \/ InitThread(t) \/ ReadEpoch(t) \/ Announce(t) \/ Scan(t)
    \/ AdvanceEpoch(t) \/ Retire(t) \/ EndOp(t) \/ DeinitThread(t)

MainStep == Main /\ UNCHANGED debraVars

Finished == mpc = "report" /\ UNCHANGED vars

Next == MainStep \/ Finished \/ \E t \in Threads : ThreadStep(t)

Spec == Init /\ [][Next]_vars

-----------------------------------------------------------------------------

(* DEBRA is a safe reclamation: no record is freed while an operation that *)
(* ran when it was retired still runs.                                     *)
Promise == INSTANCE Reclamation
ReclamationSpec == Promise!Spec

(* A rotation makes a record freeable two epochs after the one in which it *)
(* was retired, or later ("reclaim any objects retired two epochs ago").   *)
RotationIsLate ==
    [][\A t \in Threads : \A r \in InBags(t) \ InBags(t)' :
          tpc[t] = "call" => epoch >= retiredIn[r] + 2 * EPOCH_INCREMENT]_vars

(* No record is forgotten: between stages and at the end every retired     *)
(* record has been freed.                                                  *)
NothingLeaks == mpc \in {"create", "report"} => limbo = {}
=============================================================================
