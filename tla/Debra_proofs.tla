---------------------------- MODULE Debra_proofs ----------------------------
(***************************************************************************)
(* DEBRA frees no record too early and forgets none, for any number of     *)
(* threads, records and stages, and any size of blocks.  The first of the  *)
(* two holds as long as index and currentBag agree in every thread, which  *)
(* initThread does not see to when a thread is initialised again.          *)
(***************************************************************************)
EXTENDS Debra, FiniteSetTheorems, TLAPS

ThreadPC == {"none", "pre", "ready", "loop", "step", "call", "post",
             "barrier", "ended"}
OpPC == {"idle", "announce", "scan", "advance", "body"}

BenchTypeOK ==
    /\ mpc \in {"create", "wait", "join", "report"}
    /\ stage \in 1 .. 3
    /\ running \in Nat
    /\ tpc \in [Threads -> ThreadPC]

TypeOK ==
    /\ epoch \in Nat
    /\ announcedEpoch \in [Threads -> Nat]
    /\ localvar_announcedEpoch \in [Threads -> Nat]
    /\ epochbags \in [Threads -> [Bags -> Seq(Records)]]
    /\ index \in [Threads -> Bags]
    /\ currentBag \in [Threads -> Bags]
    /\ deamortizedFreeables \in [Threads -> SUBSET Records]
    /\ checked \in [Threads -> 0 .. MaxThreads]
    /\ dpc \in [Threads -> OpPC]
    /\ waits \in [Records -> SUBSET Threads]
    /\ retiredIn \in [Records -> Nat]

Bag(t, b) == Range(epochbags[t][b])

(* The threads of a stage exist between its creation and its join; those   *)
(* between THREAD_MEASURED_PRE and POST are counted by running.            *)
Active == {t \in Threads : tpc[t] \in {"ready", "loop", "step", "call", "post"}}
StageInv ==
    /\ \A t \in Threads : tpc[t] # "none" => mpc \in {"wait", "join"} /\ t \in Workers
    /\ running = Cardinality(Active)

(* Where the operation is determines what its thread has announced and how *)
(* far it has checked the others.                                          *)
OpOK(t) ==
    /\ dpc[t] # "idle" => tpc[t] = "call"
    /\ QUIESCENT(announcedEpoch[t]) <=> dpc[t] \in {"idle", "announce"}
    /\ dpc[t] \in {"scan", "advance", "body"} =>
          announcedEpoch[t] = localvar_announcedEpoch[t]
    /\ localvar_announcedEpoch[t] # 1 =>
          /\ localvar_announcedEpoch[t] % 2 = 0
          /\ localvar_announcedEpoch[t] <= epoch
    /\ localvar_announcedEpoch[t] = 1 =>
          dpc[t] = "idle" /\ checked[t] = 0 /\ \A b \in Bags : Bag(t, b) = {}
    /\ dpc[t] \in {"announce", "scan"} => checked[t] < MaxThreads
    /\ dpc[t] = "advance" => checked[t] = MaxThreads
    /\ dpc[t] \in {"idle", "body"} /\ checked[t] = MaxThreads =>
          localvar_announcedEpoch[t] < epoch
OpInv == epoch % 2 = 0 /\ \A t \in Threads : OpOK(t)

(* A thread that is not in a stage has nothing to free.                    *)
EmptyInv ==
    \A t \in Threads : tpc[t] \in {"none", "pre", "ended"} =>
        deamortizedFreeables[t] = {} /\ \A b \in Bags : Bag(t, b) = {}

(* A record is in one place, once.                                         *)
Distinct(bag) == \A i, j \in DOMAIN bag : bag[i] = bag[j] => i = j
PlaceInv ==
    /\ \A t \in Threads, b \in Bags : Distinct(epochbags[t][b])
    /\ \A t, u \in Threads, b, c \in Bags : \A r \in Bag(t, b) \cap Bag(u, c) :
          t = u /\ b = c
    /\ \A t, u \in Threads, b \in Bags : Bag(t, b) \cap deamortizedFreeables[u] = {}
    /\ \A t, u \in Threads :
          t # u => deamortizedFreeables[t] \cap deamortizedFreeables[u] = {}

(* u holds the epoch up: it runs an operation of an earlier epoch, and     *)
(* nobody who could advance the epoch has passed it already.               *)
Stuck(u) ==
    /\ u \in inOp
    /\ announcedEpoch[u] # epoch
    /\ \A s \in Threads : localvar_announcedEpoch[s] = epoch => checked[s] <= u

(* What a retired record waits for: nothing if it may be freed, a thread   *)
(* that holds the epoch up if its bag is the next to be emptied.  An       *)
(* advance of the epoch leaves everyone who is in an operation stuck, and  *)
(* between two rotations there is an advance.                              *)
WaitInv ==
    /\ \A r \in Records : waits[r] \subseteq inOp
    /\ \A t \in Threads : \A r \in deamortizedFreeables[t] : waits[r] = {}
    /\ \A t \in Threads, b \in Bags : \A r \in Bag(t, b) : \A u \in waits[r] :
          /\ b # index[t] => localvar_announcedEpoch[t] = epoch \/ Stuck(u)
          /\ b = NextIndex(index[t]) =>
                localvar_announcedEpoch[t] = epoch /\ Stuck(u)

(* The bags are in the order of the epochs.                                *)
AgeInv ==
    \A t \in Threads, b \in Bags : \A r \in Bag(t, b) :
        /\ retiredIn[r] <= localvar_announcedEpoch[t]
        /\ b # index[t] => retiredIn[r] + EPOCH_INCREMENT <= localvar_announcedEpoch[t]
        /\ b = NextIndex(index[t]) =>
              retiredIn[r] + 2 * EPOCH_INCREMENT <= localvar_announcedEpoch[t]

(* What holds whatever initThread does, and what needs this:               *)
Agree == \A t \in Threads : index[t] = currentBag[t]
IInv == BenchTypeOK /\ StageInv /\ TypeOK /\ OpInv /\ EmptyInv /\ PlaceInv
SafeInv == WaitInv /\ AgeInv

-----------------------------------------------------------------------------
(* Threads, epochs and bags                                                *)

LEMMA ThreadFacts ==
    /\ MaxThreads \in Nat \ {0}
    /\ \A t \in Threads : t \in Nat /\ t < MaxThreads
    /\ IsFiniteSet(Threads)
<1>1. MaxThreads \in Nat \ {0}
  BY BenchAssumption
<1>2. IsFiniteSet(Threads)
  BY <1>1, FS_Interval DEF Threads
<1> QED
  BY <1>1, <1>2 DEF Threads

LEMMA BagFacts ==
    /\ Bags = {0, 1, 2}
    /\ \A b \in Bags : NextIndex(b) \in Bags /\ NextIndex(b) # b
    /\ \A b \in Bags : NextIndex(NextIndex(b)) # b
    /\ \A b, c \in Bags : NextIndex(b) = NextIndex(c) => b = c
  BY DEF Bags, NUMBER_OF_EPOCH_BAGS, NextIndex

(* The parity of an announcement.                                          *)
LEMMA ParityFacts ==
    ASSUME NEW e \in Nat
    PROVE  /\ GET_WITH_QUIESCENT(e) \in Nat
           /\ QUIESCENT(GET_WITH_QUIESCENT(e))
           /\ e % 2 = 0 => ~QUIESCENT(e) /\ BITS_EPOCH(e) = e
  BY DEF GET_WITH_QUIESCENT, QUIESCENT, BITS_EPOCH, EPOCH_INCREMENT

LEMMA BagInRecords ==
    ASSUME TypeOK
    PROVE  \A t \in Threads, b \in Bags : Bag(t, b) \subseteq Records
<1> TAKE t \in Threads, b \in Bags
<1>1. epochbags[t][b] \in Seq(Records)
  BY DEF TypeOK
<1> QED
  BY <1>1 DEF Bag, Range

(* The full blocks and the head block share out the records of a bag.      *)
LEMMA SplitBag ==
    ASSUME NEW bag \in Seq(Records), Distinct(bag)
    PROVE  /\ HeadBlock(bag) \in Seq(Records)
           /\ Distinct(HeadBlock(bag))
           /\ Range(FullBlocks(bag)) \subseteq Range(bag)
           /\ Range(HeadBlock(bag)) = Range(bag) \ Range(FullBlocks(bag))
<1> DEFINE n == Len(bag)
           m == FullLength(bag)
           full == FullBlocks(bag)
           head == HeadBlock(bag)
<1>1. n \in Nat /\ DOMAIN bag = 1 .. n /\ \A i \in 1 .. n : bag[i] \in Records
  OBVIOUS
<1>2. m \in Nat /\ m <= n
  <2> DEFINE q == n \div BLOCK_SIZE
  <2>1. BLOCK_SIZE \in Nat \ {0}
    BY DebraAssumption
  <2>2. q \in Nat /\ BLOCK_SIZE * q <= n
    BY <1>1, <2>1
  <2>3. m = q * BLOCK_SIZE
    BY DEF FullLength
  <2> QED
    BY <1>1, <2>1, <2>2, <2>3
<1> HIDE DEF m
<1>3. full = [i \in 1 .. m |-> bag[i]] /\ DOMAIN full = 1 .. m
  BY <1>1, <1>2 DEF FullBlocks, m
<1>4. head = [i \in 1 .. n - m |-> bag[i + m]] /\ DOMAIN head = 1 .. n - m
  BY <1>1, <1>2 DEF HeadBlock, m
<1> HIDE DEF full, head
<1>5. head \in Seq(Records)
  <2>1. \A i \in 1 .. n - m : bag[i + m] \in Records
    BY <1>1, <1>2
  <2>2. head \in [1 .. n - m -> Records] /\ n - m \in Nat
    BY <1>1, <1>2, <1>4, <2>1
  <2> QED
    BY <2>2
<1>6. \A i \in 1 .. n - m : head[i] = bag[i + m] /\ i + m \in 1 .. n
  BY <1>1, <1>2, <1>4
<1>7. \A i \in 1 .. m : full[i] = bag[i] /\ i \in 1 .. n
  BY <1>1, <1>2, <1>3
<1>8. Distinct(head)
  BY <1>1, <1>2, <1>4, <1>6 DEF Distinct
<1>9. Range(full) \subseteq Range(bag)
  BY <1>1, <1>3, <1>7 DEF Range
<1>10. Range(head) = Range(bag) \ Range(full)
  <2>1. ASSUME NEW r \in Range(head) PROVE r \in Range(bag) /\ r \notin Range(full)
    <3>1. PICK i \in 1 .. n - m : r = head[i]
      BY <2>1, <1>4 DEF Range
    <3>2. r = bag[i + m] /\ i + m \in 1 .. n /\ i + m > m
      BY <3>1, <1>1, <1>2, <1>6
    <3>3. ASSUME NEW j \in 1 .. m, r = full[j] PROVE FALSE
      <4>1. bag[j] = bag[i + m] /\ j \in 1 .. n
        BY <3>2, <3>3, <1>7
      <4>2. j = i + m
        BY <4>1, <3>2, <1>1 DEF Distinct
      <4> QED
        BY <4>2, <3>2, <1>2
    <3> QED
      BY <3>2, <3>3, <1>1, <1>3 DEF Range
  <2>2. ASSUME NEW r \in Range(bag), r \notin Range(full) PROVE r \in Range(head)
    <3>1. PICK i \in 1 .. n : r = bag[i]
      BY <1>1 DEF Range
    <3>2. ~(i <= m)
      BY <2>2, <3>1, <1>1, <1>2, <1>3, <1>7 DEF Range
    <3>3. i - m \in 1 .. n - m /\ (i - m) + m = i
      BY <3>2, <1>1, <1>2
    <3>4. head[i - m] = r
      BY <3>1, <3>3, <1>6
    <3> QED
      BY <3>3, <3>4, <1>4 DEF Range
  <2> QED
    BY <2>1, <2>2
<1> QED
  BY <1>5, <1>8, <1>9, <1>10 DEF full, head

(* The records that startOp moves to deamortizedFreeables.                 *)
Moved(t) ==
    IF epoch = localvar_announcedEpoch[t] THEN {}
    ELSE Range(FullBlocks(epochbags[t][NextIndex(index[t])]))

(* What startOp does to bags and freeable records.                         *)
LEMMA ReadEpochBags ==
    ASSUME TypeOK, PlaceInv, NEW t \in Threads, ReadEpoch(t)
    PROVE  /\ epochbags' \in [Threads -> [Bags -> Seq(Records)]]
           /\ \A u \in Threads, b \in Bags : Distinct(epochbags'[u][b])
           /\ Moved(t) \subseteq Bag(t, NextIndex(index[t]))
           /\ \A u \in Threads, b \in Bags :
                 Bag(u, b)' = IF u = t /\ b = NextIndex(index[t])
                              THEN Bag(u, b) \ Moved(t) ELSE Bag(u, b)
           /\ \E freed \in SUBSET (deamortizedFreeables[t] \cup Moved(t)) :
                 deamortizedFreeables' =
                    [deamortizedFreeables EXCEPT
                       ![t] = (deamortizedFreeables[t] \cup Moved(t)) \ freed]
<1> DEFINE next == NextIndex(index[t])
           bag == epochbags[t][next]
<1>1. next \in Bags /\ bag \in Seq(Records) /\ Distinct(bag)
  <2>1. next \in Bags
    BY BagFacts DEF TypeOK
  <2> QED
    BY <2>1 DEF TypeOK, PlaceInv
<1>2. \E freed \in SUBSET (deamortizedFreeables[t] \cup Moved(t)) :
          deamortizedFreeables' =
             [deamortizedFreeables EXCEPT
                ![t] = (deamortizedFreeables[t] \cup Moved(t)) \ freed]
  <2>1. Freeable(t) = deamortizedFreeables[t] \cup Moved(t)
    BY DEF Freeable, Moved
  <2>2. PICK r \in (IF Freeable(t) = {} THEN {{}} ELSE {{f} : f \in Freeable(t)}) :
            deamortizedFreeables' = [deamortizedFreeables EXCEPT
                                       ![t] = Freeable(t) \ r]
    BY DEF ReadEpoch
  <2>3. r \subseteq Freeable(t)
    <3>1. CASE Freeable(t) = {}
      BY <2>2, <3>1
    <3>2. CASE Freeable(t) # {}
      BY <2>2, <3>2
    <3> QED
      BY <3>1, <3>2
  <2> QED
    BY <2>1, <2>2, <2>3
<1>3. CASE epoch = localvar_announcedEpoch[t]
  <2>1. epochbags' = epochbags /\ Moved(t) = {}
    BY <1>3 DEF ReadEpoch, Moved
  <2> QED
    BY <1>2, <2>1 DEF TypeOK, PlaceInv, Bag
<1>4. CASE epoch # localvar_announcedEpoch[t]
  <2>1. /\ epochbags' = [epochbags EXCEPT ![t][next] = HeadBlock(bag)]
        /\ Moved(t) = Range(FullBlocks(bag))
    BY <1>4 DEF ReadEpoch, Rotate, Moved
  <2> HIDE DEF next, bag
  <2>2. /\ HeadBlock(bag) \in Seq(Records) /\ Distinct(HeadBlock(bag))
        /\ Moved(t) \subseteq Range(bag)
        /\ Range(HeadBlock(bag)) = Range(bag) \ Moved(t)
    BY <1>1, <2>1, SplitBag
  <2>3. epochbags' \in [Threads -> [Bags -> Seq(Records)]]
    BY <1>1, <2>1, <2>2 DEF TypeOK
  <2>4. \A u \in Threads, b \in Bags :
            epochbags'[u][b] = IF u = t /\ b = next THEN HeadBlock(bag)
                                                   ELSE epochbags[u][b]
    BY <1>1, <2>1 DEF TypeOK
  <2>5. \A u \in Threads, b \in Bags : Distinct(epochbags'[u][b])
    BY <2>2, <2>4 DEF PlaceInv
  <2>6. Bag(t, next) = Range(bag)
    BY DEF Bag, bag
  <2>7. \A u \in Threads, b \in Bags :
            Bag(u, b)' = IF u = t /\ b = next THEN Bag(u, b) \ Moved(t)
                                             ELSE Bag(u, b)
    BY <2>2, <2>4, <2>6 DEF Bag
  <2> QED
    BY <1>2, <2>2, <2>3, <2>5, <2>6, <2>7 DEF next
<1> QED
  BY <1>3, <1>4

(* What retire does to the bags.                                           *)
LEMMA RetireBags ==
    ASSUME TypeOK, PlaceInv, NEW t \in Threads, NEW r \in Records \ limbo,
           epochbags' = [epochbags EXCEPT ![t][currentBag[t]] = Append(@, r)]
    PROVE  /\ epochbags' \in [Threads -> [Bags -> Seq(Records)]]
           /\ \A u \in Threads, b \in Bags : Distinct(epochbags'[u][b])
           /\ \A u \in Threads, b \in Bags :
                 Bag(u, b)' = IF u = t /\ b = currentBag[t]
                              THEN Bag(u, b) \cup {r} ELSE Bag(u, b)
           /\ \A u \in Threads, b \in Bags :
                 r \notin Bag(u, b) /\ r \notin deamortizedFreeables[u]
<1> DEFINE cur == currentBag[t]
           bag == epochbags[t][cur]
           longer == Append(bag, r)
<1>1. cur \in Bags /\ bag \in Seq(Records) /\ Distinct(bag)
  BY DEF TypeOK, PlaceInv
<1>2. \A u \in Threads, b \in Bags :
          r \notin Bag(u, b) /\ r \notin deamortizedFreeables[u]
  BY DEF limbo, InBags, Bag
<1>3. epochbags' = [epochbags EXCEPT ![t][cur] = longer]
  OBVIOUS
<1>4. r \notin Range(bag)
  BY <1>1, <1>2 DEF Bag
<1> HIDE DEF cur, bag
<1>5. /\ longer \in Seq(Records)
      /\ DOMAIN longer = 1 .. Len(bag) + 1
      /\ \A i \in 1 .. Len(bag) : longer[i] = bag[i]
      /\ longer[Len(bag) + 1] = r
      /\ DOMAIN bag = 1 .. Len(bag) /\ Len(bag) \in Nat
  BY <1>1
<1>6. Range(longer) = Range(bag) \cup {r}
  BY <1>5 DEF Range
<1>7. Distinct(longer)
  BY <1>1, <1>4, <1>5 DEF Distinct, Range
<1> HIDE DEF longer
<1>8. epochbags' \in [Threads -> [Bags -> Seq(Records)]]
  BY <1>1, <1>3, <1>5 DEF TypeOK
<1>9. \A u \in Threads, b \in Bags :
          epochbags'[u][b] = IF u = t /\ b = cur THEN longer
                                                ELSE epochbags[u][b]
  <2>1. /\ epochbags'[t] = [epochbags[t] EXCEPT ![cur] = longer]
        /\ \A u \in Threads \ {t} : epochbags'[u] = epochbags[u]
    BY <1>3 DEF TypeOK
  <2>2. epochbags[t] \in [Bags -> Seq(Records)]
    BY DEF TypeOK
  <2>3. \A b \in Bags : epochbags'[t][b] = IF b = cur THEN longer
                                                  ELSE epochbags[t][b]
    BY <1>1, <2>1, <2>2
  <2> QED
    BY <2>1, <2>3
<1>10. \A u \in Threads, b \in Bags : Distinct(epochbags'[u][b])
  BY <1>7, <1>9 DEF PlaceInv
<1>11. Bag(t, cur) = Range(bag)
  BY DEF Bag, bag
<1>12. \A u \in Threads, b \in Bags :
          Bag(u, b)' = IF u = t /\ b = cur THEN Bag(u, b) \cup {r} ELSE Bag(u, b)
  <2> TAKE u \in Threads, b \in Bags
  <2>1. CASE u = t /\ b = cur
    BY <1>6, <1>9, <1>11, <2>1 DEF Bag
  <2>2. CASE ~(u = t /\ b = cur)
    BY <1>9, <2>2 DEF Bag
  <2> QED
    BY <2>1, <2>2
<1> QED
  BY <1>2, <1>8, <1>10, <1>12 DEF cur

(* deinitThread leaves nothing.                                            *)
LEMMA DeinitBags ==
    ASSUME TypeOK, PlaceInv, NEW t \in Threads, DeinitThread(t)
    PROVE  /\ epochbags' \in [Threads -> [Bags -> Seq(Records)]]
           /\ \A u \in Threads, b \in Bags : Distinct(epochbags'[u][b])
           /\ \A u \in Threads, b \in Bags :
                 Bag(u, b)' = IF u = t THEN {} ELSE Bag(u, b)
           /\ deamortizedFreeables' = [deamortizedFreeables EXCEPT ![t] = {}]
<1>1. /\ epochbags' = [epochbags EXCEPT ![t] = [b \in Bags |-> <<>>]]
      /\ deamortizedFreeables' = [deamortizedFreeables EXCEPT ![t] = {}]
  BY DEF DeinitThread, LeftByDeinit
<1>2. epochbags' \in [Threads -> [Bags -> Seq(Records)]]
  <2>1. [b \in Bags |-> <<>>] \in [Bags -> Seq(Records)]
    OBVIOUS
  <2> QED
    BY <1>1, <2>1 DEF TypeOK
<1>3. \A u \in Threads, b \in Bags :
          epochbags'[u][b] = IF u = t THEN <<>> ELSE epochbags[u][b]
  BY <1>1 DEF TypeOK
<1>4. Range(<<>>) = {} /\ Distinct(<<>>)
  BY DEF Range, Distinct
<1> QED
  BY <1>1, <1>2, <1>3, <1>4 DEF PlaceInv, Bag

-----------------------------------------------------------------------------
(* The harness                                                             *)

(* A step of a thread's loop.                                              *)
LEMMA LoopBench ==
    ASSUME BenchTypeOK, StageInv, NEW t \in Threads,
           NEW to \in ThreadPC \ {"none"}, tpc[t] # "none",
           tpc' = [tpc EXCEPT ![t] = to], UNCHANGED <<mpc, stage>>,
           running' = Cardinality(Active')
    PROVE  BenchTypeOK' /\ StageInv'
<1>1. IsFiniteSet(Active') /\ tpc' \in [Threads -> ThreadPC]
  <2>1. tpc' \in [Threads -> ThreadPC]
    BY DEF BenchTypeOK
  <2>2. Active' \subseteq Threads
    BY DEF Active
  <2> QED
    BY <2>1, <2>2, ThreadFacts, FS_Subset
<1>2. running' \in Nat
  BY <1>1, FS_CardinalityType
<1>3. BenchTypeOK'
  BY <1>1, <1>2 DEF BenchTypeOK
<1>4. \A u \in Threads : tpc'[u] # "none" => mpc' \in {"wait", "join"} /\ u \in Workers'
  BY DEF BenchTypeOK, StageInv, Workers, Current
<1> QED
  BY <1>3, <1>4 DEF StageInv

(* The harness keeps count of its threads.                                 *)
LEMMA BenchStep ==
    ASSUME BenchTypeOK, StageInv, Next
    PROVE  BenchTypeOK' /\ StageInv'
<1>1. IsFiniteSet(Active) /\ Active \subseteq Threads
  <2>1. Active \subseteq Threads
    BY DEF Active
  <2> QED
    BY <2>1, ThreadFacts, FS_Subset
<1>2. CASE UNCHANGED <<mpc, stage, running, tpc>>
  BY <1>2 DEF BenchTypeOK, StageInv, Active, Workers, Current
<1>3. ASSUME NEW t \in Threads, Pre(t) PROVE BenchTypeOK' /\ StageInv'
  <2>1. /\ tpc[t] = "pre" /\ tpc' = [tpc EXCEPT ![t] = "ready"]
        /\ UNCHANGED <<mpc, stage>> /\ running' = running + 1
    BY <1>3 DEF Pre, To
  <2>2. Active' = Active \cup {t} /\ t \notin Active
    BY <2>1 DEF Active, BenchTypeOK
  <2>3. running' = Cardinality(Active')
    BY <1>1, <2>1, <2>2, FS_AddElement DEF StageInv
  <2> QED
    BY <2>1, <2>3, LoopBench DEF ThreadPC
<1>4. ASSUME NEW t \in Threads, Post(t) PROVE BenchTypeOK' /\ StageInv'
  <2>1. /\ tpc[t] = "post" /\ tpc' = [tpc EXCEPT ![t] = "barrier"]
        /\ UNCHANGED <<mpc, stage>> /\ running' = running - 1
    BY <1>4 DEF Post, To
  <2>2. Active' = Active \ {t} /\ t \in Active
    BY <2>1 DEF Active, BenchTypeOK
  <2>3. running' = Cardinality(Active')
    BY <1>1, <2>1, <2>2, FS_RemoveElement DEF StageInv
  <2> QED
    BY <2>1, <2>3, LoopBench DEF ThreadPC
<1>5. ASSUME NEW t \in Threads,
             SeeStart(t) \/ IsStopped(t) \/ StepCall(t, {}) \/ StepReturn(t) \/ Leave(t)
      PROVE  BenchTypeOK' /\ StageInv'
  <2>1. PICK to \in ThreadPC \ {"none"} :
          /\ tpc[t] # "none" /\ tpc' = [tpc EXCEPT ![t] = to]
          /\ UNCHANGED <<mpc, stage, running>>
          /\ tpc[t] \in {"ready", "loop", "step", "call", "post"}
                <=> to \in {"ready", "loop", "step", "call", "post"}
    BY <1>5 DEF SeeStart, IsStopped, StepCall, StepReturn, Leave, To, ThreadPC
  <2>2. Active' = Active
    BY <2>1 DEF Active, BenchTypeOK
  <2> QED
    BY <2>1, <2>2, LoopBench DEF StageInv
<1>6. CASE MainStep
  <2>1. CASE SkipStage
    <3>1. /\ mpc = "create" /\ stage' \in 1 .. 3 /\ UNCHANGED <<mpc, running, tpc>>
      BY <2>1 DEF SkipStage, BenchTypeOK
    <3>2. \A u \in Threads : tpc[u] = "none"
      BY <3>1 DEF StageInv
    <3> QED
      BY <3>1, <3>2 DEF BenchTypeOK, StageInv, Active
  <2>2. CASE CreateThreads
    <3>1. /\ mpc = "create" /\ mpc' = "wait" /\ UNCHANGED <<stage, running>>
          /\ tpc' = [t \in Threads |-> IF t \in Workers THEN "pre" ELSE tpc[t]]
      BY <2>2 DEF CreateThreads
    <3>2. \A u \in Threads : tpc[u] = "none"
      BY <3>1 DEF StageInv
    <3>3. Active' = Active
      BY <3>1, <3>2 DEF Active
    <3>4. BenchTypeOK'
      BY <3>1, <3>2 DEF BenchTypeOK, ThreadPC
    <3>5. \A u \in Threads : tpc'[u] # "none" => mpc' \in {"wait", "join"} /\ u \in Workers'
      BY <3>1, <3>2 DEF Workers, Current
    <3> QED
      BY <3>1, <3>3, <3>4, <3>5 DEF StageInv
  <2>3. CASE StartThreads
    BY <2>3 DEF StartThreads, BenchTypeOK, StageInv, Active, Workers, Current
  <2>4. CASE JoinThreads
    <3>1. /\ mpc' \in {"create", "report"} /\ running' = running
          /\ tpc' = [t \in Threads |-> "none"] /\ stage' \in 1 .. 3
          /\ \A t \in Workers : tpc[t] = "ended"
      BY <2>4 DEF JoinThreads, AllEnded, BenchTypeOK
    <3>2. \A u \in Threads : tpc[u] \in {"none", "ended"}
      BY <3>1 DEF StageInv
    <3>3. Active' = Active
      BY <3>1, <3>2 DEF Active
    <3>4. BenchTypeOK'
      BY <3>1 DEF BenchTypeOK, ThreadPC
    <3> QED
      BY <3>1, <3>3, <3>4 DEF StageInv
  <2> QED
    BY <1>6, <2>1, <2>2, <2>3, <2>4 DEF MainStep, Main
<1>7. ASSUME NEW t \in Threads,
             \/ ReadEpoch(t) \/ Announce(t) \/ Scan(t) \/ AdvanceEpoch(t)
             \/ Retire(t) \/ EndOp(t)
      PROVE  UNCHANGED <<mpc, stage, running, tpc>>
  BY <1>7
  DEF ReadEpoch, Announce, Scan, AdvanceEpoch, Retire, EndOp, benchVars
<1>8. CASE Finished
  BY <1>2, <1>8 DEF Finished, vars, benchVars
<1>9. ASSUME NEW t \in Threads, ThreadStep(t) PROVE BenchTypeOK' /\ StageInv'
  <2>1. CASE Loop(t)
    BY <2>1, <1>4, <1>5 DEF Loop
  <2>2. CASE InitThread(t)
    BY <2>2, <1>3 DEF InitThread
  <2>3. CASE DeinitThread(t)
    BY <2>3, <1>5 DEF DeinitThread
  <2> QED
    BY <1>2, <1>7, <1>9, <2>1, <2>2, <2>3 DEF ThreadStep
<1> QED
  BY <1>6, <1>8, <1>9 DEF Next

-----------------------------------------------------------------------------
(* Operations, bags and places                                             *)

(* The constructor.                                                        *)
LEMMA InitInv == Init => IInv /\ SafeInv
<1> SUFFICES ASSUME Init PROVE IInv /\ SafeInv
  OBVIOUS
<1> USE DEF Init, BenchInit
<1>1. tpc = [t \in Threads |-> "none"] /\ running = 0 /\ mpc = "create" /\ stage = 1
  OBVIOUS
<1>2. Active = {}
  BY <1>1 DEF Active
<1>3. BenchTypeOK
  BY <1>1 DEF BenchTypeOK, ThreadPC
<1>4. StageInv
  BY <1>1, <1>2, FS_EmptySet DEF StageInv
<1>5. GET_WITH_QUIESCENT(0) = 1 /\ QUIESCENT(1)
  BY DEF GET_WITH_QUIESCENT, QUIESCENT
<1>6. \A t \in Threads, b \in Bags : epochbags[t][b] = <<>>
  OBVIOUS
<1>7. epochbags \in [Threads -> [Bags -> Seq(Records)]]
  <2>1. [b \in Bags |-> <<>>] \in [Bags -> Seq(Records)]
    OBVIOUS
  <2> QED
    BY <2>1
<1>8. Range(<<>>) = {} /\ Distinct(<<>>)
  BY DEF Range, Distinct
<1>9. \A t \in Threads, b \in Bags : Bag(t, b) = {}
  BY <1>6, <1>8 DEF Bag
<1>10. /\ epoch = 0
       /\ announcedEpoch = [t \in Threads |-> 1]
       /\ localvar_announcedEpoch = [t \in Threads |-> 1]
       /\ index = [t \in Threads |-> 0] /\ currentBag = [t \in Threads |-> 0]
       /\ deamortizedFreeables = [t \in Threads |-> {}]
       /\ checked = [t \in Threads |-> 0] /\ dpc = [t \in Threads |-> "idle"]
       /\ waits = [r \in Records |-> {}] /\ retiredIn = [r \in Records |-> 0]
  BY <1>5
<1>11. TypeOK
  BY <1>7, <1>10, ThreadFacts, BagFacts DEF TypeOK, OpPC
<1>12. OpInv
  BY <1>5, <1>9, <1>10, ThreadFacts DEF OpInv, OpOK
<1>13. EmptyInv
  BY <1>9, <1>10 DEF EmptyInv
<1>14. PlaceInv
  BY <1>6, <1>8, <1>9, <1>10 DEF PlaceInv
<1>15. SafeInv
  BY <1>9, <1>10 DEF SafeInv, WaitInv, AgeInv
<1> QED
  BY <1>3, <1>4, <1>11, <1>12, <1>13, <1>14, <1>15 DEF IInv

(* The places of records follow from bags and freeable records.            *)
LEMMA PlaceFrame ==
    ASSUME UNCHANGED <<epochbags, deamortizedFreeables>>
    PROVE  /\ \A t \in Threads, b \in Bags : Bag(t, b)' = Bag(t, b)
           /\ PlaceInv => PlaceInv'
           /\ limbo' = limbo
<1>1. \A t \in Threads, b \in Bags : Bag(t, b)' = Bag(t, b)
  BY DEF Bag
<1>2. PlaceInv => PlaceInv'
  BY <1>1 DEF PlaceInv
<1>3. limbo' = limbo
  BY DEF limbo, InBags
<1> QED
  BY <1>1, <1>2, <1>3

(* The harness does not touch the reclaimer.                               *)
LEMMA OuterInv ==
    ASSUME IInv, MainStep \/ Finished \/ \E t \in Threads : Loop(t)
    PROVE  TypeOK' /\ OpInv' /\ EmptyInv' /\ PlaceInv'
<1> USE DEF IInv
<1>1. UNCHANGED debraVars
  BY DEF MainStep, Finished, Loop, vars
<1>2. TypeOK'
  BY <1>1 DEF debraVars, threadVars, opVars, history, TypeOK
<1>3. /\ \A t \in Threads, b \in Bags : Bag(t, b)' = Bag(t, b)
      /\ PlaceInv'
  BY <1>1, PlaceFrame DEF debraVars, threadVars
<1>4. \A t \in Threads :
        /\ dpc[t] # "idle" => tpc'[t] = "call"
        /\ tpc'[t] \in {"none", "pre", "ended"} => tpc[t] \in {"none", "pre", "ended"}
  <2>1. CASE MainStep
    <3>1. CASE SkipStage \/ StartThreads
      BY <3>1 DEF SkipStage, StartThreads, OpInv, OpOK
    <3>2. CASE CreateThreads
      <4>1. \A t \in Threads : tpc[t] = "none"
        BY <3>2 DEF CreateThreads, StageInv
      <4> QED
        BY <4>1 DEF OpInv, OpOK
    <3>3. CASE JoinThreads
      <4>1. \A t \in Threads : tpc[t] \in {"none", "ended"}
        BY <3>3 DEF JoinThreads, AllEnded, StageInv
      <4> QED
        BY <4>1 DEF OpInv, OpOK
    <3> QED
      BY <2>1, <3>1, <3>2, <3>3 DEF MainStep, Main
  <2>2. CASE Finished
    BY <2>2 DEF Finished, vars, benchVars, OpInv, OpOK
  <2>3. ASSUME NEW t \in Threads, Loop(t)
        PROVE  /\ dpc[t] = "idle" /\ tpc'[t] \notin {"none", "pre", "ended"}
               /\ \A u \in Threads \ {t} : tpc'[u] = tpc[u]
    <3>1. \/ dpc[t] = "idle" /\ tpc[t] = "call"
          \/ tpc[t] \in {"ready", "loop", "step", "post"}
      BY <2>3
      DEF Loop, SeeStart, IsStopped, StepCall, StepReturn, Post, To
    <3>2. \E to \in {"loop", "post", "step", "call", "barrier"} :
            tpc' = [tpc EXCEPT ![t] = to]
      BY <2>3
      DEF Loop, SeeStart, IsStopped, StepCall, StepReturn, Post, To
    <3>3. dpc[t] = "idle"
      BY <3>1 DEF OpInv, OpOK
    <3> QED
      BY <3>2, <3>3 DEF BenchTypeOK
  <2>4. CASE \E t \in Threads : Loop(t)
    BY <2>3, <2>4 DEF OpInv, OpOK
  <2> QED
    BY <2>1, <2>2, <2>4
<1>5. OpInv'
  BY <1>1, <1>3, <1>4 DEF debraVars, threadVars, opVars, OpInv, OpOK
<1>6. EmptyInv'
  BY <1>1, <1>3, <1>4 DEF debraVars, threadVars, EmptyInv
<1> QED
  BY <1>2, <1>3, <1>5, <1>6

(* A step of another thread leaves a thread's operation as it is.          *)
LEMMA OpFrame ==
    ASSUME TypeOK, NEW u \in Threads, OpOK(u), epoch' \in Nat, epoch' >= epoch,
           tpc'[u] = tpc[u], dpc'[u] = dpc[u], checked'[u] = checked[u],
           announcedEpoch'[u] = announcedEpoch[u],
           localvar_announcedEpoch'[u] = localvar_announcedEpoch[u],
           \A b \in Bags : Bag(u, b) = {} => Bag(u, b)' = {}
    PROVE  OpOK(u)'
<1>1. localvar_announcedEpoch[u] \in Nat /\ epoch \in Nat
  BY DEF TypeOK
<1>2. /\ localvar_announcedEpoch[u] <= epoch => localvar_announcedEpoch[u] <= epoch'
      /\ localvar_announcedEpoch[u] < epoch => localvar_announcedEpoch[u] < epoch'
  BY <1>1
<1>3. QUIESCENT(announcedEpoch[u])' <=> QUIESCENT(announcedEpoch[u])
  BY DEF QUIESCENT
<1> QED
  BY <1>2, <1>3 DEF OpOK

(* startOp up to the announcement.                                         *)
LEMMA ReadEpochInv ==
    ASSUME IInv, NEW t \in Threads, ReadEpoch(t)
    PROVE  TypeOK' /\ OpInv' /\ EmptyInv' /\ PlaceInv'
<1> USE DEF IInv
<1>1. /\ tpc[t] = "call" /\ dpc[t] = "idle"
      /\ tpc' = tpc /\ epoch' = epoch /\ announcedEpoch' = announcedEpoch
      /\ waits' = waits /\ retiredIn' = retiredIn
      /\ dpc' = [dpc EXCEPT ![t] = "announce"]
      /\ localvar_announcedEpoch' = [localvar_announcedEpoch EXCEPT ![t] = epoch]
  BY DEF ReadEpoch, benchVars, history
<1>2. /\ index' \in [Threads -> Bags] /\ currentBag' \in [Threads -> Bags]
      /\ checked' = [checked EXCEPT
                       ![t] = IF epoch = localvar_announcedEpoch[t] THEN @ ELSE 0]
  <2>1. NextIndex(index[t]) \in Bags
    BY BagFacts DEF TypeOK
  <2>2. index \in [Threads -> Bags] /\ currentBag \in [Threads -> Bags]
        /\ checked = [u \in Threads |-> checked[u]]
    BY DEF TypeOK
  <2>3. CASE epoch # localvar_announcedEpoch[t]
    <3>1. /\ index' = [index EXCEPT ![t] = NextIndex(index[t])]
          /\ currentBag' = [currentBag EXCEPT ![t] = NextIndex(index[t])]
          /\ checked' = [checked EXCEPT ![t] = 0]
      BY <2>3 DEF ReadEpoch, Rotate
    <3> QED
      BY <2>1, <2>2, <2>3, <3>1
  <2>4. CASE epoch = localvar_announcedEpoch[t]
    <3>1. UNCHANGED <<index, currentBag, checked>>
      BY <2>4 DEF ReadEpoch
    <3> QED
      BY <2>2, <2>4, <3>1
  <2> QED
    BY <2>3, <2>4
<1>3. PICK freed \in SUBSET (deamortizedFreeables[t] \cup Moved(t)) :
        /\ deamortizedFreeables' =
             [deamortizedFreeables EXCEPT
                ![t] = (deamortizedFreeables[t] \cup Moved(t)) \ freed]
        /\ epochbags' \in [Threads -> [Bags -> Seq(Records)]]
        /\ \A u \in Threads, b \in Bags : Distinct(epochbags'[u][b])
        /\ Moved(t) \subseteq Bag(t, NextIndex(index[t]))
        /\ \A u \in Threads, b \in Bags :
              Bag(u, b)' = IF u = t /\ b = NextIndex(index[t])
                           THEN Bag(u, b) \ Moved(t) ELSE Bag(u, b)
  BY ReadEpochBags
<1>4. NextIndex(index[t]) \in Bags
  BY BagFacts DEF TypeOK
<1>5. \A u \in Threads, b \in Bags : Bag(u, b) \subseteq Records
  BY BagInRecords
<1>6. TypeOK'
  <2>1. deamortizedFreeables' \in [Threads -> SUBSET Records]
    BY <1>3, <1>4, <1>5 DEF TypeOK
  <2>2. checked' \in [Threads -> 0 .. MaxThreads]
    BY <1>2, ThreadFacts DEF TypeOK
  <2>3. dpc' \in [Threads -> OpPC]
    BY <1>1 DEF TypeOK, OpPC
  <2>4. localvar_announcedEpoch' \in [Threads -> Nat]
    BY <1>1 DEF TypeOK
  <2> QED
    BY <1>1, <1>2, <1>3, <2>1, <2>2, <2>3, <2>4 DEF TypeOK
<1>7. OpOK(t)'
  <2>1. /\ dpc'[t] = "announce" /\ tpc'[t] = "call"
        /\ localvar_announcedEpoch'[t] = epoch
        /\ checked'[t] = IF epoch = localvar_announcedEpoch[t] THEN checked[t] ELSE 0
    BY <1>1, <1>2 DEF TypeOK
  <2>2. epoch \in Nat /\ epoch % 2 = 0 /\ epoch # 1
    BY DEF TypeOK, OpInv
  <2>3. OpOK(t) /\ checked[t] \in 0 .. MaxThreads
    BY DEF OpInv, TypeOK
  <2>4. checked'[t] < MaxThreads
    BY <1>1, <2>1, <2>2, <2>3, ThreadFacts DEF OpOK
  <2>5. QUIESCENT(announcedEpoch'[t])
    BY <1>1, <2>3 DEF OpOK
  <2> QED
    BY <1>1, <2>1, <2>2, <2>4, <2>5 DEF OpOK
<1>8. OpInv'
  <2>1. ASSUME NEW u \in Threads \ {t} PROVE OpOK(u)'
    <3>1. /\ dpc'[u] = dpc[u] /\ checked'[u] = checked[u]
          /\ localvar_announcedEpoch'[u] = localvar_announcedEpoch[u]
      BY <1>1, <1>2 DEF TypeOK
    <3>2. OpOK(u) /\ epoch' \in Nat /\ epoch' >= epoch
      BY <1>1 DEF OpInv, TypeOK
    <3> QED
      BY <1>1, <1>3, <3>1, <3>2, OpFrame
  <2> QED
    BY <1>1, <1>7, <2>1 DEF OpInv
<1>9. EmptyInv'
  <2>1. \A u \in Threads \ {t} : deamortizedFreeables'[u] = deamortizedFreeables[u]
    BY <1>3 DEF TypeOK
  <2> QED
    BY <1>1, <1>3, <2>1 DEF EmptyInv
<1>10. PlaceInv'
  <2>1. /\ \A u \in Threads \ {t} : deamortizedFreeables'[u] = deamortizedFreeables[u]
        /\ deamortizedFreeables'[t] \subseteq deamortizedFreeables[t] \cup Moved(t)
    BY <1>3 DEF TypeOK
  <2>2. \A u \in Threads, b \in Bags :
           Bag(u, b)' \subseteq Bag(u, b) /\ Bag(u, b)' \cap Moved(t) = {}
    BY <1>3, <1>4 DEF PlaceInv
  <2>3. \A u \in Threads : Moved(t) \cap deamortizedFreeables[u] = {}
    BY <1>3, <1>4 DEF PlaceInv
  <2>4. \A u, v \in Threads, b, c \in Bags : \A r \in Bag(u, b)' \cap Bag(v, c)' :
           u = v /\ b = c
    BY <2>2 DEF PlaceInv
  <2>5. \A u, v \in Threads, b \in Bags : Bag(u, b)' \cap deamortizedFreeables'[v] = {}
    BY <2>1, <2>2 DEF PlaceInv
  <2>6. \A u, v \in Threads :
           u # v => deamortizedFreeables'[u] \cap deamortizedFreeables'[v] = {}
    BY <2>1, <2>3 DEF PlaceInv
  <2> QED
    BY <1>3, <2>4, <2>5, <2>6 DEF PlaceInv
<1> QED
  BY <1>6, <1>8, <1>9, <1>10

(* The steps that leave bags and freeable records alone and change the     *)
(* operation of one thread.                                                *)
LEMMA QuietInv ==
    ASSUME IInv, NEW t \in Threads,
           Announce(t) \/ Scan(t) \/ AdvanceEpoch(t) \/ InitThread(t)
    PROVE  TypeOK' /\ OpInv' /\ EmptyInv' /\ PlaceInv'
<1> USE DEF IInv
<1>1. /\ UNCHANGED <<epochbags, deamortizedFreeables, waits, retiredIn, index,
                     localvar_announcedEpoch>>
      /\ dpc' \in [Threads -> OpPC] /\ \A u \in Threads \ {t} : dpc'[u] = dpc[u]
      /\ \A u \in Threads \ {t} : announcedEpoch'[u] = announcedEpoch[u]
      /\ \A u \in Threads \ {t} : tpc'[u] = tpc[u]
      /\ tpc[t] # "pre" => tpc'[t] = tpc[t]
      /\ tpc[t] = "pre" => tpc'[t] = "ready"
  <2>1. CASE Announce(t)
    BY <2>1 DEF Announce, TypeOK, OpPC, OpInv, OpOK, benchVars, history
  <2>2. CASE Scan(t)
    BY <2>2 DEF Scan, TypeOK, OpPC, OpInv, OpOK, benchVars, history
  <2>3. CASE AdvanceEpoch(t)
    BY <2>3
    DEF AdvanceEpoch, TypeOK, OpPC, OpInv, OpOK, benchVars, threadVars, history
  <2>4. CASE InitThread(t)
    BY <2>4
    DEF InitThread, Pre, To, BenchTypeOK, TypeOK, OpPC, OpInv, OpOK, opVars, history
  <2> QED
    BY <2>1, <2>2, <2>3, <2>4
<1>2. /\ announcedEpoch' \in [Threads -> Nat]
      /\ currentBag' \in [Threads -> Bags]
      /\ epoch' \in Nat /\ epoch' >= epoch /\ epoch' % 2 = 0
  <2>1. CASE Announce(t)
    BY <2>1 DEF Announce, TypeOK, OpInv
  <2>2. CASE Scan(t)
    BY <2>2 DEF Scan, TypeOK, OpInv
  <2>3. CASE AdvanceEpoch(t)
    <3>1. epoch \in Nat /\ epoch % 2 = 0
      BY DEF TypeOK, OpInv
    <3>2. epoch' \in {epoch, epoch + 2}
      BY <2>3 DEF AdvanceEpoch, EPOCH_INCREMENT
    <3>3. epoch + 2 \in Nat /\ (epoch + 2) % 2 = 0
      BY <3>1
    <3>4. epoch' \in Nat /\ epoch' >= epoch /\ epoch' % 2 = 0
      <4>1. CASE epoch' = epoch
        BY <3>1, <4>1
      <4>2. CASE epoch' = epoch + 2
        BY <3>1, <3>3, <4>2
      <4> QED
        BY <3>2, <4>1, <4>2
    <3> QED
      BY <2>3, <3>4 DEF AdvanceEpoch, threadVars, TypeOK
  <2>4. CASE InitThread(t)
    <3>1. /\ epoch' = epoch /\ announcedEpoch' = announcedEpoch
          /\ currentBag' = currentBag \/ currentBag' = [currentBag EXCEPT ![t] = 0]
      BY <2>4 DEF InitThread
    <3>2. epoch \in Nat /\ epoch % 2 = 0
      BY DEF TypeOK, OpInv
    <3>3. currentBag' \in [Threads -> Bags]
      BY <3>1, BagFacts DEF TypeOK
    <3> QED
      BY <3>1, <3>2, <3>3 DEF TypeOK
  <2> QED
    BY <2>1, <2>2, <2>3, <2>4
<1>3. checked' \in [Threads -> 0 .. MaxThreads]
      /\ \A u \in Threads \ {t} : checked'[u] = checked[u]
  <2>1. CASE Announce(t) \/ AdvanceEpoch(t)
    BY <2>1 DEF Announce, AdvanceEpoch, threadVars, TypeOK
  <2>2. CASE Scan(t)
    <3>1. \E c \in {checked[t], checked[t] + 1} : checked' = [checked EXCEPT ![t] = c]
      BY <2>2 DEF Scan
    <3>2. checked[t] \in 0 .. MaxThreads /\ checked[t] < MaxThreads
      BY <2>2 DEF Scan, OpInv, OpOK, TypeOK
    <3> QED
      BY <3>1, <3>2, ThreadFacts DEF TypeOK
  <2>3. CASE InitThread(t)
    <3>1. checked' = checked \/ checked' = [checked EXCEPT ![t] = 0]
      BY <2>3 DEF InitThread
    <3>2. 0 \in 0 .. MaxThreads /\ checked \in [Threads -> 0 .. MaxThreads]
      BY ThreadFacts DEF TypeOK
    <3> QED
      BY <3>1, <3>2
  <2> QED
    BY <2>1, <2>2, <2>3
<1>4. TypeOK'
  BY <1>1, <1>2, <1>3 DEF TypeOK
<1>5. /\ \A u \in Threads, b \in Bags : Bag(u, b)' = Bag(u, b)
      /\ PlaceInv'
  BY <1>1, PlaceFrame
<1>6. EmptyInv'
  <2>1. \A u \in Threads : tpc'[u] \in {"none", "pre", "ended"} =>
                            tpc[u] \in {"none", "pre", "ended"}
    BY <1>1
  <2> QED
    BY <1>1, <1>5, <2>1 DEF EmptyInv
<1>7. OpOK(t) /\ tpc[t] \in ThreadPC
  BY DEF OpInv, BenchTypeOK
<1>8. OpOK(t)'
  <2>1. CASE Announce(t)
    <3>1. /\ dpc[t] = "announce" /\ dpc'[t] = "scan" /\ UNCHANGED <<epoch, checked, tpc>>
          /\ announcedEpoch'[t] = localvar_announcedEpoch[t]
      BY <2>1 DEF Announce, TypeOK, benchVars
    <3>2. localvar_announcedEpoch[t] \in Nat /\ localvar_announcedEpoch[t] % 2 = 0
      BY <3>1, <1>7 DEF OpOK, TypeOK
    <3>3. ~QUIESCENT(announcedEpoch'[t])
      BY <3>1, <3>2, ParityFacts
    <3> QED
      BY <1>1, <1>5, <1>7, <3>1, <3>3 DEF OpOK
  <2>2. CASE Scan(t)
    <3>1. /\ dpc[t] = "scan" /\ UNCHANGED <<epoch, announcedEpoch, tpc>>
          /\ \/ checked'[t] = checked[t] /\ dpc'[t] = "body"
             \/ /\ checked'[t] = checked[t] + 1
                /\ dpc'[t] = IF checked'[t] >= MaxThreads THEN "advance" ELSE "body"
      BY <2>2 DEF Scan, TypeOK, benchVars
    <3>2. checked[t] \in 0 .. MaxThreads /\ checked[t] < MaxThreads
      BY <3>1, <1>7 DEF OpOK, TypeOK
    <3>3. /\ dpc'[t] \in {"advance", "body"}
          /\ dpc'[t] = "advance" => checked'[t] = MaxThreads
          /\ dpc'[t] = "body" => checked'[t] # MaxThreads
      BY <3>1, <3>2, ThreadFacts
    <3> QED
      BY <1>1, <1>5, <1>7, <3>1, <3>3 DEF OpOK
  <2>3. CASE AdvanceEpoch(t)
    <3>1. /\ dpc[t] = "advance" /\ dpc'[t] = "body"
          /\ UNCHANGED <<announcedEpoch, checked, tpc>>
          /\ epoch' = IF epoch = localvar_announcedEpoch[t] THEN epoch + 2 ELSE epoch
      BY <2>3 DEF AdvanceEpoch, TypeOK, benchVars, threadVars, EPOCH_INCREMENT
    <3>2. localvar_announcedEpoch[t] < epoch'
      BY <3>1, <1>7 DEF OpOK, TypeOK
    <3> QED
      BY <1>1, <1>2, <1>5, <1>7, <3>1, <3>2 DEF OpOK, TypeOK
  <2>4. CASE InitThread(t)
    <3>1. /\ UNCHANGED <<epoch, announcedEpoch, dpc>> /\ tpc[t] = "pre"
          /\ checked'[t] \in {0, checked[t]}
      BY <2>4 DEF InitThread, Pre, To, opVars, TypeOK
    <3>2. dpc[t] = "idle"
      BY <3>1, <1>7 DEF OpOK
    <3> QED
      BY <1>1, <1>5, <1>7, <3>1, <3>2, ThreadFacts DEF OpOK
  <2> QED
    BY <2>1, <2>2, <2>3, <2>4
<1>9. ASSUME NEW u \in Threads \ {t} PROVE OpOK(u)'
  <2>1. OpOK(u)
    BY DEF OpInv
  <2> QED
    BY <1>1, <1>2, <1>3, <1>5, <2>1, OpFrame
<1> QED
  BY <1>2, <1>4, <1>5, <1>6, <1>8, <1>9 DEF OpInv

(* retire.                                                                 *)
LEMMA RetireInv ==
    ASSUME IInv, NEW t \in Threads, Retire(t)
    PROVE  TypeOK' /\ OpInv' /\ EmptyInv' /\ PlaceInv'
<1> USE DEF IInv
<1>1. PICK r \in Records \ limbo :
        /\ epochbags' = [epochbags EXCEPT ![t][currentBag[t]] = Append(@, r)]
        /\ waits' = [waits EXCEPT ![r] = inOp]
        /\ retiredIn' = [retiredIn EXCEPT ![r] = localvar_announcedEpoch[t]]
  BY DEF Retire
<1>2. /\ dpc[t] = "body"
      /\ UNCHANGED <<tpc, epoch, announcedEpoch, localvar_announcedEpoch, index,
                     currentBag, deamortizedFreeables, checked, dpc>>
  BY DEF Retire, benchVars
<1>3. /\ epochbags' \in [Threads -> [Bags -> Seq(Records)]]
      /\ \A u \in Threads, b \in Bags : Distinct(epochbags'[u][b])
      /\ \A u \in Threads, b \in Bags :
            Bag(u, b)' = IF u = t /\ b = currentBag[t]
                         THEN Bag(u, b) \cup {r} ELSE Bag(u, b)
      /\ \A u \in Threads, b \in Bags :
            r \notin Bag(u, b) /\ r \notin deamortizedFreeables[u]
  BY <1>1, RetireBags
<1>4. tpc[t] = "call" /\ localvar_announcedEpoch[t] # 1
  BY <1>2 DEF OpInv, OpOK
<1>5. TypeOK'
  <2>1. inOp \subseteq Threads
    BY DEF inOp
  <2>2. waits' \in [Records -> SUBSET Threads] /\ retiredIn' \in [Records -> Nat]
    BY <1>1, <2>1 DEF TypeOK
  <2> QED
    BY <1>2, <1>3, <2>2 DEF TypeOK
<1>6. OpInv'
  <2>1. OpOK(t)'
    <3>1. OpOK(t)
      BY DEF OpInv
    <3> QED
      BY <1>2, <1>4, <3>1 DEF OpOK
  <2>2. ASSUME NEW u \in Threads \ {t} PROVE OpOK(u)'
    <3>1. OpOK(u) /\ epoch' \in Nat /\ epoch' >= epoch
      BY <1>2 DEF OpInv, TypeOK
    <3> QED
      BY <1>2, <1>3, <3>1, OpFrame
  <2> QED
    BY <1>2, <2>1, <2>2 DEF OpInv
<1>7. EmptyInv'
  BY <1>2, <1>3, <1>4 DEF EmptyInv
<1>8. PlaceInv'
  <2> DEFINE cur == currentBag[t]
  <2>1. \A u \in Threads, b \in Bags : \A q \in Bag(u, b)' :
           q \in Bag(u, b) \/ (q = r /\ u = t /\ b = cur)
    BY <1>3
  <2> HIDE DEF cur
  <2>2. ASSUME NEW u \in Threads, NEW v \in Threads, NEW b \in Bags, NEW c \in Bags,
               NEW q \in Bag(u, b)' \cap Bag(v, c)'
        PROVE  u = v /\ b = c
    <3>1. CASE q = r
      BY <2>1, <1>3, <2>2, <3>1
    <3>2. CASE q # r
      <4>1. q \in Bag(u, b) \cap Bag(v, c)
        BY <2>1, <2>2, <3>2
      <4> QED
        BY <4>1 DEF PlaceInv
    <3> QED
      BY <3>1, <3>2
  <2>3. ASSUME NEW u \in Threads, NEW v \in Threads, NEW b \in Bags
        PROVE  Bag(u, b)' \cap deamortizedFreeables'[v] = {}
    <3>1. Bag(u, b) \cap deamortizedFreeables[v] = {} /\ r \notin deamortizedFreeables[v]
      BY <1>3 DEF PlaceInv
    <3> QED
      BY <1>2, <2>1, <3>1
  <2> QED
    BY <1>2, <1>3, <2>2, <2>3 DEF PlaceInv
<1> QED
  BY <1>5, <1>6, <1>7, <1>8

(* endOp.                                                                  *)
LEMMA EndOpInv ==
    ASSUME IInv, NEW t \in Threads, EndOp(t)
    PROVE  TypeOK' /\ OpInv' /\ EmptyInv' /\ PlaceInv'
<1> USE DEF IInv
<1>1. /\ dpc[t] = "body" /\ dpc' = [dpc EXCEPT ![t] = "idle"]
      /\ announcedEpoch' = [announcedEpoch EXCEPT
                ![t] = GET_WITH_QUIESCENT(localvar_announcedEpoch[t])]
      /\ waits' = [r \in Records |-> waits[r] \ {t}]
      /\ UNCHANGED <<tpc, epoch, localvar_announcedEpoch, epochbags, index,
                     currentBag, deamortizedFreeables, checked, retiredIn>>
  BY DEF EndOp
<1> DEFINE ann == GET_WITH_QUIESCENT(localvar_announcedEpoch[t])
<1>2. ann \in Nat /\ QUIESCENT(ann)
  BY ParityFacts DEF TypeOK
<1> HIDE DEF ann
<1>3. TypeOK'
  <2>1. announcedEpoch' \in [Threads -> Nat] /\ dpc' \in [Threads -> OpPC]
    BY <1>1, <1>2 DEF TypeOK, OpPC, ann
  <2>2. waits' \in [Records -> SUBSET Threads]
    BY <1>1 DEF TypeOK
  <2> QED
    BY <1>1, <2>1, <2>2 DEF TypeOK
<1>4. /\ \A u \in Threads, b \in Bags : Bag(u, b)' = Bag(u, b)
      /\ PlaceInv'
  BY <1>1, PlaceFrame
<1>5. EmptyInv'
  BY <1>1, <1>4 DEF EmptyInv
<1>6. OpInv'
  <2>1. OpOK(t)'
    <3>1. OpOK(t)
      BY DEF OpInv
    <3>2. announcedEpoch'[t] = ann /\ dpc'[t] = "idle"
      BY <1>1 DEF TypeOK, ann
    <3>3. QUIESCENT(announcedEpoch'[t])
      BY <1>2, <3>2
    <3> QED
      BY <1>1, <1>4, <3>1, <3>2, <3>3 DEF OpOK
  <2>2. ASSUME NEW u \in Threads \ {t} PROVE OpOK(u)'
    <3>1. OpOK(u) /\ epoch' \in Nat /\ epoch' >= epoch
      BY <1>1 DEF OpInv, TypeOK
    <3>2. announcedEpoch'[u] = announcedEpoch[u] /\ dpc'[u] = dpc[u]
      BY <1>1 DEF TypeOK
    <3> QED
      BY <1>1, <1>4, <3>1, <3>2, OpFrame
  <2> QED
    BY <1>1, <2>1, <2>2 DEF OpInv
<1> QED
  BY <1>3, <1>4, <1>5, <1>6

(* deinitThread.                                                           *)
LEMMA DeinitInv ==
    ASSUME IInv, NEW t \in Threads, DeinitThread(t)
    PROVE  TypeOK' /\ OpInv' /\ EmptyInv' /\ PlaceInv'
<1> USE DEF IInv
<1>1. /\ tpc[t] = "barrier" /\ tpc' = [tpc EXCEPT ![t] = "ended"]
      /\ UNCHANGED <<epoch, announcedEpoch, localvar_announcedEpoch, index,
                     currentBag, checked, dpc, waits, retiredIn>>
  BY DEF DeinitThread, Leave, To, opVars, history
<1>2. /\ epochbags' \in [Threads -> [Bags -> Seq(Records)]]
      /\ \A u \in Threads, b \in Bags : Distinct(epochbags'[u][b])
      /\ \A u \in Threads, b \in Bags :
            Bag(u, b)' = IF u = t THEN {} ELSE Bag(u, b)
      /\ deamortizedFreeables' = [deamortizedFreeables EXCEPT ![t] = {}]
  BY DeinitBags
<1>3. \A u \in Threads : deamortizedFreeables'[u] = IF u = t THEN {}
                                                  ELSE deamortizedFreeables[u]
  BY <1>2 DEF TypeOK
<1>4. TypeOK'
  <2>1. deamortizedFreeables' \in [Threads -> SUBSET Records]
    BY <1>2 DEF TypeOK
  <2> QED
    BY <1>1, <1>2, <2>1 DEF TypeOK
<1>5. OpInv'
  <2>1. OpOK(t)'
    <3>1. OpOK(t)
      BY DEF OpInv
    <3>2. dpc[t] = "idle"
      BY <1>1, <3>1 DEF OpOK
    <3> QED
      BY <1>1, <1>2, <3>1, <3>2 DEF OpOK
  <2>2. ASSUME NEW u \in Threads \ {t} PROVE OpOK(u)'
    <3>1. OpOK(u) /\ epoch' \in Nat /\ epoch' >= epoch
      BY <1>1 DEF OpInv, TypeOK
    <3>2. tpc'[u] = tpc[u]
      BY <1>1 DEF BenchTypeOK
    <3> QED
      BY <1>1, <1>2, <3>1, <3>2, OpFrame
  <2> QED
    BY <1>1, <2>1, <2>2 DEF OpInv
<1>6. EmptyInv'
  BY <1>1, <1>2, <1>3 DEF EmptyInv, BenchTypeOK
<1>7. PlaceInv'
  <2>1. \A u \in Threads : deamortizedFreeables'[u] \subseteq deamortizedFreeables[u]
    BY <1>3
  <2>2. ASSUME NEW u \in Threads, NEW b \in Bags PROVE Bag(u, b)' \subseteq Bag(u, b)
    <3>1. Bag(u, b)' = {} \/ Bag(u, b)' = Bag(u, b)
      BY <1>2
    <3> QED
      BY <3>1
  <2> QED
    BY <1>2, <2>1, <2>2 DEF PlaceInv
<1> QED
  BY <1>4, <1>5, <1>6, <1>7

(* Whatever initThread leaves in index and currentBag: what a thread has   *)
(* announced and checked fits the point of its operation, a record is in   *)
(* one bag, once, and only the threads of a stage have bags that are not   *)
(* empty.                                                                  *)
THEOREM InductiveInvariant == Spec => []IInv
<1>1. Init => IInv
  BY InitInv
<1>2. IInv /\ [Next]_vars => IInv'
  <2> SUFFICES ASSUME IInv, [Next]_vars PROVE IInv'
    OBVIOUS
  <2>1. CASE UNCHANGED vars
    <3>1. UNCHANGED <<benchVars, debraVars>>
      BY <2>1 DEF vars
    <3>2. BenchTypeOK' /\ StageInv'
      BY <3>1 DEF benchVars, IInv, BenchTypeOK, StageInv, Active, Workers, Current
    <3>3. TypeOK'
      BY <3>1 DEF debraVars, threadVars, opVars, history, IInv, TypeOK
    <3>4. /\ \A t \in Threads, b \in Bags : Bag(t, b)' = Bag(t, b)
          /\ PlaceInv'
      BY <3>1, PlaceFrame DEF debraVars, threadVars, IInv
    <3>5. OpInv'
      BY <3>1, <3>4 DEF benchVars, debraVars, threadVars, opVars, IInv, OpInv, OpOK
    <3>6. EmptyInv'
      BY <3>1, <3>4 DEF benchVars, debraVars, threadVars, IInv, EmptyInv
    <3> QED
      BY <3>2, <3>3, <3>4, <3>5, <3>6 DEF IInv
  <2>2. CASE Next
    <3>1. BenchTypeOK' /\ StageInv'
      BY <2>2, BenchStep DEF IInv
    <3>2. TypeOK' /\ OpInv' /\ EmptyInv' /\ PlaceInv'
      <4>1. CASE MainStep \/ Finished \/ \E t \in Threads : Loop(t)
        BY <4>1, OuterInv
      <4>2. ASSUME NEW t \in Threads, ThreadStep(t), ~Loop(t)
            PROVE  TypeOK' /\ OpInv' /\ EmptyInv' /\ PlaceInv'
        BY <4>2, ReadEpochInv, QuietInv, RetireInv, EndOpInv, DeinitInv
        DEF ThreadStep
      <4> QED
        BY <2>2, <4>1, <4>2 DEF Next
    <3> QED
      BY <3>1, <3>2 DEF IInv
  <2> QED
    BY <2>1, <2>2
<1> QED
  BY <1>1, <1>2, PTL DEF Spec

(* No record is forgotten: when a stage's threads have been joined, every  *)
(* record they retired has been freed.                                     *)
THEOREM NoLeaks == Spec => []NothingLeaks
<1>1. IInv => NothingLeaks
  <2> SUFFICES ASSUME IInv, mpc \in {"create", "report"} PROVE limbo = {}
    BY DEF NothingLeaks
  <2>1. \A t \in Threads : tpc[t] = "none"
    BY DEF IInv, StageInv
  <2>2. \A t \in Threads :
          deamortizedFreeables[t] = {} /\ \A b \in Bags : Bag(t, b) = {}
    BY <2>1 DEF IInv, EmptyInv
  <2>3. \A t \in Threads : InBags(t) = {}
    BY <2>2 DEF InBags, Bag
  <2> QED
    BY <2>2, <2>3 DEF limbo
<1> QED
  BY <1>1, InductiveInvariant, PTL

-----------------------------------------------------------------------------
(* What retired records wait for                                           *)

(* Only startOp and endOp change who is in an operation.                   *)
LEMMA AnnounceInOp ==
    ASSUME IInv, NEW t \in Threads, Announce(t)
    PROVE  t \notin inOp /\ inOp' = inOp \cup {t}
<1>1. dpc[t] = "announce" /\ dpc'[t] = "scan"
  BY DEF Announce, IInv, TypeOK
<1>2. OpInv'
  BY QuietInv
<1>3. QUIESCENT(announcedEpoch[t]) /\ ~QUIESCENT(announcedEpoch'[t])
  BY <1>1, <1>2 DEF IInv, OpInv, OpOK
<1>4. \A u \in Threads \ {t} : announcedEpoch'[u] = announcedEpoch[u]
  BY DEF Announce, IInv, TypeOK
<1> QED
  BY <1>3, <1>4 DEF inOp

LEMMA EndOpInOp ==
    ASSUME IInv, NEW t \in Threads, EndOp(t)
    PROVE  t \in inOp /\ inOp' = inOp \ {t}
<1>1. dpc[t] = "body" /\ dpc'[t] = "idle"
  BY DEF EndOp, IInv, TypeOK
<1>2. OpInv'
  BY EndOpInv
<1>3. ~QUIESCENT(announcedEpoch[t]) /\ QUIESCENT(announcedEpoch'[t])
  BY <1>1, <1>2 DEF IInv, OpInv, OpOK
<1>4. \A u \in Threads \ {t} : announcedEpoch'[u] = announcedEpoch[u]
  BY DEF EndOp, IInv, TypeOK
<1> QED
  BY <1>3, <1>4 DEF inOp

LEMMA InOpStep ==
    ASSUME IInv, Next
    PROVE  \/ UNCHANGED announcedEpoch
           \/ \E t \in Threads : Announce(t) \/ EndOp(t)
<1>1. ASSUME NEW t \in Threads, ThreadStep(t), ~Announce(t), ~EndOp(t)
      PROVE  UNCHANGED announcedEpoch
  BY <1>1
  DEF ThreadStep, Loop, debraVars, threadVars, InitThread, ReadEpoch, Scan,
      AdvanceEpoch, Retire, DeinitThread
<1>2. CASE MainStep \/ Finished
  BY <1>2 DEF MainStep, Finished, vars, debraVars, threadVars
<1> QED
  BY <1>1, <1>2 DEF Next

(* A thread that holds the epoch up does so until its operation ends.      *)
LEMMA StuckStays ==
    ASSUME IInv, Next, NEW u \in Threads, Stuck(u), u \in inOp'
    PROVE  Stuck(u)' /\ epoch' = epoch
<1> USE DEF IInv
<1>1. /\ u \in inOp /\ announcedEpoch[u] # epoch /\ u \in Nat /\ u < MaxThreads
      /\ \A s \in Threads : localvar_announcedEpoch[s] = epoch => checked[s] <= u
  BY ThreadFacts DEF Stuck
<1>2. announcedEpoch'[u] = announcedEpoch[u]
  <2>1. CASE UNCHANGED announcedEpoch
    BY <2>1
  <2>2. ASSUME NEW t \in Threads, Announce(t)
        PROVE  announcedEpoch'[u] = announcedEpoch[u]
    BY <1>1, <2>2, AnnounceInOp DEF Announce, TypeOK
  <2>3. ASSUME NEW t \in Threads, EndOp(t)
        PROVE  announcedEpoch'[u] = announcedEpoch[u]
    BY <1>1, <2>3, EndOpInOp DEF EndOp, TypeOK
  <2> QED
    BY <2>1, <2>2, <2>3, InOpStep
<1>3. ASSUME NEW t \in Threads, Scan(t), localvar_announcedEpoch[t] = epoch
      PROVE  checked'[t] <= u
  <2>1. /\ checked[t] \in Nat /\ checked[t] <= u
        /\ checked'[t] = checked[t] \/ (checked'[t] = checked[t] + 1 /\ SeenBy(t))
    BY <1>1, <1>3, ThreadFacts DEF Scan, TypeOK
  <2>2. ~QUIESCENT(announcedEpoch[u]) /\ announcedEpoch[u] \in Nat
    BY <1>1 DEF inOp, TypeOK
  <2>3. BITS_EPOCH(announcedEpoch[u]) = announcedEpoch[u]
    BY <2>2 DEF QUIESCENT, BITS_EPOCH, EPOCH_INCREMENT
  <2>4. SeenBy(t) => checked[t] # u
    BY <1>1, <1>3, <2>2, <2>3 DEF SeenBy
  <2> QED
    BY <1>1, <2>1, <2>4
<1>4. ASSUME NEW t \in Threads, ThreadStep(t)
      PROVE  /\ epoch' = epoch
             /\ \A s \in Threads : localvar_announcedEpoch'[s] = epoch => checked'[s] <= u
  <2>1. CASE Loop(t) \/ Announce(t) \/ Retire(t) \/ EndOp(t) \/ DeinitThread(t)
    BY <1>1, <2>1
    DEF Loop, debraVars, threadVars, Announce, Retire, EndOp, DeinitThread
  <2>2. CASE ReadEpoch(t)
    <3>1. /\ epoch' = epoch
          /\ localvar_announcedEpoch' = [localvar_announcedEpoch EXCEPT ![t] = epoch]
          /\ checked' = [checked EXCEPT
                           ![t] = IF epoch = localvar_announcedEpoch[t] THEN @ ELSE 0]
      BY <2>2 DEF ReadEpoch, Rotate, TypeOK
    <3>2. \A s \in Threads \ {t} :
            /\ localvar_announcedEpoch'[s] = localvar_announcedEpoch[s]
            /\ checked'[s] = checked[s]
      BY <3>1 DEF TypeOK
    <3>3. checked'[t] <= u
      BY <1>1, <3>1 DEF TypeOK
    <3> QED
      BY <1>1, <3>1, <3>2, <3>3
  <2>3. CASE Scan(t)
    <3>1. /\ UNCHANGED <<epoch, localvar_announcedEpoch>>
          /\ \A s \in Threads \ {t} : checked'[s] = checked[s]
      BY <2>3 DEF Scan, TypeOK
    <3> QED
      BY <1>1, <1>3, <2>3, <3>1
  <2>4. CASE AdvanceEpoch(t)
    <3>1. checked[t] = MaxThreads
      BY <2>4 DEF AdvanceEpoch, OpInv, OpOK
    <3>2. localvar_announcedEpoch[t] # epoch
      BY <1>1, <3>1, ThreadFacts
    <3> QED
      BY <1>1, <2>4, <3>2 DEF AdvanceEpoch, threadVars
  <2>5. CASE InitThread(t)
    <3>1. /\ UNCHANGED <<epoch, localvar_announcedEpoch>>
          /\ \A s \in Threads : checked'[s] = checked[s] \/ checked'[s] = 0
      BY <2>5 DEF InitThread, TypeOK
    <3> QED
      BY <1>1, <3>1
  <2> QED
    BY <1>4, <2>1, <2>2, <2>3, <2>4, <2>5 DEF ThreadStep
<1>5. CASE MainStep \/ Finished
  BY <1>1, <1>5 DEF MainStep, Finished, vars, debraVars, threadVars, Stuck
<1>6. /\ epoch' = epoch
      /\ \A s \in Threads : localvar_announcedEpoch'[s] = epoch => checked'[s] <= u
  BY <1>1, <1>4, <1>5
  DEF Next, MainStep, Finished, vars, debraVars, threadVars
<1> QED
  BY <1>1, <1>2, <1>6 DEF Stuck

(* The steps after which nothing new is in a bag or waited for.            *)
LEMMA SafeFrame ==
    ASSUME IInv, SafeInv, Next,
           UNCHANGED <<epoch, index, retiredIn, localvar_announcedEpoch>>,
           \A t \in Threads : deamortizedFreeables'[t] \subseteq deamortizedFreeables[t],
           \A t \in Threads, b \in Bags : Bag(t, b)' \subseteq Bag(t, b),
           \A r \in Records : waits'[r] \subseteq waits[r] /\ waits'[r] \subseteq inOp'
    PROVE  SafeInv'
<1> USE DEF SafeInv
<1>1. \A t \in Threads, b \in Bags : Bag(t, b) \subseteq Records
  BY BagInRecords DEF IInv
<1>2. ASSUME NEW t \in Threads, NEW r \in deamortizedFreeables'[t] PROVE waits'[r] = {}
  <2>1. r \in deamortizedFreeables[t] /\ r \in Records
    BY <1>2 DEF IInv, TypeOK
  <2> QED
    BY <2>1 DEF WaitInv
<1>3. ASSUME NEW t \in Threads, NEW b \in Bags, NEW r \in Bag(t, b)',
             NEW u \in waits'[r]
      PROVE  /\ b # index'[t] => localvar_announcedEpoch'[t] = epoch' \/ Stuck(u)'
             /\ b = NextIndex(index'[t]) =>
                   localvar_announcedEpoch'[t] = epoch' /\ Stuck(u)'
  <2>1. r \in Bag(t, b) /\ r \in Records /\ u \in waits[r] /\ u \in inOp'
    BY <1>1, <1>3
  <2>2. u \in Threads
    BY <2>1 DEF IInv, TypeOK
  <2>3. Stuck(u) => Stuck(u)'
    BY <2>1, <2>2, StuckStays
  <2> QED
    BY <2>1, <2>3 DEF WaitInv
<1>4. WaitInv'
  BY <1>2, <1>3 DEF WaitInv
<1>5. AgeInv'
  BY DEF AgeInv
<1> QED
  BY <1>4, <1>5

(* An advance of the epoch: whoever is in an operation holds it up now.    *)
LEMMA AdvanceSafe ==
    ASSUME IInv, SafeInv, NEW t \in Threads, AdvanceEpoch(t)
    PROVE  SafeInv'
<1> USE DEF IInv, SafeInv
<1>1. /\ dpc[t] = "advance" /\ UNCHANGED <<threadVars, history>>
      /\ epoch' = IF epoch = localvar_announcedEpoch[t] THEN epoch + 2 ELSE epoch
  BY DEF AdvanceEpoch, EPOCH_INCREMENT
<1>2. /\ \A u \in Threads, b \in Bags : Bag(u, b)' = Bag(u, b)
      /\ inOp' = inOp
  BY <1>1, PlaceFrame DEF threadVars, inOp
<1>3. AgeInv'
  BY <1>1, <1>2 DEF threadVars, history, AgeInv
<1>4. CASE epoch # localvar_announcedEpoch[t]
  <2>1. epoch' = epoch
    BY <1>1, <1>4
  <2> QED
    BY <1>1, <1>2, <1>3, <2>1 DEF threadVars, history, WaitInv, Stuck
<1>5. CASE epoch = localvar_announcedEpoch[t]
  <2>1. ASSUME NEW u \in inOp PROVE Stuck(u)' /\ ~Stuck(u)
    <3>1. u \in Threads /\ dpc[u] \notin {"idle", "announce"} /\ dpc[u] \in OpPC
      BY <2>1 DEF inOp, OpInv, OpOK, TypeOK
    <3>2. /\ announcedEpoch[u] = localvar_announcedEpoch[u]
          /\ localvar_announcedEpoch[u] # 1
      BY <3>1 DEF OpInv, OpOK, OpPC
    <3>3. \A s \in Threads : localvar_announcedEpoch[s] # epoch + 2
      <4> TAKE s \in Threads
      <4>1. epoch \in Nat /\ localvar_announcedEpoch[s] \in Nat
        BY DEF TypeOK
      <4>2. localvar_announcedEpoch[s] # 1 => localvar_announcedEpoch[s] <= epoch
        BY DEF OpInv, OpOK
      <4> QED
        BY <4>1, <4>2
    <3>4. checked[t] = MaxThreads /\ ~(MaxThreads <= u)
      BY <1>1, <3>1, ThreadFacts DEF OpInv, OpOK
    <3> QED
      BY <1>1, <1>2, <1>5, <3>1, <3>2, <3>3, <3>4 DEF Stuck, threadVars
  <2>2. \A r \in Records : waits[r] \subseteq inOp
    BY DEF WaitInv
  <2>3. \A u \in Threads, b \in Bags : Bag(u, b) \subseteq Records
    BY BagInRecords
  <2>4. WaitInv'
    <3>1. ASSUME NEW v \in Threads, NEW b \in Bags, NEW r \in Bag(v, b)',
                 NEW u \in waits'[r]
          PROVE  /\ b # index'[v] => localvar_announcedEpoch'[v] = epoch' \/ Stuck(u)'
                 /\ b = NextIndex(index'[v]) =>
                       localvar_announcedEpoch'[v] = epoch' /\ Stuck(u)'
      <4>1. r \in Bag(v, b) /\ r \in Records /\ u \in waits[r] /\ u \in inOp
        BY <1>1, <1>2, <2>2, <2>3, <3>1 DEF history
      <4>2. Stuck(u)' /\ b # NextIndex(index[v])
        BY <2>1, <4>1 DEF WaitInv
      <4> QED
        BY <1>1, <4>2 DEF threadVars
    <3>2. \A r \in Records : waits'[r] \subseteq inOp'
      BY <1>1, <1>2, <2>2 DEF history
    <3>3. \A u \in Threads : \A r \in deamortizedFreeables'[u] : waits'[r] = {}
      BY <1>1 DEF threadVars, history, WaitInv
    <3> QED
      BY <3>1, <3>2, <3>3 DEF WaitInv
  <2> QED
    BY <1>3, <2>4
<1> QED
  BY <1>4, <1>5

(* startOp: when the epoch has changed the oldest bag's records wait for   *)
(* nobody, and each of the others is one place older.                      *)
LEMMA ReadEpochSafe ==
    ASSUME IInv, SafeInv, Next, NEW t \in Threads, ReadEpoch(t)
    PROVE  SafeInv' /\ \A r \in deamortizedFreeables[t] \cup Moved(t) : waits[r] = {}
<1> USE DEF IInv, SafeInv
<1> DEFINE i == index[t]
           next == NextIndex(i)
           loc == localvar_announcedEpoch[t]
<1>1. /\ UNCHANGED <<epoch, announcedEpoch, waits, retiredIn>>
      /\ localvar_announcedEpoch' = [localvar_announcedEpoch EXCEPT ![t] = epoch]
      /\ index' = IF epoch # loc THEN [index EXCEPT ![t] = next] ELSE index
  BY DEF ReadEpoch, Rotate, history
<1>2. inOp' = inOp
  BY <1>1 DEF inOp
<1>3. PICK freed \in SUBSET (deamortizedFreeables[t] \cup Moved(t)) :
        /\ deamortizedFreeables' =
             [deamortizedFreeables EXCEPT
                ![t] = (deamortizedFreeables[t] \cup Moved(t)) \ freed]
        /\ Moved(t) \subseteq Bag(t, next)
        /\ \A u \in Threads, b \in Bags :
              Bag(u, b)' = IF u = t /\ b = next THEN Bag(u, b) \ Moved(t) ELSE Bag(u, b)
  BY ReadEpochBags
<1>4. \A u \in Threads, b \in Bags : Bag(u, b)' \subseteq Bag(u, b)
  <2> TAKE u \in Threads, b \in Bags
  <2>1. Bag(u, b)' = Bag(u, b) \/ Bag(u, b)' = Bag(u, b) \ Moved(t)
    BY <1>3
  <2> QED
    BY <2>1
<1>5. \A u \in Threads, b \in Bags : Bag(u, b) \subseteq Records
  BY BagInRecords
<1>6. /\ \A u \in Threads \ {t} : deamortizedFreeables'[u] = deamortizedFreeables[u]
      /\ deamortizedFreeables'[t] \subseteq deamortizedFreeables[t] \cup Moved(t)
  BY <1>3 DEF TypeOK
<1>7. CASE epoch = loc
  <2>1. Moved(t) = {}
    BY <1>7 DEF Moved
  <2>2. UNCHANGED <<index, localvar_announcedEpoch>>
    BY <1>1, <1>7 DEF TypeOK
  <2>3. \A r \in Records : waits'[r] \subseteq waits[r] /\ waits'[r] \subseteq inOp'
    BY <1>1, <1>2 DEF WaitInv
  <2>4. SafeInv'
    <3>1. \A u \in Threads : deamortizedFreeables'[u] \subseteq deamortizedFreeables[u]
      BY <1>6, <2>1
    <3> QED
      BY <1>1, <1>4, <2>2, <2>3, <3>1, SafeFrame
  <2> QED
    BY <2>1, <2>4 DEF WaitInv
<1>8. CASE epoch # loc
  <2>1. /\ i \in Bags /\ next \in Bags /\ next # i /\ NextIndex(next) # i
        /\ NextIndex(next) # next
    BY BagFacts DEF TypeOK
  <2>2. /\ index'[t] = next /\ localvar_announcedEpoch'[t] = epoch
        /\ \A u \in Threads \ {t} :
              /\ index'[u] = index[u]
              /\ localvar_announcedEpoch'[u] = localvar_announcedEpoch[u]
    BY <1>1, <1>8 DEF TypeOK
  <2>3. \A r \in Bag(t, next) : waits[r] = {}
    BY <1>8, <2>1 DEF WaitInv
  <2>4. \A r \in deamortizedFreeables[t] \cup Moved(t) : waits[r] = {}
    BY <1>3, <2>3 DEF WaitInv
  <2>5. ASSUME NEW u \in Threads, NEW r \in Records, u \in waits[r], Stuck(u)
        PROVE  Stuck(u)'
    <3>1. u \in inOp'
      BY <1>2, <2>5 DEF WaitInv
    <3> QED
      BY <2>5, <3>1, StuckStays
  <2>6. WaitInv'
    <3>1. ASSUME NEW v \in Threads, NEW b \in Bags, NEW r \in Bag(v, b)',
                 NEW u \in waits'[r]
          PROVE  /\ b # index'[v] => localvar_announcedEpoch'[v] = epoch' \/ Stuck(u)'
                 /\ b = NextIndex(index'[v]) =>
                       localvar_announcedEpoch'[v] = epoch' /\ Stuck(u)'
      <4>1. r \in Bag(v, b) /\ r \in Records /\ u \in waits[r]
        BY <1>1, <1>4, <1>5, <3>1
      <4>2. u \in Threads
        BY <4>1 DEF TypeOK
      <4>3. Stuck(u) => Stuck(u)'
        BY <2>5, <4>1, <4>2
      <4>4. CASE v # t
        BY <1>1, <2>2, <4>1, <4>3, <4>4 DEF WaitInv
      <4>5. CASE v = t
        <5>1. b # next
          BY <2>3, <4>1, <4>5
        <5>2. b = NextIndex(next) => Stuck(u)
          BY <1>8, <2>1, <4>1, <4>5 DEF WaitInv
        <5> QED
          BY <1>1, <2>2, <4>3, <4>5, <5>1, <5>2
      <4> QED
        BY <4>4, <4>5
    <3>2. \A r \in Records : waits'[r] \subseteq inOp'
      BY <1>1, <1>2 DEF WaitInv
    <3>3. ASSUME NEW u \in Threads, NEW r \in deamortizedFreeables'[u] PROVE waits'[r] = {}
      <4>1. CASE u = t
        BY <1>1, <1>6, <2>4, <3>3, <4>1
      <4>2. CASE u # t
        BY <1>1, <1>6, <3>3, <4>2 DEF WaitInv
      <4> QED
        BY <4>1, <4>2
    <3> QED
      BY <3>1, <3>2, <3>3 DEF WaitInv
  <2>7. AgeInv'
    <3> SUFFICES ASSUME NEW v \in Threads, NEW b \in Bags, NEW r \in Bag(v, b)'
                 PROVE  /\ retiredIn[r] <= localvar_announcedEpoch'[v]
                        /\ b # index'[v] =>
                              retiredIn[r] + 2 <= localvar_announcedEpoch'[v]
                        /\ b = NextIndex(index'[v]) =>
                              retiredIn[r] + 4 <= localvar_announcedEpoch'[v]
      BY <1>1 DEF AgeInv, EPOCH_INCREMENT
    <3>1. r \in Bag(v, b) /\ r \in Records
      BY <1>4, <1>5
    <3>2. /\ retiredIn[r] <= localvar_announcedEpoch[v]
          /\ b # index[v] => retiredIn[r] + 2 <= localvar_announcedEpoch[v]
          /\ b = NextIndex(index[v]) => retiredIn[r] + 4 <= localvar_announcedEpoch[v]
      BY <3>1 DEF AgeInv, EPOCH_INCREMENT
    <3>3. CASE v # t
      BY <2>2, <3>2, <3>3
    <3>4. CASE v = t
      <4>1. loc \in Nat /\ epoch \in Nat /\ retiredIn[r] \in Nat
        BY <3>1 DEF TypeOK
      <4>2. OpOK(t) /\ epoch % 2 = 0
        BY DEF OpInv
      <4>3. loc # 1
        BY <3>1, <3>4, <4>2 DEF OpOK
      <4>4. loc % 2 = 0 /\ loc <= epoch
        BY <4>2, <4>3 DEF OpOK
      <4> HIDE DEF loc, next, i
      <4>5. loc + 2 <= epoch
        BY <1>8, <4>1, <4>2, <4>4
      <4>6. /\ retiredIn[r] <= loc
            /\ b # i => retiredIn[r] + 2 <= loc
        BY <3>2, <3>4 DEF loc, i
      <4>7. b = NextIndex(next) => b # i
        BY <2>1
      <4>8. /\ retiredIn[r] <= epoch /\ retiredIn[r] + 2 <= epoch
            /\ b = NextIndex(next) => retiredIn[r] + 4 <= epoch
        BY <4>1, <4>5, <4>6, <4>7
      <4> QED
        BY <2>2, <3>4, <4>8
    <3> QED
      BY <3>3, <3>4
  <2> QED
    BY <2>4, <2>6, <2>7
<1> QED
  BY <1>7, <1>8

(* retire: the record enters the bag of the current epoch, if index and    *)
(* currentBag agree.                                                       *)
LEMMA RetireSafe ==
    ASSUME IInv, SafeInv, Agree, NEW t \in Threads, Retire(t)
    PROVE  SafeInv'
<1> USE DEF IInv, SafeInv
<1>1. PICK r \in Records \ limbo :
        /\ epochbags' = [epochbags EXCEPT ![t][currentBag[t]] = Append(@, r)]
        /\ waits' = [waits EXCEPT ![r] = inOp]
        /\ retiredIn' = [retiredIn EXCEPT ![r] = localvar_announcedEpoch[t]]
  BY DEF Retire
<1>2. UNCHANGED <<epoch, announcedEpoch, localvar_announcedEpoch, index,
                  deamortizedFreeables, checked>>
  BY DEF Retire
<1>3. /\ \A u \in Threads, b \in Bags :
            Bag(u, b)' = IF u = t /\ b = currentBag[t]
                         THEN Bag(u, b) \cup {r} ELSE Bag(u, b)
      /\ \A u \in Threads, b \in Bags :
            r \notin Bag(u, b) /\ r \notin deamortizedFreeables[u]
  BY <1>1, RetireBags
<1>4. /\ waits'[r] = inOp /\ retiredIn'[r] = localvar_announcedEpoch[t]
      /\ \A q \in Records \ {r} : waits'[q] = waits[q] /\ retiredIn'[q] = retiredIn[q]
  BY <1>1 DEF TypeOK
<1>5. inOp' = inOp /\ \A u \in Threads : Stuck(u)' <=> Stuck(u)
  BY <1>2 DEF inOp, Stuck
<1>6. \A u \in Threads, b \in Bags : Bag(u, b) \subseteq Records
  BY BagInRecords
<1>7. \A u \in Threads : deamortizedFreeables[u] \subseteq Records
  BY DEF TypeOK
<1>8. currentBag[t] = index[t] /\ index[t] \in Bags
  BY DEF Agree, TypeOK
<1>9. ASSUME NEW v \in Threads, NEW b \in Bags, NEW q \in Bag(v, b)'
      PROVE  \/ q = r /\ v = t /\ b = index[t]
             \/ q # r /\ q \in Bag(v, b) /\ q \in Records
  BY <1>3, <1>6, <1>8, <1>9
<1>10. index[t] # NextIndex(index[t])
  BY <1>8, BagFacts
<1>11. WaitInv'
  <2>1. ASSUME NEW v \in Threads, NEW b \in Bags, NEW q \in Bag(v, b)',
               NEW u \in waits'[q]
        PROVE  /\ b # index'[v] => localvar_announcedEpoch'[v] = epoch' \/ Stuck(u)'
               /\ b = NextIndex(index'[v]) =>
                     localvar_announcedEpoch'[v] = epoch' /\ Stuck(u)'
    <3>1. CASE q = r /\ v = t /\ b = index[t]
      BY <1>2, <1>10, <3>1
    <3>2. CASE q # r /\ q \in Bag(v, b) /\ q \in Records
      <4>1. u \in waits[q] /\ u \in Threads
        BY <1>4, <2>1, <3>2 DEF TypeOK
      <4> QED
        BY <1>2, <1>5, <3>2, <4>1 DEF WaitInv
    <3> QED
      BY <1>9, <3>1, <3>2
  <2>2. \A q \in Records : waits'[q] \subseteq inOp'
    BY <1>4, <1>5 DEF WaitInv
  <2>3. \A u \in Threads : \A q \in deamortizedFreeables'[u] : waits'[q] = {}
    BY <1>2, <1>3, <1>4, <1>7, <1>8 DEF WaitInv
  <2> QED
    BY <2>1, <2>2, <2>3 DEF WaitInv
<1>12. AgeInv'
  <2> SUFFICES ASSUME NEW v \in Threads, NEW b \in Bags, NEW q \in Bag(v, b)'
               PROVE  AgeInv!(v, b)!(q)'
    BY DEF AgeInv
  <2>1. CASE q = r /\ v = t /\ b = index[t]
    <3>1. localvar_announcedEpoch[t] \in Nat
      BY DEF TypeOK
    <3> QED
      BY <1>2, <1>4, <1>10, <2>1, <3>1
  <2>2. CASE q # r /\ q \in Bag(v, b) /\ q \in Records
    BY <1>2, <1>4, <2>2 DEF AgeInv
  <2> QED
    BY <1>9, <2>1, <2>2
<1> QED
  BY <1>11, <1>12

(* The invariant of the bags, step by step.                                *)
LEMMA SafeStep ==
    ASSUME IInv, SafeInv, Agree, Next
    PROVE  SafeInv'
<1>1. \A r \in Records : waits[r] \subseteq inOp
  BY DEF SafeInv, WaitInv
<1>2. ASSUME UNCHANGED <<epoch, index, retiredIn, localvar_announcedEpoch, waits>>,
             UNCHANGED <<epochbags, deamortizedFreeables>>, inOp \subseteq inOp'
      PROVE  SafeInv'
  <2>1. \A t \in Threads, b \in Bags : Bag(t, b)' \subseteq Bag(t, b)
    BY <1>2, PlaceFrame
  <2> QED
    BY <1>1, <1>2, <2>1, SafeFrame
<1>3. ASSUME NEW t \in Threads, EndOp(t) PROVE SafeInv'
  <2>1. /\ waits' = [r \in Records |-> waits[r] \ {t}]
        /\ UNCHANGED <<epoch, index, retiredIn, localvar_announcedEpoch,
                       epochbags, deamortizedFreeables>>
    BY <1>3 DEF EndOp
  <2>2. \A u \in Threads, b \in Bags : Bag(u, b)' \subseteq Bag(u, b)
    BY <2>1, PlaceFrame
  <2>3. inOp \ {t} \subseteq inOp'
    BY <1>3, EndOpInOp
  <2>4. \A r \in Records : waits'[r] \subseteq waits[r] /\ waits'[r] \subseteq inOp'
    BY <1>1, <2>1, <2>3
  <2> QED
    BY <2>1, <2>2, <2>4, SafeFrame
<1>4. ASSUME NEW t \in Threads, DeinitThread(t) PROVE SafeInv'
  <2>1. UNCHANGED <<epoch, index, retiredIn, localvar_announcedEpoch, waits,
                    announcedEpoch>>
    BY <1>4 DEF DeinitThread, history
  <2>2. /\ \A u \in Threads, b \in Bags : Bag(u, b)' = IF u = t THEN {} ELSE Bag(u, b)
        /\ deamortizedFreeables' = [deamortizedFreeables EXCEPT ![t] = {}]
    BY <1>4, DeinitBags DEF IInv
  <2>3. \A u \in Threads, b \in Bags : Bag(u, b)' \subseteq Bag(u, b)
    <3> TAKE u \in Threads, b \in Bags
    <3>1. Bag(u, b)' = {} \/ Bag(u, b)' = Bag(u, b)
      BY <2>2
    <3> QED
      BY <3>1
  <2>4. \A u \in Threads : deamortizedFreeables'[u] \subseteq deamortizedFreeables[u]
    BY <2>2 DEF IInv, TypeOK
  <2>5. \A r \in Records : waits'[r] \subseteq waits[r] /\ waits'[r] \subseteq inOp'
    BY <1>1, <2>1 DEF inOp
  <2> QED
    BY <2>1, <2>3, <2>4, <2>5, SafeFrame
<1>5. ASSUME NEW t \in Threads, Announce(t) PROVE SafeInv'
  <2>1. inOp \subseteq inOp'
    BY <1>5, AnnounceInOp
  <2> QED
    BY <1>2, <1>5, <2>1 DEF Announce, history
<1>6. ASSUME NEW t \in Threads, Loop(t) \/ InitThread(t) \/ Scan(t) PROVE SafeInv'
  BY <1>2, <1>6 DEF Loop, debraVars, threadVars, history, InitThread, Scan, inOp
<1>7. CASE MainStep \/ Finished
  BY <1>2, <1>7 DEF MainStep, Finished, vars, debraVars, threadVars, history, inOp
<1> QED
  BY <1>3, <1>4, <1>5, <1>6, <1>7, AdvanceSafe, ReadEpochSafe, RetireSafe
  DEF Next, ThreadStep

(* The bags are in order as long as index and currentBag agree.            *)
LEMMA SafeInvariant == Spec /\ []Agree => []SafeInv
<1>1. Init => SafeInv
  BY InitInv
<1>2. IInv /\ SafeInv /\ Agree /\ [Next]_vars => SafeInv'
  <2> SUFFICES ASSUME IInv, SafeInv, Agree, [Next]_vars PROVE SafeInv'
    OBVIOUS
  <2>1. CASE UNCHANGED vars
    <3>1. UNCHANGED debraVars
      BY <2>1 DEF vars
    <3>2. /\ \A t \in Threads, b \in Bags : Bag(t, b)' = Bag(t, b)
          /\ inOp' = inOp /\ \A u \in Threads : Stuck(u)' <=> Stuck(u)
      BY <3>1, PlaceFrame DEF debraVars, threadVars, inOp, Stuck
    <3>3. AgeInv'
      BY <3>1, <3>2 DEF debraVars, threadVars, history, SafeInv, AgeInv
    <3>4. WaitInv'
      BY <3>1, <3>2 DEF debraVars, threadVars, history, SafeInv, WaitInv, inOp, Stuck
    <3> QED
      BY <3>3, <3>4 DEF SafeInv
  <2> QED
    BY <2>1, SafeStep
<1> QED
  BY <1>1, <1>2, InductiveInvariant, PTL DEF Spec

LEMMA LimboMember ==
    /\ \A r : r \in limbo <=> \E t \in Threads :
          r \in deamortizedFreeables[t] \/ \E b \in Bags : r \in Bag(t, b)
    /\ \A r : r \in limbo' <=> \E t \in Threads :
          r \in deamortizedFreeables'[t] \/ \E b \in Bags : r \in Bag(t, b)'
  BY DEF limbo, InBags, Bag

(* Every step of DEBRA is a step of a safe reclamation.                    *)
LEMMA PromiseStep ==
    ASSUME IInv, SafeInv, Next
    PROVE  Promise!Next \/ UNCHANGED <<inOp, limbo, waits>>
<1> USE DEF IInv
<1>1. ASSUME UNCHANGED <<epochbags, deamortizedFreeables, announcedEpoch, waits>>
      PROVE  UNCHANGED <<inOp, limbo, waits>>
  BY <1>1, PlaceFrame DEF inOp
<1>2. CASE MainStep \/ Finished
  BY <1>1, <1>2 DEF MainStep, Finished, vars, debraVars, threadVars, history
<1>3. ASSUME NEW t \in Threads, Loop(t) \/ InitThread(t) \/ Scan(t) \/ AdvanceEpoch(t)
      PROVE  UNCHANGED <<inOp, limbo, waits>>
  BY <1>1, <1>3
  DEF Loop, debraVars, threadVars, history, InitThread, Scan, AdvanceEpoch
<1>4. ASSUME NEW freed \in SUBSET limbo, \A r \in freed : waits[r] = {},
             limbo' = limbo \ freed, UNCHANGED <<inOp, waits>>
      PROVE  Promise!Next \/ UNCHANGED <<inOp, limbo, waits>>
  <2>1. CASE freed = {}
    BY <1>4, <2>1
  <2>2. CASE freed # {}
    BY <1>4, <2>2 DEF Promise!Next, Promise!Free, Promise!GraceOver
  <2> QED
    BY <2>1, <2>2
<1>5. ASSUME NEW t \in Threads, ReadEpoch(t)
      PROVE  Promise!Next \/ UNCHANGED <<inOp, limbo, waits>>
  <2> DEFINE next == NextIndex(index[t])
             due  == deamortizedFreeables[t] \cup Moved(t)
  <2>1. PICK freed \in SUBSET due :
          /\ deamortizedFreeables' = [deamortizedFreeables EXCEPT ![t] = due \ freed]
          /\ Moved(t) \subseteq Bag(t, next)
          /\ \A u \in Threads, b \in Bags :
                Bag(u, b)' = IF u = t /\ b = next THEN Bag(u, b) \ Moved(t)
                                                  ELSE Bag(u, b)
    BY <1>5, ReadEpochBags
  <2>2. next \in Bags
    BY BagFacts DEF TypeOK
  <2>3. \A u \in Threads : deamortizedFreeables'[u] =
            IF u = t THEN due \ freed ELSE deamortizedFreeables[u]
    BY <2>1 DEF TypeOK
  <2>4. \A r \in freed : r \in limbo /\ waits[r] = {}
    BY <1>5, <2>1, <2>2, LimboMember, ReadEpochSafe
  <2>5. ASSUME NEW r, r \in limbo' PROVE r \in limbo \ freed
    <3>1. PICK u \in Threads :
             r \in deamortizedFreeables'[u] \/ \E b \in Bags : r \in Bag(u, b)'
      BY <2>5, LimboMember
    <3>2. CASE r \in deamortizedFreeables'[u]
      <4>1. CASE u = t
        BY <2>1, <2>2, <2>3, <3>2, <4>1, LimboMember
      <4>2. CASE u # t
        <5>1. r \in deamortizedFreeables[u]
          BY <2>3, <3>2, <4>2
        <5>2. r \notin due
          BY <2>1, <2>2, <4>2, <5>1 DEF PlaceInv
        <5> QED
          BY <5>1, <5>2, LimboMember
      <4> QED
        BY <4>1, <4>2
    <3>3. ASSUME NEW b \in Bags, r \in Bag(u, b)' PROVE r \in limbo \ freed
      <4>1. r \in Bag(u, b)
        BY <2>1, <3>3
      <4>2. r \notin deamortizedFreeables[t]
        BY <4>1 DEF PlaceInv
      <4>3. r \notin Moved(t)
        <5>1. CASE u = t /\ b = next
          BY <2>1, <3>3, <5>1
        <5>2. CASE ~(u = t /\ b = next)
          BY <2>1, <2>2, <4>1, <5>2 DEF PlaceInv
        <5> QED
          BY <5>1, <5>2
      <4> QED
        BY <4>1, <4>2, <4>3, LimboMember
    <3> QED
      BY <3>1, <3>2, <3>3
  <2>6. ASSUME NEW r, r \in limbo \ freed PROVE r \in limbo'
    <3>1. PICK u \in Threads :
             r \in deamortizedFreeables[u] \/ \E b \in Bags : r \in Bag(u, b)
      BY <2>6, LimboMember
    <3>2. CASE r \in due
      BY <2>3, <2>6, <3>2, LimboMember
    <3>3. CASE r \notin due
      <4>1. r \in deamortizedFreeables[u] => r \in deamortizedFreeables'[u]
        BY <2>3, <3>3
      <4>2. \A b \in Bags : r \in Bag(u, b) => r \in Bag(u, b)'
        BY <2>1, <3>3
      <4> QED
        BY <3>1, <4>1, <4>2, LimboMember
    <3> QED
      BY <3>2, <3>3
  <2>7. limbo' = limbo \ freed
    BY <2>5, <2>6
  <2>8. UNCHANGED <<inOp, waits>>
    BY <1>5 DEF ReadEpoch, history, inOp
  <2> QED
    BY <1>4, <2>4, <2>7, <2>8
<1>6. ASSUME NEW t \in Threads, DeinitThread(t)
      PROVE  Promise!Next \/ UNCHANGED <<inOp, limbo, waits>>
  <2>1. \A u \in Threads : tpc[u] # "call"
    <3>1. running = 0 /\ Active \subseteq Threads
      BY <1>6 DEF DeinitThread, Leave, Active
    <3>2. IsFiniteSet(Active)
      BY <3>1, ThreadFacts, FS_Subset
    <3>3. Active = {}
      BY <3>1, <3>2, FS_EmptySet DEF StageInv
    <3> QED
      BY <3>3 DEF Active
  <2>2. inOp = {}
    BY <2>1 DEF inOp, OpInv, OpOK
  <2>3. \A r \in Records : waits[r] = {}
    BY <2>2 DEF SafeInv, WaitInv
  <2>4. /\ \A u \in Threads, b \in Bags : Bag(u, b)' = IF u = t THEN {} ELSE Bag(u, b)
        /\ deamortizedFreeables' = [deamortizedFreeables EXCEPT ![t] = {}]
    BY <1>6, DeinitBags
  <2>5. \A u \in Threads : deamortizedFreeables'[u] =
            IF u = t THEN {} ELSE deamortizedFreeables[u]
    BY <2>4 DEF TypeOK
  <2>6. limbo \subseteq Records
    <3>1. \A u \in Threads : deamortizedFreeables[u] \subseteq Records
      BY DEF TypeOK
    <3> QED
      BY <3>1, BagInRecords, LimboMember
  <2>7. limbo' \subseteq limbo
    BY <2>4, <2>5, LimboMember
  <2>8. UNCHANGED <<inOp, waits>>
    BY <1>6 DEF DeinitThread, history, inOp
  <2> DEFINE freed == limbo \ limbo'
  <2>9. /\ freed \in SUBSET limbo /\ limbo' = limbo \ freed
        /\ \A r \in freed : waits[r] = {}
    BY <2>3, <2>6, <2>7
  <2> HIDE DEF freed
  <2> QED
    BY <1>4, <2>8, <2>9
<1>7. ASSUME NEW t \in Threads, Announce(t) PROVE Promise!Next
  <2>1. t \notin inOp /\ inOp' = inOp \cup {t}
    BY <1>7, AnnounceInOp
  <2>2. UNCHANGED <<limbo, waits>>
    BY <1>7, PlaceFrame DEF Announce, history
  <2> QED
    BY <2>1, <2>2 DEF Promise!Next, Promise!StartOp
<1>8. ASSUME NEW t \in Threads, EndOp(t) PROVE Promise!Next
  <2>1. t \in inOp /\ inOp' = inOp \ {t}
    BY <1>8, EndOpInOp
  <2>2. limbo' = limbo /\ waits' = [r \in Records |-> waits[r] \ {t}]
    BY <1>8, PlaceFrame DEF EndOp
  <2> QED
    BY <2>1, <2>2 DEF Promise!Next, Promise!EndOp
<1>9. ASSUME NEW t \in Threads, Retire(t) PROVE Promise!Next
  <2>1. PICK r \in Records \ limbo :
          /\ epochbags' = [epochbags EXCEPT ![t][currentBag[t]] = Append(@, r)]
          /\ waits' = [waits EXCEPT ![r] = inOp]
    BY <1>9 DEF Retire
  <2>2. \A u \in Threads, b \in Bags :
          Bag(u, b)' = IF u = t /\ b = currentBag[t] THEN Bag(u, b) \cup {r}
                                                     ELSE Bag(u, b)
    BY <2>1, RetireBags
  <2>3. UNCHANGED <<announcedEpoch, deamortizedFreeables>> /\ dpc[t] = "body"
    BY <1>9 DEF Retire
  <2>4. currentBag[t] \in Bags
    BY DEF TypeOK
  <2>5. limbo' = limbo \cup {r}
    <3>1. r \in limbo'
      BY <2>2, <2>4, LimboMember
    <3>2. \A q : q # r => (q \in limbo' <=> q \in limbo)
      BY <2>2, <2>3, LimboMember
    <3> QED
      BY <3>1, <3>2
  <2>6. t \in inOp /\ inOp' = inOp
    BY <2>3 DEF inOp, OpInv, OpOK
  <2> QED
    BY <2>1, <2>5, <2>6 DEF Promise!Next, Promise!Retire
<1> QED
  BY <1>2, <1>3, <1>5, <1>6, <1>7, <1>8, <1>9 DEF Next, ThreadStep

(* No record is freed while an operation that ran when it was retired      *)
(* still runs: DEBRA implements a safe reclamation, whatever the number of *)
(* threads, records and stages, as long as index and currentBag agree.     *)
THEOREM SafeReclamation == Spec /\ []Agree => ReclamationSpec
<1>1. Init => Promise!Init
  <2> SUFFICES ASSUME Init PROVE Promise!Init
    OBVIOUS
  <2>1. IInv /\ mpc = "create" /\ waits = [r \in Records |-> {}]
    BY InitInv DEF Init, BenchInit
  <2>2. \A t \in Threads : tpc[t] = "none"
    BY <2>1 DEF IInv, StageInv
  <2>3. inOp = {}
    BY <2>1, <2>2 DEF inOp, IInv, OpInv, OpOK
  <2>4. limbo = {}
    BY <2>1, <2>2, LimboMember DEF IInv, EmptyInv
  <2> QED
    BY <2>1, <2>3, <2>4 DEF Promise!Init
<1>2. IInv /\ SafeInv /\ [Next]_vars => [Promise!Next]_<<inOp, limbo, waits>>
  <2> SUFFICES ASSUME IInv, SafeInv, [Next]_vars
               PROVE  Promise!Next \/ UNCHANGED <<inOp, limbo, waits>>
    OBVIOUS
  <2>1. CASE UNCHANGED vars
    BY <2>1, PlaceFrame DEF vars, debraVars, threadVars, history, inOp
  <2> QED
    BY <2>1, PromiseStep
<1> QED
  BY <1>1, <1>2, InductiveInvariant, SafeInvariant, PTL
  DEF Spec, ReclamationSpec, Promise!Spec

(* Only records that were retired two epochs ago or earlier leave a bag    *)
(* for deamortizedFreeables, as long as index and currentBag agree.        *)
THEOREM RotationLate == Spec /\ []Agree => RotationIsLate
<1> DEFINE Late == \A t \in Threads : \A r \in InBags(t) \ InBags(t)' :
                      tpc[t] = "call" => epoch >= retiredIn[r] + 2 * EPOCH_INCREMENT
<1>1. IInv /\ SafeInv /\ [Next]_vars => [Late]_vars
  <2> SUFFICES ASSUME IInv, SafeInv, Next,
                      NEW t \in Threads, NEW r \in InBags(t) \ InBags(t)', tpc[t] = "call"
               PROVE  epoch >= retiredIn[r] + 4
    BY DEF EPOCH_INCREMENT
  <2>1. PICK b \in Bags : r \in Bag(t, b) /\ r \notin Bag(t, b)'
    BY DEF InBags, Bag
  <2>2. ReadEpoch(t)
    <3>1. ASSUME UNCHANGED epochbags PROVE FALSE
      BY <2>1, <3>1 DEF Bag
    <3>2. ASSUME NEW u \in Threads, ThreadStep(u) PROVE u = t /\ ReadEpoch(t)
      <4>1. CASE ReadEpoch(u)
        <5>1. \A c \in Bags : u # t => Bag(t, c)' = Bag(t, c)
          BY <4>1, ReadEpochBags DEF IInv
        <5> QED
          BY <2>1, <4>1, <5>1
      <4>2. CASE Retire(u)
        <5>1. PICK q \in Records \ limbo :
                epochbags' = [epochbags EXCEPT ![u][currentBag[u]] = Append(@, q)]
          BY <4>2 DEF Retire
        <5>2. TypeOK /\ PlaceInv
          BY DEF IInv
        <5>3. \A v \in Threads, c \in Bags :
                Bag(v, c)' = IF v = u /\ c = currentBag[u]
                             THEN Bag(v, c) \cup {q} ELSE Bag(v, c)
          BY <5>1, <5>2, RetireBags
        <5> QED
          BY <2>1, <5>3
      <4>3. CASE DeinitThread(u)
        <5>1. u # t
          BY <4>3 DEF DeinitThread, Leave, To
        <5>2. Bag(t, b)' = Bag(t, b)
          BY <4>3, <5>1, DeinitBags DEF IInv
        <5> QED
          BY <2>1, <5>2
      <4> QED
        BY <3>1, <3>2, <4>1, <4>2, <4>3
        DEF ThreadStep, Loop, debraVars, threadVars, InitThread, Announce, Scan,
            AdvanceEpoch, EndOp
    <3> QED
      BY <3>1, <3>2 DEF Next, MainStep, Finished, vars, debraVars, threadVars
  <2>3. b = NextIndex(index[t])
    BY <2>1, <2>2, ReadEpochBags DEF IInv
  <2>4. /\ retiredIn[r] + 4 <= localvar_announcedEpoch[t]
        /\ retiredIn[r] \in Nat /\ localvar_announcedEpoch[t] \in Nat /\ epoch \in Nat
    BY <2>1, <2>3, BagInRecords DEF SafeInv, AgeInv, EPOCH_INCREMENT, IInv, TypeOK
  <2>5. localvar_announcedEpoch[t] <= epoch
    BY <2>1 DEF IInv, OpInv, OpOK
  <2> QED
    BY <2>4, <2>5
<1> QED
  BY <1>1, InductiveInvariant, SafeInvariant, PTL DEF Spec, RotationIsLate

-----------------------------------------------------------------------------
(* Index and current bag                                                   *)

(* When only the test stage has threads, every thread is initialised once, *)
(* before its first rotation.                                              *)
FreshInv ==
    /\ Agree
    /\ stage < 3 => mpc = "create"
    /\ \A t \in Threads : tpc[t] \in {"none", "pre"} /\ mpc # "report" =>
          index[t] = 0 /\ currentBag[t] = 0

(* Prefill and warm-up need to have no threads: index and currentBag agree *)
(* then, and both results hold without a further hypothesis.               *)
LEMMA OneStageAgrees ==
    ASSUME Stages[1].threads = 0, Stages[2].threads = 0
    PROVE  Spec => []Agree
<1>1. Init => FreshInv
  BY DEF Init, BenchInit, FreshInv, Agree
<1>2. IInv /\ FreshInv /\ [Next]_vars => FreshInv'
  <2> SUFFICES ASSUME IInv, FreshInv, [Next]_vars PROVE FreshInv'
    OBVIOUS
  <2>1. stage \in 1 .. 3
    BY DEF IInv, BenchTypeOK
  <2>2. ASSUME UNCHANGED <<mpc, stage, index, currentBag>>,
               \A t \in Threads : tpc'[t] \in {"none", "pre"} => tpc[t] \in {"none", "pre"}
        PROVE  FreshInv'
    BY <2>2 DEF FreshInv, Agree
  <2>3. CASE UNCHANGED vars
    BY <2>2, <2>3 DEF vars, benchVars, debraVars, threadVars
  <2>4. CASE Finished
    BY <2>2, <2>4 DEF Finished, vars, benchVars, debraVars, threadVars
  <2>5. CASE MainStep
    <3>1. UNCHANGED <<index, currentBag>>
      BY <2>5 DEF MainStep, debraVars, threadVars
    <3>2. CASE SkipStage
      <4>1. stage' = stage + 1 /\ mpc = "create" /\ UNCHANGED <<mpc, tpc>>
        BY <3>2 DEF SkipStage
      <4> QED
        BY <3>1, <4>1 DEF FreshInv, Agree
    <3>3. CASE CreateThreads
      <4>1. /\ mpc = "create" /\ mpc' = "wait" /\ stage' = stage /\ Workers # {}
        BY <3>3 DEF CreateThreads
      <4>2. \A t \in Threads : tpc[t] = "none"
        BY <4>1 DEF IInv, StageInv
      <4>3. stage # 1 /\ stage # 2
        BY <4>1 DEF Workers, Current
      <4> QED
        BY <2>1, <3>1, <4>1, <4>2, <4>3 DEF FreshInv, Agree
    <3>4. CASE StartThreads
      <4>1. mpc = "wait" /\ mpc' = "join" /\ UNCHANGED <<stage, tpc>>
        BY <3>4 DEF StartThreads
      <4> QED
        BY <2>1, <3>1, <4>1 DEF FreshInv, Agree
    <3>5. CASE JoinThreads
      <4>1. mpc = "join" /\ (~(stage < 3) => mpc' = "report" /\ stage' = stage)
        BY <3>5 DEF JoinThreads, AllEnded
      <4> QED
        BY <2>1, <3>1, <4>1 DEF FreshInv, Agree
    <3> QED
      BY <2>5, <3>2, <3>3, <3>4, <3>5 DEF MainStep, Main
  <2>6. ASSUME NEW t \in Threads, ThreadStep(t) PROVE FreshInv'
    <3>1. CASE Loop(t)
      <4>1. \E to \in {"loop", "post", "step", "call", "barrier"} :
              tpc' = [tpc EXCEPT ![t] = to]
        BY <3>1 DEF Loop, SeeStart, IsStopped, StepCall, StepReturn, Post, To
      <4>2. UNCHANGED <<mpc, stage, index, currentBag>>
        BY <3>1
        DEF Loop, SeeStart, IsStopped, StepCall, StepReturn, Post, debraVars, threadVars
      <4> QED
        BY <2>2, <4>1, <4>2 DEF IInv, BenchTypeOK
    <3>2. CASE InitThread(t)
      <4>1. /\ tpc[t] = "pre" /\ tpc' = [tpc EXCEPT ![t] = "ready"]
            /\ UNCHANGED <<mpc, stage, index>>
            /\ currentBag' = currentBag \/ currentBag' = [currentBag EXCEPT ![t] = 0]
        BY <3>2 DEF InitThread, Pre, To
      <4>2. index[t] = 0 /\ currentBag[t] = 0
        BY <4>1 DEF FreshInv, IInv, StageInv
      <4>3. currentBag' = currentBag
        BY <4>1, <4>2 DEF IInv, TypeOK
      <4> QED
        BY <2>2, <4>1, <4>3 DEF IInv, BenchTypeOK
    <3>3. CASE ReadEpoch(t)
      <4>1. /\ tpc[t] = "call" /\ UNCHANGED <<mpc, stage, tpc>>
            /\ \/ UNCHANGED <<index, currentBag>>
               \/ \E next : /\ index' = [index EXCEPT ![t] = next]
                            /\ currentBag' = [currentBag EXCEPT ![t] = next]
        BY <3>3 DEF ReadEpoch, Rotate, benchVars
      <4>2. CASE UNCHANGED <<index, currentBag>>
        BY <2>2, <4>1, <4>2
      <4>3. ASSUME NEW next, index' = [index EXCEPT ![t] = next],
                   currentBag' = [currentBag EXCEPT ![t] = next]
            PROVE  FreshInv'
        <5>1. /\ index'[t] = next /\ currentBag'[t] = next
              /\ \A u \in Threads \ {t} :
                    index'[u] = index[u] /\ currentBag'[u] = currentBag[u]
          BY <4>3 DEF IInv, TypeOK
        <5> QED
          BY <4>1, <5>1 DEF FreshInv, Agree
      <4> QED
        BY <4>1, <4>2, <4>3
    <3>4. CASE DeinitThread(t)
      BY <2>2, <3>4 DEF DeinitThread, Leave, To, IInv, BenchTypeOK
    <3>5. CASE Announce(t) \/ Scan(t) \/ AdvanceEpoch(t) \/ Retire(t) \/ EndOp(t)
      BY <2>2, <3>5
      DEF Announce, Scan, AdvanceEpoch, Retire, EndOp, benchVars, threadVars
    <3> QED
      BY <2>6, <3>1, <3>2, <3>3, <3>4, <3>5 DEF ThreadStep
  <2> QED
    BY <2>3, <2>4, <2>5, <2>6 DEF Next
<1>3. FreshInv => Agree
  BY DEF FreshInv
<1> QED
  BY <1>1, <1>2, <1>3, InductiveInvariant, PTL DEF Spec

(* With threads in the test stage only DEBRA is a safe reclamation, and    *)
(* its rotations are late enough, for every number of threads, records and *)
(* operations.                                                             *)
THEOREM OneStageSafe ==
    ASSUME Stages[1].threads = 0, Stages[2].threads = 0
    PROVE  Spec => ReclamationSpec /\ RotationIsLate
  BY OneStageAgrees, SafeReclamation, RotationLate, PTL
=============================================================================
