------------------------- MODULE TicketTree_proofs -------------------------
(***************************************************************************)
(* Proofs about TicketTree, for every number of threads, keys, stages and  *)
(* nodes.  They hold as long as no version of a lock reaches its last      *)
(* value (NoWrap): a compare-and-swap cannot tell 2^16 changes of a side   *)
(* from none.  VersionsDoNotWrap says that none does in a benchmark of     *)
(* fewer than 2^16 - 1 operations.                                         *)
(*                                                                         *)
(* The invariant is about four things the state does not name: T, the      *)
(* nodes of the tree; lo[n] and hi[n], the keys n is responsible for; and  *)
(* V[t], the nodes that have been on the way to the key of t's operation   *)
(* at some moment since t got its guard.                                   *)
(***************************************************************************)
EXTENDS TicketTree, FiniteSetTheorems, WellFoundedInduction, TLAPS

(* No version has reached the last value of its 16 bits.                   *)
NoWrap == \A n \in NodeIds, s \in Sides : node[n].lock[s].version < Half - 1

Ptr == NodeIds \cup {NULL}
LockWord == [Sides -> [version : 0 .. Half - 1, ticket : 0 .. Half - 1]]
TicketPC == {"idle", "guard", "version", "child", "lock", "link", "lockParent",
             "lockBoth", "unlink", "revert", "unlock", "retireCurr",
             "retirePred", "end", "retry"}
Locals == [pc : TicketPC, curr : Ptr, pred : Ptr, ppred : Ptr,
           pred_ver : LockWord, ppred_ver : LockWord,
           right : Sides, pright : Sides, nr : Ptr]
CallSet == [op : {"insert", "remove", "get"}, key : Keys, to : Keys,
            seen : SUBSET BOOLEAN, result : {"pending", "success", "failure"}]

ThreadPC == {"none", "pre", "ready", "loop", "step", "call", "post",
             "barrier", "ended"}

TypeOK ==
    /\ stage \in 1 .. 3
    /\ tpc \in [Threads -> ThreadPC]
    /\ node \in [NodeIds -> [key : Nat, child : [Sides -> Ptr], lock : LockWord]]
    /\ at \in [Threads -> Locals]
    /\ call \in [Threads -> CallSet \cup {NoCall}]
    /\ allocated \subseteq NodeIds /\ limbo \subseteq NodeIds
    /\ inOp \subseteq Threads
    /\ waits \in [NodeIds -> SUBSET Threads]
    /\ \A n \in NodeIds : node[n].child[0] = NULL <=> node[n].child[1] = NULL

-----------------------------------------------------------------------------
(* The shape of the tree                                                   *)

Spans(lo, hi, n, k) == lo[n] <= k /\ k < hi[n]
Apart(lo, hi, m, n) == hi[m] <= lo[n] \/ hi[n] <= lo[m]
Under(lo, hi, m, n) ==
    /\ ~IsLeaf(n)
    /\ \/ lo[n] <= lo[m] /\ hi[m] <= node[n].key
       \/ node[n].key <= lo[m] /\ hi[m] <= hi[n]

(* A leaf's key is one it is responsible for; an internal node leaves the  *)
(* keys below its own to its left child and the others to its right one.   *)
Routes(T, lo, hi, n) ==
    LET l == node[n].child[0]
        r == node[n].child[1]
    IN
    /\ lo[root] <= lo[n] /\ hi[n] <= hi[root]
    /\ IsLeaf(n) => Spans(lo, hi, n, node[n].key)
    /\ ~IsLeaf(n) =>
          /\ lo[n] < node[n].key /\ node[n].key < hi[n]
          /\ l \in T /\ lo[l] = lo[n] /\ hi[l] = node[n].key
          /\ r \in T /\ lo[r] = node[n].key /\ hi[r] = hi[n]

Sentinels(T, lo, hi) ==
    /\ {0, 1, root} \subseteq T
    /\ IsLeaf(0) /\ node[0].key = KEY_MIN
    /\ IsLeaf(1) /\ node[1].key = KEY_MAX
    /\ ~IsLeaf(root) /\ node[root].key = KEY_MAX
    /\ lo[root] = KEY_MIN /\ hi[root] = KEY_MAX + 1

Shape(T, lo, hi) ==
    /\ Sentinels(T, lo, hi)
    /\ \A n \in T : Routes(T, lo, hi, n)
    /\ \A m, n \in T : m # n => \/ Apart(lo, hi, m, n)
                                \/ Under(lo, hi, m, n)
                                \/ Under(lo, hi, n, m)

Contents(T) == {k \in Keys : \E n \in T : IsLeaf(n) /\ node[n].key = k}

-----------------------------------------------------------------------------
(* Locks                                                                   *)

IsRemoved(n) == node[n].lock = TLN_REMOVED

(* The side of a node that t has locked.                                   *)
HeldNode(t) == IF op(t) = "insert" THEN at[t].pred ELSE at[t].ppred
HeldSide(t) == IF op(t) = "insert" THEN at[t].right ELSE at[t].pright
Holds(t, n, s) ==
    /\ at[t].pc \in {"link", "lockBoth", "unlink", "revert", "unlock"}
    /\ n = HeldNode(t) /\ s = HeldSide(t)
Unlocking(n, s) == \E t \in Threads : at[t].pc = "unlock" /\ Holds(t, n, s)

HolderOK(T, t, n, s) ==
    /\ n \in T /\ ~IsLeaf(n) /\ ~IsRemoved(n)
    /\ node[n].lock[s].ticket = node[n].lock[s].version + 1
    /\ \A u \in Threads : Holds(u, n, s) => u = t
FreeOrHeld(n, s) ==
    \/ IsRemoved(n)
    \/ node[n].lock[s].ticket = node[n].lock[s].version
    \/ \E t \in Threads : Holds(t, n, s)
Unlinks(t, n) == at[t].pc = "unlink" /\ at[t].pred = n

LockInv(T) ==
    /\ \A t \in Threads, n \in Ptr, s \in Sides :
          Holds(t, n, s) => HolderOK(T, t, n, s)
    /\ \A n \in NodeIds, s \in Sides : FreeOrHeld(n, s)
    /\ \A n \in T : IsRemoved(n) => \E t \in Threads : Unlinks(t, n)
    /\ \A t \in Threads, n \in Ptr : Unlinks(t, n) =>
          n \in T /\ IsRemoved(n) /\ \A u \in Threads : Unlinks(u, n) => u = t

(* What a remembered lock word says of the child that was read after it.   *)
NotAhead(n, s, ver) ==
    ver[s].version = ver[s].ticket =>
        IsRemoved(n) \/ ver[s].version <= node[n].lock[s].version
Valid(n, s, ver, c) ==
    ver[s].version = ver[s].ticket =>
        \/ IsRemoved(n)
        \/ ver[s].version < node[n].lock[s].version
        \/ /\ ver[s].version = node[n].lock[s].version
           /\ node[n].child[s] = c \/ Unlocking(n, s)

-----------------------------------------------------------------------------
(* Memory                                                                  *)

(* What an insertion has not linked yet, what a removal has not retired.   *)
NewLeaf(t) ==
    node[at[t].nr].child[IF key(t) < node[at[t].curr].key THEN 0 ELSE 1]
Fresh2(t) == IF at[t].pc = "link" THEN {at[t].nr, NewLeaf(t)} ELSE {}
Dead(t) ==
    CASE at[t].pc = "retireCurr" -> {at[t].curr, at[t].pred}
      [] at[t].pc = "unlock" /\ op(t) = "remove" -> {at[t].curr, at[t].pred}
      [] at[t].pc = "retirePred" -> {at[t].pred}
      [] OTHER -> {}
Own(t) == Fresh2(t) \cup Dead(t)

OwnInv(T) ==
    /\ T \subseteq allocated \ limbo /\ limbo \subseteq allocated
    /\ \A t \in Threads :
          /\ Own(t) \subseteq allocated \ (T \cup limbo)
          /\ \A u \in Threads : u # t => Own(t) \cap Own(u) = {}

-----------------------------------------------------------------------------
(* Operations                                                              *)

Side(k, n) == IF k < node[n].key THEN 0 ELSE 1

(* A node on the way of t is in the tree, or was removed while t was in    *)
(* its operation.                                                          *)
Located(T, t, n) ==
    \/ n \in T
    \/ \E u \in Threads : n \in Dead(u)
    \/ n \in limbo /\ t \in waits[n]
OnWay(T, lo, hi, V, t, n) ==
    /\ Located(T, t, n)
    /\ IsLeaf(n) /\ call[t].result = "pending" =>
          (node[n].key = key(t)) \in call[t].seen
    /\ ~IsLeaf(n) =>
          /\ node[n].child[Side(key(t), n)] \in V[t]
          /\ n \in T => Spans(lo, hi, n, key(t))
          /\ n \notin T => IsRemoved(n)
WayOf(T, lo, hi, V, t) ==
    /\ \A n \in T : Spans(lo, hi, n, key(t)) => n \in V[t]
    /\ \A n \in V[t] : OnWay(T, lo, hi, V, t, n)
WayInv(T, lo, hi, V) == \A t \in inOp : WayOf(T, lo, hi, V, t)

SeenOf(T, t) ==
    call[t] # NoCall /\ call[t].result = "pending" =>
        (key(t) \in Contents(T)) \in call[t].seen
SeenInv(T) == \A t \in Threads : SeenOf(T, t)

ControlOf(t) ==
    LET pc == at[t].pc IN
    /\ t \in inOp <=> pc \notin {"idle", "guard"}
    /\ pc = "idle" => at[t] = Idle
    /\ pc # "idle" => call[t] # NoCall
    /\ call[t] # NoCall =>
          (call[t].result = "pending" <=>
              pc \notin {"idle", "unlock", "retireCurr", "retirePred", "end"})
    /\ pc \in {"lock", "link"} => op(t) = "insert"
    /\ pc \in {"lockParent", "lockBoth", "unlink", "revert", "retireCurr",
               "retirePred"} => op(t) = "remove"
    /\ pc \in {"version", "retry", "unlock"} => op(t) # "get"
LoopOf(t) ==
    /\ call[t] # NoCall <=> tpc[t] = "call"
    /\ tpc[t] # "none" => mpc \in {"wait", "join"} /\ t \in Workers
ControlInv == \A t \in Threads : ControlOf(t) /\ LoopOf(t)

(* t has come from n to c by way of side s of n, whose word was ver.       *)
CameBy(V, t, n, s, ver, c) ==
    n \in V[t] /\ ~IsLeaf(n) /\ s = Side(key(t), n) /\ Valid(n, s, ver, c)

Position(V, t) ==
    LET a == at[t]
        FromPred == CameBy(V, t, a.pred, a.right, a.pred_ver, a.curr)
        FromPpred == CameBy(V, t, a.ppred, a.pright, a.ppred_ver, a.pred)
    IN
    /\ a.pc \in {"version", "child"} => a.curr \in V[t] /\ ~IsLeaf(a.curr)
    /\ a.pc = "version" => a.curr = root \/ FromPred
    /\ a.pc = "child" /\ op(t) # "get" =>
          /\ a.pred = a.curr
          /\ \A s \in Sides : NotAhead(a.pred, s, a.pred_ver)
          /\ op(t) = "remove" => a.pred = root \/ FromPpred
    /\ a.pc \in {"lock", "link", "lockParent", "lockBoth", "revert", "unlink"} =>
          /\ a.curr \in V[t] /\ IsLeaf(a.curr)
          /\ node[a.curr].key = key(t) <=> op(t) = "remove"
          /\ FromPred
          /\ op(t) = "remove" => FromPpred /\ a.pred # root
    /\ a.pc \in {"link", "unlink"} => node[a.pred].child[a.right] = a.curr
    /\ a.pc \in {"lockBoth", "unlink", "revert"} =>
          node[a.ppred].child[a.pright] = a.pred
    /\ a.pc = "link" =>
          /\ a.nr \in NodeIds /\ NewLeaf(t) \in NodeIds
          /\ node[NewLeaf(t)] = Leaf(key(t))
          /\ node[a.nr] = NewInternal(key(t), a.curr, NewLeaf(t))
    /\ a.pc \in {"unlock", "retireCurr", "retirePred"} /\ op(t) = "remove" =>
          /\ a.curr \in V[t] /\ IsLeaf(a.curr)
          /\ a.pred \in V[t] /\ ~IsLeaf(a.pred)

Inv(T, lo, hi, V) ==
    /\ TypeOK /\ ControlInv
    /\ Shape(T, lo, hi) /\ LockInv(T) /\ OwnInv(T)
    /\ WayInv(T, lo, hi, V) /\ SeenInv(T)
    /\ \A t \in Threads : Position(V, t)

IInv ==
    \E T \in SUBSET NodeIds, lo, hi \in [NodeIds -> Int],
       V \in [Threads -> SUBSET NodeIds] : Inv(T, lo, hi, V)

-----------------------------------------------------------------------------
(* The constants                                                           *)

LEMMA Constants ==
    /\ KEY_MIN = 0 /\ KEY_MAX \in Nat
    /\ \A k \in Keys : k \in Nat /\ 0 < k /\ k < KEY_MAX
    /\ {0, 1, root} \subseteq NodeIds /\ NodeIds \subseteq Nat
    /\ NULL \notin NodeIds /\ root # 0 /\ root # 1
    /\ Half \in Nat /\ Half > 5
<1>1. Max(Keys) \in Keys /\ \A k \in Keys : k <= Max(Keys)
  <2>1. PICK m \in Keys : \A j \in Keys : j <= m
    BY TicketAssumption
  <2>2. \A j \in Keys : m >= j
    BY <2>1, BenchAssumption
  <2>3. \E x \in Keys : \A j \in Keys : x >= j
    BY <2>2
  <2> QED
    BY <2>3, BenchAssumption DEF Max
<1>2. \A k \in Keys : k \in Nat /\ 0 < k
  BY BenchAssumption
<1> QED
  BY <1>1, <1>2, TicketAssumption
  DEF KEY_MIN, KEY_MAX, NodeIds, root, NULL, Half

LEMMA LeastElement ==
    ASSUME NEW S \in SUBSET Nat, S # {}
    PROVE  Min(S) \in S /\ \A y \in S : Min(S) <= y
<1> DEFINE R == {ss \in Nat \X Nat : ss[1] < ss[2]}
<1>1. IsWellFoundedOn(R, Nat)
  BY NatLessThanWellFounded DEF OpToRel
<1>2. \A x, y \in Nat : y < x => <<y, x>> \in R
  OBVIOUS
<1> HIDE DEF R
<1>3. PICK x \in S : \A y \in S : ~(<<y, x>> \in R)
  BY <1>1, WFMin
<1>4. \A y \in S : ~(y < x)
  BY <1>2, <1>3
<1>5. \A y \in S : x <= y
  BY <1>4, S \subseteq Nat
<1> QED
  BY <1>5 DEF Min

-----------------------------------------------------------------------------
(* What the shape of the tree says                                         *)

(* No two leaves are responsible for the same key.                         *)
LEMMA OneLeaf ==
    ASSUME NEW T \in SUBSET NodeIds, NEW lo \in [NodeIds -> Int],
           NEW hi \in [NodeIds -> Int], Shape(T, lo, hi),
           NEW m \in T, NEW n \in T, IsLeaf(m), IsLeaf(n), NEW k \in Int,
           Spans(lo, hi, m, k), Spans(lo, hi, n, k)
    PROVE  m = n
  BY DEF Shape, Spans, Apart, Under

(* The leaf that is responsible for a key tells whether it is there.       *)
LEMMA LeafDecides ==
    ASSUME NEW T \in SUBSET NodeIds, NEW lo \in [NodeIds -> Int],
           NEW hi \in [NodeIds -> Int], Shape(T, lo, hi),
           NEW n \in T, IsLeaf(n), NEW k \in Keys, Spans(lo, hi, n, k)
    PROVE  node[n].key = k <=> k \in Contents(T)
<1>1. k \in Int
  BY Constants
<1>2. ASSUME NEW m \in T, IsLeaf(m), node[m].key = k PROVE m = n
  <2>1. Spans(lo, hi, m, k)
    BY <1>2 DEF Shape, Routes
  <2> QED
    BY <1>1, <1>2, <2>1, OneLeaf
<1> QED
  BY <1>2 DEF Contents

(* A node is the child of one side of one node.                            *)
LEMMA OneParent ==
    ASSUME TypeOK, NEW T \in SUBSET NodeIds, NEW lo \in [NodeIds -> Int],
           NEW hi \in [NodeIds -> Int], Shape(T, lo, hi),
           NEW m \in T, NEW n \in T, NEW r \in Sides, NEW s \in Sides,
           ~IsLeaf(m), ~IsLeaf(n), node[m].child[r] = node[n].child[s]
    PROVE  m = n /\ r = s
<1> DEFINE c == node[m].child[r]
<1>1. node[m].key \in Int /\ node[n].key \in Int /\ r \in {0, 1} /\ s \in {0, 1}
  BY DEF TypeOK, Sides
<1>2. c \in T /\ lo[m] < node[m].key /\ node[m].key < hi[m]
      /\ (r = 0 => lo[c] = lo[m] /\ hi[c] = node[m].key)
      /\ (r = 1 => lo[c] = node[m].key /\ hi[c] = hi[m])
  BY <1>1 DEF Shape, Routes
<1>3. c \in T /\ lo[n] < node[n].key /\ node[n].key < hi[n]
      /\ (s = 0 => lo[c] = lo[n] /\ hi[c] = node[n].key)
      /\ (s = 1 => lo[c] = node[n].key /\ hi[c] = hi[n])
  BY <1>1 DEF Shape, Routes
<1>4. m # n => \/ Apart(lo, hi, m, n)
               \/ Under(lo, hi, m, n)
               \/ Under(lo, hi, n, m)
  BY DEF Shape
<1> HIDE DEF c
<1> QED
  BY <1>1, <1>2, <1>3, <1>4 DEF Apart, Under

(* A leaf below the root is a sentinel.                                    *)
LEMMA RootChild ==
    ASSUME TypeOK, NEW T \in SUBSET NodeIds, NEW lo \in [NodeIds -> Int],
           NEW hi \in [NodeIds -> Int], Shape(T, lo, hi),
           NEW s \in Sides
    PROVE  IsLeaf(node[root].child[s]) => node[node[root].child[s]].key \notin Keys
<1>1. KEY_MIN = 0 /\ KEY_MAX \in Nat /\ 0 \in T /\ 1 \in T /\ root \in T
  BY Constants DEF Shape, Sentinels
<1>2. IsLeaf(node[root].child[s]) => node[node[root].child[s]].key \notin Keys
  <2> SUFFICES ASSUME IsLeaf(node[root].child[s])
               PROVE  node[node[root].child[s]].key \notin Keys
    OBVIOUS
  <2>1. Routes(T, lo, hi, root) /\ Routes(T, lo, hi, 0) /\ Routes(T, lo, hi, 1)
    BY <1>1 DEF Shape
  <2>2. CASE s = 0
    <3>1. node[root].child[0] \in T /\ Spans(lo, hi, node[root].child[0], 0)
      BY <1>1, <2>1, Constants DEF Shape, Sentinels, Routes, Spans
    <3>2. Spans(lo, hi, 0, 0)
      BY <1>1, <2>1 DEF Shape, Sentinels, Routes
    <3>3. node[root].child[0] = 0
      BY <1>1, <2>2, <3>1, <3>2, OneLeaf DEF Shape, Sentinels
    <3> QED
      BY <2>2, <3>3, <1>1, Constants DEF Shape, Sentinels
  <2>3. CASE s = 1
    <3>1. node[root].child[1] \in T /\ Spans(lo, hi, node[root].child[1], KEY_MAX)
      BY <1>1, <2>1, Constants DEF Shape, Sentinels, Routes, Spans
    <3>2. Spans(lo, hi, 1, KEY_MAX)
      BY <1>1, <2>1 DEF Shape, Sentinels, Routes
    <3>3. node[root].child[1] = 1
      BY <1>1, <2>3, <3>1, <3>2, OneLeaf DEF Shape, Sentinels
    <3> QED
      BY <2>3, <3>3, <1>1, Constants DEF Shape, Sentinels
  <2> QED
    BY <2>2, <2>3 DEF Sides
<1> QED
  BY <1>2

(* The tree only depends on the keys and children of its nodes.            *)
LEMMA ShapeFrame ==
    ASSUME NEW T \in SUBSET NodeIds, NEW lo \in [NodeIds -> Int],
           NEW hi \in [NodeIds -> Int], Shape(T, lo, hi),
           \A n \in T : node'[n].key = node[n].key /\ node'[n].child = node[n].child
    PROVE  Shape(T, lo, hi)' /\ Contents(T)' = Contents(T)
<1>1. \A n \in T : IsLeaf(n)' <=> IsLeaf(n)
  BY DEF IsLeaf
<1>2. Sentinels(T, lo, hi)'
  BY <1>1 DEF Shape, Sentinels
<1>3. \A n \in T : Routes(T, lo, hi, n)'
  BY <1>1 DEF Shape, Routes
<1>5. \A m, n \in T : m # n =>
          Apart(lo, hi, m, n)' \/ Under(lo, hi, m, n)' \/ Under(lo, hi, n, m)'
  BY <1>1 DEF Shape, Apart, Under
<1>6. Contents(T)' = Contents(T)
  BY <1>1 DEF Contents
<1> QED
  BY <1>2, <1>3, <1>5, <1>6 DEF Shape

(* Side s of n has the child c.                                            *)
ChildIs(n, s, c) == node[n].child[s] = c

(* Side s of p gets the child c.                                           *)
SetsChild(p, s, c) == node' = [node EXCEPT ![p].child[s] = c]

(* r takes the place of c and shares its keys among its own children.      *)
Splits(lo, hi, c, r, lo2, hi2) ==
    LET k == node[r].key
        ch == node[r].child
    IN
    /\ lo2 = [n \in NodeIds |-> IF n = ch[1] THEN k
                               ELSE IF n \in {r, ch[0]} THEN lo[c] ELSE lo[n]]
    /\ hi2 = [n \in NodeIds |-> IF n = ch[0] THEN k
                               ELSE IF n \in {r, ch[1]} THEN hi[c] ELSE hi[n]]

LacksKey(c, k) == IsLeaf(c) /\ node[c].key # k

(* What an insertion of k in the place of leaf c allocates.                *)
Built(r, f, c, k) ==
    r # f /\ node[f] = Leaf(k) /\ node[r] = NewInternal(k, c, f)

Linked(T, lo, hi, c, k, r, f, lo2, hi2) ==
    /\ Shape(T \cup {r, f}, lo2, hi2)'
    /\ Contents(T \cup {r, f})' = Contents(T) \cup {k}
    /\ \A n \in T \ {c} : lo2[n] = lo[n] /\ hi2[n] = hi[n]
    /\ lo2 \in [NodeIds -> Int] /\ hi2 \in [NodeIds -> Int]

(* Linking r, with the new leaf f below it, in the place of the leaf c.    *)
LEMMA LinkShape ==
    ASSUME TypeOK, NEW T \in SUBSET NodeIds, NEW lo \in [NodeIds -> Int],
           NEW hi \in [NodeIds -> Int], Shape(T, lo, hi),
           NEW p \in T, ~IsLeaf(p), NEW s \in Sides, NEW c, ChildIs(p, s, c),
           NEW k \in Keys, Spans(lo, hi, c, k), LacksKey(c, k),
           NEW r \in NodeIds \ T, NEW f \in NodeIds \ T, Built(r, f, c, k),
           SetsChild(p, s, r), NEW lo2, NEW hi2, Splits(lo, hi, c, r, lo2, hi2)
    PROVE  Linked(T, lo, hi, c, k, r, f, lo2, hi2)
<1>0. /\ c = node[p].child[s] /\ IsLeaf(c) /\ node[c].key # k /\ r # f
      /\ node[f] = Leaf(k) /\ node[r] = NewInternal(k, c, f)
  BY DEF ChildIs, LacksKey, Built
<1> USE <1>0
<1> DEFINE kr == node[r].key
           l == node[r].child[0]
           q == node[r].child[1]
           T2 == T \cup {r, f}
<1>1. c \in T /\ c \in NodeIds /\ p \in NodeIds /\ k \in Nat /\ kr \in Nat /\ node[c].key \in Nat
      /\ s \in {0, 1} /\ r # c /\ f # c /\ r # p /\ f # p
  <2>1. c \in T
    BY DEF Shape, Routes, Sides
  <2>2. k \in Nat
    BY Constants
  <2>3. kr \in Nat /\ node[c].key \in Nat
    BY <2>1 DEF TypeOK
  <2> QED
    BY <2>1, <2>2, <2>3 DEF Sides
<1>2. IF k < node[c].key THEN kr = node[c].key /\ l = f /\ q = c
                         ELSE kr = k /\ l = c /\ q = f
  BY DEF NewInternal, Internal, Sides
<1>3. node[f].key = k /\ IsLeaf(f) /\ ~IsLeaf(r) /\ f # root /\ r # root
  <2>1. node[f].key = k /\ IsLeaf(f)
    BY DEF Leaf, IsLeaf, Sides
  <2>2. l # NULL
    BY <1>1, <1>2, Constants
  <2> QED
    BY <2>1, <2>2 DEF IsLeaf, Shape, Sentinels
<1>4. /\ \A n \in NodeIds : node'[n].key = node[n].key
      /\ \A n \in NodeIds, x \in Sides : (n # p \/ x # s) => node'[n].child[x] = node[n].child[x]
      /\ node'[p].child[s] = r
  BY <1>1 DEF TypeOK, SetsChild
<1>5. \A n \in NodeIds : IsLeaf(n)' <=> IsLeaf(n)
  <2>1. ~IsLeaf(p)'
    BY <1>1, <1>4, Constants DEF IsLeaf, Sides
  <2> QED
    BY <1>4, <2>1 DEF IsLeaf, Sides
<1>6. /\ lo2 \in [NodeIds -> Int] /\ hi2 \in [NodeIds -> Int]
      /\ lo2[r] = lo[c] /\ hi2[r] = hi[c]
      /\ lo2[l] = lo[c] /\ hi2[l] = kr
      /\ lo2[q] = kr /\ hi2[q] = hi[c]
      /\ \A n \in T \ {c} : lo2[n] = lo[n] /\ hi2[n] = hi[n]
  <2>1. l \in NodeIds /\ q \in NodeIds /\ l # q /\ l # r /\ q # r
    BY <1>1, <1>2
  <2>2. \A n \in T \ {c} : n # r /\ n # l /\ n # q /\ n \in NodeIds
    BY <1>1, <1>2
  <2> HIDE DEF l, q, kr
  <2>3. /\ lo2 = [n \in NodeIds |-> IF n = q THEN kr
                               ELSE IF n \in {r, l} THEN lo[c] ELSE lo[n]]
        /\ hi2 = [n \in NodeIds |-> IF n = l THEN kr
                               ELSE IF n \in {r, q} THEN hi[c] ELSE hi[n]]
    BY DEF Splits, l, q, kr
  <2>4. lo[c] \in Int /\ hi[c] \in Int /\ kr \in Int
    BY <1>1
  <2>5. lo2 \in [NodeIds -> Int] /\ hi2 \in [NodeIds -> Int]
    BY <2>3, <2>4
  <2> QED
    BY <2>1, <2>2, <2>3, <2>5, <1>1
<1>7. lo[c] <= node[c].key /\ node[c].key < hi[c] /\ lo[c] <= k /\ k < hi[c]
      /\ lo[c] < kr /\ kr < hi[c] /\ lo[root] <= lo[c] /\ hi[c] <= hi[root]
  BY SMTT(30), <1>1, <1>2 DEF Shape, Routes, Spans
<1> HIDE DEF kr, l, q
<1>8. Sentinels(T2, lo2, hi2)'
  <2>1. root \in T \ {c} /\ 0 \in T /\ 1 \in T
    BY DEF Shape, Sentinels
  <2>2. lo2[root] = lo[root] /\ hi2[root] = hi[root]
    BY <1>6, <2>1
  <2>3. \A n \in T : node'[n].key = node[n].key /\ (IsLeaf(n)' <=> IsLeaf(n))
    BY <1>4, <1>5
  <2> QED
    BY <2>1, <2>2, <2>3 DEF Shape, Sentinels
<1>9. ASSUME NEW n \in T2 PROVE Routes(T2, lo2, hi2, n)'
  <2>0. lo2[root] = lo[root] /\ hi2[root] = hi[root]
    BY <1>3, <1>6, Constants DEF Shape, Sentinels
  <2>1. CASE n = r
    <3>1. node'[r].child[0] = l /\ node'[r].child[1] = q
      BY <1>1, <1>4 DEF Sides, l, q
    <3> QED
      BY <2>0, <2>1, <3>1, <1>1, <1>2, <1>3, <1>4, <1>5, <1>6, <1>7 DEF Routes, kr
  <2>2. CASE n \in {c, f}
    <3>1. IsLeaf(n)' /\ node'[n].key = node[n].key /\ n \in {l, q} /\ node[n].key = (IF n = f THEN k ELSE node[c].key)
      BY <2>2, <1>1, <1>2, <1>3, <1>4, <1>5
    <3>2. lo[root] \in Int /\ hi[root] \in Int /\ lo[c] \in Int /\ hi[c] \in Int
      BY <1>1, Constants
    <3>3. n = l => Spans(lo2, hi2, n, node'[n].key) /\ lo2[root] <= lo2[n] /\ hi2[n] <= hi2[root]
      BY SMTT(30), <2>0, <3>1, <3>2, <1>1, <1>2, <1>6, <1>7 DEF Spans
    <3>4. n = q => Spans(lo2, hi2, n, node'[n].key) /\ lo2[root] <= lo2[n] /\ hi2[n] <= hi2[root]
      BY SMTT(30), <2>0, <3>1, <3>2, <1>1, <1>2, <1>6, <1>7 DEF Spans
    <3> QED
      BY <3>1, <3>3, <3>4 DEF Routes, Spans
  <2>3. CASE n \in T \ {c}
    <3>1. Routes(T, lo, hi, n) /\ n \in NodeIds /\ lo2[n] = lo[n] /\ hi2[n] = hi[n] /\ node[n].key \in Nat
      BY <2>3, <1>1, <1>6 DEF Shape, TypeOK
    <3>2. CASE IsLeaf(n)
      BY <2>0, <3>1, <3>2, <1>4, <1>5 DEF Routes, Spans
    <3>3. CASE ~IsLeaf(n)
      <4> DEFINE a == node[n].child[0]
                 b == node[n].child[1]
      <4>1. a \in T /\ b \in T /\ lo[n] < node[n].key /\ node[n].key < hi[n]
            /\ lo[a] = lo[n] /\ hi[a] = node[n].key /\ lo[b] = node[n].key /\ hi[b] = hi[n]
        BY <3>1, <3>3 DEF Routes
      <4>2. (a = c => n = p /\ s = 0) /\ (b = c => n = p /\ s = 1)
        <5>1. 0 \in Sides /\ 1 \in Sides /\ n \in T
          BY <2>3 DEF Sides
        <5> QED
          BY <3>3, <5>1, OneParent
      <4>3. node'[n].child[0] = (IF a = c THEN r ELSE a)
            /\ node'[n].child[1] = (IF b = c THEN r ELSE b)
        <5>1. CASE n = p
          BY <4>2, <5>1, <1>1, <1>4, <3>1 DEF Sides
        <5>2. CASE n # p
          BY <4>2, <5>2, <1>4, <3>1 DEF Sides
        <5> QED
          BY <5>1, <5>2
      <4>4. a # r /\ a # f /\ b # r /\ b # f /\ a \in NodeIds /\ b \in NodeIds
        BY <4>1
      <4>5. lo2[node'[n].child[0]] = lo[a] /\ hi2[node'[n].child[0]] = hi[a]
            /\ lo2[node'[n].child[1]] = lo[b] /\ hi2[node'[n].child[1]] = hi[b]
        <5>1. (a # c => lo2[a] = lo[a] /\ hi2[a] = hi[a]) /\ (b # c => lo2[b] = lo[b] /\ hi2[b] = hi[b])
          BY <4>1, <1>6
        <5>2. lo2[r] = lo[c] /\ hi2[r] = hi[c]
          BY <1>6
        <5> HIDE DEF a, b
        <5> QED
          BY <4>3, <5>1, <5>2
      <4>6. node'[n].child[0] \in T2 /\ node'[n].child[1] \in T2
        BY <4>1, <4>3
      <4> HIDE DEF a, b
      <4> QED
        BY <2>0, <3>1, <3>3, <4>1, <4>5, <4>6, <1>4, <1>5 DEF Routes
    <3> QED
      BY <3>2, <3>3
  <2> QED
    BY <2>1, <2>2, <2>3
<1>11. ASSUME NEW m \in T2, NEW n \in T2, m # n
       PROVE  Apart(lo2, hi2, m, n)' \/ Under(lo2, hi2, m, n)' \/ Under(lo2, hi2, n, m)'
  <2>1. \A x \in T \ {c} : \/ Apart(lo, hi, x, c)
                           \/ Under(lo, hi, c, x)
    BY <1>1 DEF Shape, Under
  <2>2. ASSUME NEW x \in T \ {c}, NEW y \in {r, f, c}
        PROVE  Apart(lo2, hi2, x, y)' \/ Under(lo2, hi2, y, x)'
    <3>1. lo2[x] = lo[x] /\ hi2[x] = hi[x] /\ lo[c] <= lo2[y] /\ hi2[y] <= hi[c] /\ node[x].key \in Nat
          /\ node'[x].key = node[x].key /\ (IsLeaf(x)' <=> IsLeaf(x)) /\ lo2[y] \in Int /\ hi2[y] \in Int
      BY <1>1, <1>2, <1>4, <1>5, <1>6, <1>7 DEF TypeOK
    <3>2. Apart(lo, hi, x, c) \/ Under(lo, hi, c, x)
      BY <2>1
    <3> QED
      BY <3>1, <3>2, <1>1 DEF Apart, Under
  <2>3. ASSUME NEW x \in {r, f, c}, NEW y \in {r, f, c}, x # y
        PROVE  Apart(lo2, hi2, x, y)' \/ Under(lo2, hi2, x, y)' \/ Under(lo2, hi2, y, x)'
    BY SMTT(30), <2>3, <1>1, <1>2, <1>3, <1>4, <1>5, <1>6, <1>7 DEF Apart, Under, kr
  <2>4. CASE m \in T \ {c} /\ n \in T \ {c}
    <3>1. lo2[m] = lo[m] /\ hi2[m] = hi[m] /\ lo2[n] = lo[n] /\ hi2[n] = hi[n]
          /\ node'[m].key = node[m].key /\ (IsLeaf(m)' <=> IsLeaf(m))
          /\ node'[n].key = node[n].key /\ (IsLeaf(n)' <=> IsLeaf(n))
      BY <2>4, <1>4, <1>5, <1>6
    <3>2. Apart(lo, hi, m, n) \/ Under(lo, hi, m, n) \/ Under(lo, hi, n, m)
      BY <2>4, <1>11 DEF Shape
    <3> QED
      BY <3>1, <3>2 DEF Apart, Under
  <2>5. CASE m \in T \ {c} /\ n \in {r, f, c}
    BY <2>2, <2>5
  <2>6. CASE n \in T \ {c} /\ m \in {r, f, c}
    BY <2>2, <2>6 DEF Apart
  <2> QED
    BY <1>11, <2>3, <2>4, <2>5, <2>6
<1>12. Shape(T2, lo2, hi2)'
  BY <1>8, <1>9, <1>11 DEF Shape
<1>13. Contents(T2)' = Contents(T) \cup {k}
  BY <1>3, <1>4, <1>5 DEF Contents
<1> QED
  BY <1>6, <1>12, <1>13 DEF Linked

(* The other child of p takes over the keys of its child on side s.        *)
Widens(lo, hi, p, s, lo2, hi2) ==
    LET k == node[p].key IN
    /\ lo2 = [n \in NodeIds |-> IF s = 0 /\ lo[n] = k THEN lo[p] ELSE lo[n]]
    /\ hi2 = [n \in NodeIds |-> IF s = 1 /\ hi[n] = k THEN hi[p] ELSE hi[n]]

(* The leaf c holds a key, it is no sentinel.                              *)
HoldsKey(c) == IsLeaf(c) /\ node[c].key \in Keys

Unlinked(T, lo, hi, p, c, lo2, hi2) ==
    /\ Shape(T \ {p, c}, lo2, hi2)'
    /\ Contents(T \ {p, c})' = Contents(T) \ {node[c].key}
    /\ \A n \in T \ {p, c} : lo2[n] <= lo[n] /\ hi[n] <= hi2[n]
    /\ lo2 \in [NodeIds -> Int] /\ hi2 \in [NodeIds -> Int]

(* Linking g to the child b of p, whose other child c is a leaf.           *)
LEMMA UnlinkShape ==
    ASSUME TypeOK, NEW T \in SUBSET NodeIds, NEW lo \in [NodeIds -> Int],
           NEW hi \in [NodeIds -> Int], Shape(T, lo, hi),
           NEW g \in T, NEW gs \in Sides, ~IsLeaf(g),
           NEW p \in T, ChildIs(g, gs, p), ~IsLeaf(p), p # root,
           NEW s \in Sides, NEW c, ChildIs(p, s, c), HoldsKey(c),
           NEW o \in Sides, o # s, NEW b, ChildIs(p, o, b),
           SetsChild(g, gs, b), NEW lo2, NEW hi2, Widens(lo, hi, p, s, lo2, hi2)
    PROVE  Unlinked(T, lo, hi, p, c, lo2, hi2)
<1> DEFINE kp == node[p].key
           T2 == T \ {p, c}
<1>1. s \in {0, 1} /\ o \in {0, 1} /\ kp \in Nat /\ \A n \in T : node[n].key \in Nat
  BY DEF Sides, TypeOK
<1>2. /\ c \in T /\ b \in T /\ c # b /\ lo[p] < kp /\ kp < hi[p]
      /\ s = 0 => lo[c] = lo[p] /\ hi[c] = kp /\ lo[b] = kp /\ hi[b] = hi[p]
      /\ s = 1 => lo[b] = lo[p] /\ hi[b] = kp /\ lo[c] = kp /\ hi[c] = hi[p]
  <2>1. Routes(T, lo, hi, p)
    BY DEF Shape
  <2>2. CASE s = 0
    BY <1>1, <2>1, <2>2 DEF Routes, ChildIs
  <2>3. CASE s = 1
    BY <1>1, <2>1, <2>3 DEF Routes, ChildIs
  <2> QED
    BY <1>1, <2>2, <2>3
<1>3. /\ lo2 \in [NodeIds -> Int] /\ hi2 \in [NodeIds -> Int]
      /\ \A n \in NodeIds : lo2[n] = (IF s = 0 /\ lo[n] = kp THEN lo[p] ELSE lo[n])
      /\ \A n \in NodeIds : hi2[n] = (IF s = 1 /\ hi[n] = kp THEN hi[p] ELSE hi[n])
  BY DEF Widens
<1>4. /\ \A n \in NodeIds : node'[n].key = node[n].key
      /\ \A n \in NodeIds, x \in Sides : (n # g \/ x # gs) => node'[n].child[x] = node[n].child[x]
      /\ node'[g].child[gs] = b
  BY DEF TypeOK, SetsChild
<1>5. \A n \in NodeIds : IsLeaf(n)' <=> IsLeaf(n)
  <2>1. ~IsLeaf(g)'
    BY <1>2, <1>4, Constants DEF IsLeaf, Sides
  <2> QED
    BY <1>4, <2>1 DEF IsLeaf, Sides
<1> HIDE DEF kp
(* How a node that stays is placed relative to p.                          *)
<1>6. ASSUME NEW n \in T2
      PROVE  \/ Apart(lo, hi, n, p)
             \/ lo[b] <= lo[n] /\ hi[n] <= hi[b]
             \/ Under(lo, hi, p, n)
  <2>1. Apart(lo, hi, n, p) \/ Under(lo, hi, n, p) \/ Under(lo, hi, p, n)
    BY DEF Shape
  <2>2. Apart(lo, hi, n, c) \/ Under(lo, hi, c, n)
    BY <1>2 DEF Shape, Under, HoldsKey
  <2>3. lo[n] < hi[n] /\ lo[c] < hi[c] /\ (~IsLeaf(n) => lo[n] < node[n].key /\ node[n].key < hi[n])
    BY <1>1, <1>2 DEF Shape, Routes, Spans
  <2>4. lo[n] \in Int /\ hi[n] \in Int /\ lo[c] \in Int /\ hi[c] \in Int /\ lo[b] \in Int /\ hi[b] \in Int
        /\ lo[p] \in Int /\ hi[p] \in Int /\ node[n].key \in Int /\ kp \in Int
    BY <1>1, <1>2
  <2>5. Under(lo, hi, n, p) =>
            \/ lo[b] <= lo[n] /\ hi[n] <= hi[b]
            \/ lo[c] <= lo[n] /\ hi[n] <= hi[c]
    <3>1. Under(lo, hi, n, p) =>
              \/ lo[p] <= lo[n] /\ hi[n] <= kp
              \/ kp <= lo[n] /\ hi[n] <= hi[p]
      BY DEF Under, kp
    <3> QED
      BY <1>1, <1>2, <3>1
  <2>6. ~(lo[c] <= lo[n] /\ hi[n] <= hi[c])
    BY <2>2, <2>3, <2>4 DEF Apart, Under
  <2> QED
    BY <2>1, <2>5, <2>6
<1>7. ASSUME NEW n \in T2
      PROVE  /\ lo[n] < hi[n] /\ (~IsLeaf(n) => lo[n] < node[n].key /\ node[n].key < hi[n] /\ node[n].key # kp)
             /\ lo2[n] <= lo[n] /\ hi[n] <= hi2[n]
             /\ (lo2[n] # lo[n] \/ hi2[n] # hi[n]) => lo[b] <= lo[n] /\ hi[n] <= hi[b]
  <2>1. lo[n] < hi[n] /\ (~IsLeaf(n) => lo[n] < node[n].key /\ node[n].key < hi[n])
    BY <1>1, <1>2 DEF Shape, Routes, Spans
  <2>2. lo[n] \in Int /\ hi[n] \in Int /\ lo[b] \in Int /\ hi[b] \in Int
        /\ lo[p] \in Int /\ hi[p] \in Int /\ node[n].key \in Int /\ kp \in Int
    BY <1>1, <1>2
  <2>3. \/ Apart(lo, hi, n, p)
        \/ lo[b] <= lo[n] /\ hi[n] <= hi[b]
        \/ Under(lo, hi, p, n)
    BY <1>6
  <2>4. /\ lo2[n] = (IF s = 0 /\ lo[n] = kp THEN lo[p] ELSE lo[n])
        /\ hi2[n] = (IF s = 1 /\ hi[n] = kp THEN hi[p] ELSE hi[n])
    BY <1>3
  <2>5. ~IsLeaf(n) => node[n].key # kp
    BY <2>1, <2>2, <2>3, <1>1, <1>2 DEF Apart, Under
  <2>6. lo2[n] <= lo[n] /\ hi[n] <= hi2[n]
    BY <2>2, <2>4, <1>2
  <2>7. s = 0 /\ lo[n] = kp => lo[b] <= lo[n] /\ hi[n] <= hi[b]
    BY <2>1, <2>2, <2>3, <1>2 DEF Apart, Under
  <2>8. s = 1 /\ hi[n] = kp => lo[b] <= lo[n] /\ hi[n] <= hi[b]
    BY <2>1, <2>2, <2>3, <1>2 DEF Apart, Under
  <2> QED
    BY <2>1, <2>4, <2>5, <2>6, <2>7, <2>8
<1>8. lo2[root] = lo[root] /\ hi2[root] = hi[root] /\ {0, 1, root} \subseteq T2
  <2>1. root \in T2 /\ 0 \in T2 /\ 1 \in T2
    BY Constants DEF Shape, Sentinels, HoldsKey
  <2>2. lo[root] <= lo[p] /\ hi[p] <= hi[root]
    BY DEF Shape, Routes
  <2>3. lo[root] \in Int /\ hi[root] \in Int /\ lo[p] \in Int /\ hi[p] \in Int /\ kp \in Int
    BY <1>1, Constants
  <2>4. lo[root] # kp /\ hi[root] # kp
    BY <1>2, <2>2, <2>3
  <2> QED
    BY <1>3, <2>1, <2>4
<1>9. Sentinels(T2, lo2, hi2)'
  BY <1>4, <1>5, <1>8, Constants DEF Shape, Sentinels
<1>10. ASSUME NEW n \in T2 PROVE Routes(T2, lo2, hi2, n)'
  <2>1. /\ Routes(T, lo, hi, n) /\ node[n].key \in Nat /\ n \in NodeIds
        /\ lo[n] \in Int /\ hi[n] \in Int /\ lo2[n] \in Int /\ hi2[n] \in Int
        /\ lo[root] \in Int /\ hi[root] \in Int
    BY <1>1, <1>3, Constants DEF Shape
  <2>2. lo2[root] <= lo2[n] /\ hi2[n] <= hi2[root]
    <3>1. lo[root] <= lo[n] /\ hi[n] <= hi[root] /\ lo[root] <= lo[p] /\ hi[p] <= hi[root]
      BY DEF Shape, Routes
    <3>2. lo2[n] \in {lo[n], lo[p]} /\ hi2[n] \in {hi[n], hi[p]}
      BY <1>3
    <3> QED
      BY <1>8, <3>1, <3>2
  <2>3. CASE IsLeaf(n)
    <3>1. lo[n] <= node[n].key /\ node[n].key < hi[n] /\ lo2[n] <= lo[n] /\ hi[n] <= hi2[n]
      BY <2>1, <2>3, <1>7 DEF Routes, Spans
    <3> QED
      BY <2>1, <2>2, <2>3, <3>1, <1>4, <1>5 DEF Routes, Spans
  <2>4. CASE ~IsLeaf(n)
    <3> DEFINE x == node[n].child[0]
               y == node[n].child[1]
    <3>1. x \in T /\ y \in T /\ lo[n] < node[n].key /\ node[n].key < hi[n] /\ node[n].key # kp
          /\ lo[x] = lo[n] /\ hi[x] = node[n].key /\ lo[y] = node[n].key /\ hi[y] = hi[n]
      BY <2>1, <2>4, <1>7 DEF Routes
    <3>2. x # c /\ y # c /\ (x = p => n = g /\ gs = 0) /\ (y = p => n = g /\ gs = 1)
      <4>1. 0 \in Sides /\ 1 \in Sides /\ n \in T /\ n # p
        BY DEF Sides
      <4>2. c = node[p].child[s] /\ p = node[g].child[gs]
        BY DEF ChildIs
      <4>3. x # c
        <5>1. node[n].child[0] = node[p].child[s] => n = p /\ 0 = s
          BY <2>4, <4>1, OneParent
        <5> QED
          BY <4>1, <4>2, <5>1
      <4>4. y # c
        <5>1. node[n].child[1] = node[p].child[s] => n = p /\ 1 = s
          BY <2>4, <4>1, OneParent
        <5> QED
          BY <4>1, <4>2, <5>1
      <4>5. x = p => n = g /\ gs = 0
        BY <2>4, <4>1, <4>2, OneParent
      <4>6. y = p => n = g /\ gs = 1
        BY <2>4, <4>1, <4>2, OneParent
      <4> QED
        BY <4>3, <4>4, <4>5, <4>6
    <3>3. node'[n].child[0] = (IF x = p THEN b ELSE x)
          /\ node'[n].child[1] = (IF y = p THEN b ELSE y)
      <4>1. 0 \in Sides /\ 1 \in Sides /\ gs \in {0, 1}
        BY DEF Sides
      <4>2. CASE n = g
        <5>1. node[g].child[gs] = p
          BY DEF ChildIs
        <5>2. CASE gs = 0
          BY <3>2, <4>1, <4>2, <5>1, <5>2, <1>4, <2>1
        <5>3. CASE gs = 1
          BY <3>2, <4>1, <4>2, <5>1, <5>3, <1>4, <2>1
        <5> QED
          BY <4>1, <5>2, <5>3
      <4>3. CASE n # g
        BY <3>2, <4>1, <4>3, <1>4, <2>1
      <4> QED
        BY <4>2, <4>3
    <3>4. lo2[n] = (IF s = 0 /\ lo[n] = kp THEN lo[p] ELSE lo[n]) /\ hi2[n] = (IF s = 1 /\ hi[n] = kp THEN hi[p] ELSE hi[n])
      BY <1>3
    <3>5. /\ lo2[x] = (IF s = 0 /\ lo[x] = kp THEN lo[p] ELSE lo[x]) /\ hi2[x] = (IF s = 1 /\ hi[x] = kp THEN hi[p] ELSE hi[x])
          /\ lo2[y] = (IF s = 0 /\ lo[y] = kp THEN lo[p] ELSE lo[y]) /\ hi2[y] = (IF s = 1 /\ hi[y] = kp THEN hi[p] ELSE hi[y])
      BY <1>3, <3>1
    <3>6. lo2[b] = lo[p] /\ hi2[b] = hi[p]
      BY <1>1, <1>2, <1>3
    <3>7. lo2[node'[n].child[0]] = lo2[n] /\ hi2[node'[n].child[0]] = node[n].key
      <4> HIDE DEF x, y
      <4>1. CASE x = p
        BY <4>1, <3>1, <3>3, <3>4, <3>6, <1>1, <1>2
      <4>2. CASE x # p
        BY <4>2, <3>1, <3>3, <3>4, <3>5
      <4> QED
        BY <4>1, <4>2
    <3>8. lo2[node'[n].child[1]] = node[n].key /\ hi2[node'[n].child[1]] = hi2[n]
      <4> HIDE DEF x, y
      <4>1. CASE y = p
        BY <4>1, <3>1, <3>3, <3>4, <3>6, <1>1, <1>2
      <4>2. CASE y # p
        BY <4>2, <3>1, <3>3, <3>4, <3>5
      <4> QED
        BY <4>1, <4>2
    <3>9. node'[n].child[0] \in T2 /\ node'[n].child[1] \in T2
      <4>1. b # p
        BY <1>1, <1>2
      <4> QED
        BY <3>1, <3>2, <3>3, <4>1, <1>2
    <3>10. lo2[n] < node[n].key /\ node[n].key < hi2[n]
      BY <2>1, <3>1, <1>7
    <3> HIDE DEF x, y
    <3> QED
      BY <2>1, <2>2, <2>4, <3>7, <3>8, <3>9, <3>10, <1>4, <1>5 DEF Routes
  <2> QED
    BY <2>3, <2>4
<1>12. ASSUME NEW m \in T2, NEW n \in T2, m # n
       PROVE  Apart(lo2, hi2, m, n)' \/ Under(lo2, hi2, m, n)' \/ Under(lo2, hi2, n, m)'
  <2>1. Apart(lo, hi, m, n) \/ Under(lo, hi, m, n) \/ Under(lo, hi, n, m)
    BY <1>12 DEF Shape
  <2>2. /\ Apart(lo, hi, n, p) \/ (lo[b] <= lo[n] /\ hi[n] <= hi[b]) \/ Under(lo, hi, p, n)
        /\ Apart(lo, hi, m, p) \/ (lo[b] <= lo[m] /\ hi[m] <= hi[b]) \/ Under(lo, hi, p, m)
    BY <1>6
  <2>3. /\ lo[n] < hi[n] /\ (~IsLeaf(n) => lo[n] < node[n].key /\ node[n].key < hi[n] /\ node[n].key # kp)
        /\ lo[m] < hi[m] /\ (~IsLeaf(m) => lo[m] < node[m].key /\ node[m].key < hi[m] /\ node[m].key # kp)
    BY <1>7
  <2>4. /\ lo2[n] = (IF s = 0 /\ lo[n] = kp THEN lo[p] ELSE lo[n]) /\ hi2[n] = (IF s = 1 /\ hi[n] = kp THEN hi[p] ELSE hi[n])
        /\ lo2[m] = (IF s = 0 /\ lo[m] = kp THEN lo[p] ELSE lo[m]) /\ hi2[m] = (IF s = 1 /\ hi[m] = kp THEN hi[p] ELSE hi[m])
    BY <1>3
  <2>5. /\ lo[n] \in Int /\ hi[n] \in Int /\ lo[m] \in Int /\ hi[m] \in Int /\ node[n].key \in Int /\ node[m].key \in Int
        /\ lo[b] \in Int /\ hi[b] \in Int /\ lo[p] \in Int /\ hi[p] \in Int /\ kp \in Int
    BY <1>1, <1>2
  <2>6. /\ node'[m].key = node[m].key /\ (IsLeaf(m)' <=> IsLeaf(m))
        /\ node'[n].key = node[n].key /\ (IsLeaf(n)' <=> IsLeaf(n))
    BY <1>4, <1>5
  <2>7. CASE Apart(lo, hi, m, n)
    BY <2>2, <2>3, <2>4, <2>5, <2>6, <2>7, <1>1, <1>2 DEF Apart, Under
  <2>8. CASE Under(lo, hi, m, n)
    BY <2>2, <2>3, <2>4, <2>5, <2>6, <2>8, <1>1, <1>2 DEF Apart, Under
  <2>9. CASE Under(lo, hi, n, m)
    BY <2>2, <2>3, <2>4, <2>5, <2>6, <2>9, <1>1, <1>2 DEF Apart, Under
  <2> QED
    BY <2>1, <2>7, <2>8, <2>9
<1>13. Shape(T2, lo2, hi2)'
  BY <1>9, <1>10, <1>12 DEF Shape
<1>14. Contents(T2)' = Contents(T) \ {node[c].key}
  <2>1. \A m \in T : IsLeaf(m) /\ node[m].key = node[c].key => m = c
    <3> SUFFICES ASSUME NEW m \in T, IsLeaf(m), node[m].key = node[c].key PROVE m = c
      OBVIOUS
    <3>1. Spans(lo, hi, m, node[c].key) /\ Spans(lo, hi, c, node[c].key) /\ node[c].key \in Int
      BY <1>1, <1>2 DEF Shape, Routes, HoldsKey
    <3> QED
      BY <3>1, <1>2, OneLeaf DEF HoldsKey
  <2> QED
    BY <2>1, <1>2, <1>4, <1>5 DEF Contents
<1>15. \A n \in T2 : lo2[n] <= lo[n] /\ hi[n] <= hi2[n]
  BY <1>7
<1> QED
  BY <1>3, <1>13, <1>14, <1>15 DEF Unlinked

-----------------------------------------------------------------------------
(* What Below computes                                                     *)

Closed(S) == \A y \in S : ~IsLeaf(y) => \A s \in Sides : node[y].child[s] \in S
Reach(m) == {x \in NodeIds : \A S \in SUBSET NodeIds :
                                 m \in S /\ Closed(S) => x \in S}
IsBelow(f) ==
    f = [m \in NodeIds |->
            IF IsLeaf(m) THEN {m}
            ELSE {m} \cup f[node[m].child[0]] \cup f[node[m].child[1]]]

(* The recursive definition has a solution: what can be reached.           *)
LEMMA ReachIsBelow ==
    ASSUME TypeOK
    PROVE  IsBelow([m \in NodeIds |-> Reach(m)])
<1> DEFINE f == [m \in NodeIds |-> Reach(m)]
<1>1. \A m \in NodeIds : ~IsLeaf(m) =>
          node[m].child[0] \in NodeIds /\ node[m].child[1] \in NodeIds
  BY DEF TypeOK, IsLeaf, Ptr, Sides
<1>2. ASSUME NEW m \in NodeIds PROVE m \in Reach(m) /\ Closed(Reach(m)) /\ Reach(m) \subseteq NodeIds
  <2>1. m \in Reach(m) /\ Reach(m) \subseteq NodeIds
    BY DEF Reach
  <2>2. ASSUME NEW y \in Reach(m), ~IsLeaf(y), NEW s \in Sides
        PROVE  node[y].child[s] \in Reach(m)
    <3>1. node[y].child[s] \in NodeIds
      BY <1>1, <2>1, <2>2 DEF Sides
    <3>2. ASSUME NEW S \in SUBSET NodeIds, m \in S, Closed(S) PROVE node[y].child[s] \in S
      <4>1. y \in S
        BY <3>2 DEF Reach
      <4> QED
        BY <2>2, <3>2, <4>1 DEF Closed
    <3> QED
      BY <3>1, <3>2 DEF Reach
  <2> QED
    BY <2>1, <2>2 DEF Closed
<1>3. ASSUME NEW m \in NodeIds, NEW S \in SUBSET NodeIds, m \in S, Closed(S)
      PROVE  Reach(m) \subseteq S
  BY <1>3 DEF Reach
<1>4. ASSUME NEW m \in NodeIds, IsLeaf(m) PROVE Reach(m) = {m}
  <2>1. Closed({m})
    BY <1>4 DEF Closed
  <2> QED
    BY <1>2, <1>3, <2>1
<1>5. ASSUME NEW m \in NodeIds, ~IsLeaf(m)
      PROVE  Reach(m) = {m} \cup Reach(node[m].child[0]) \cup Reach(node[m].child[1])
  <2> DEFINE l == node[m].child[0]
             r == node[m].child[1]
             S == {m} \cup Reach(l) \cup Reach(r)
  <2>1. l \in NodeIds /\ r \in NodeIds
    BY <1>1, <1>5
  <2>2. l \in Reach(l) /\ r \in Reach(r) /\ Closed(Reach(l)) /\ Closed(Reach(r))
        /\ Reach(l) \subseteq NodeIds /\ Reach(r) \subseteq NodeIds
    BY <1>2, <2>1
  <2>3. Closed(S)
    <3> SUFFICES ASSUME NEW y \in S, ~IsLeaf(y), NEW s \in Sides PROVE node[y].child[s] \in S
      BY DEF Closed
    <3>1. CASE y = m
      BY <3>1, <2>2 DEF Sides
    <3>2. CASE y \in Reach(l)
      BY <3>2, <2>2 DEF Closed
    <3>3. CASE y \in Reach(r)
      BY <3>3, <2>2 DEF Closed
    <3> QED
      BY <3>1, <3>2, <3>3
  <2>4. Reach(m) \subseteq S
    BY <1>3, <2>2, <2>3
  <2>5. m \in Reach(m) /\ Closed(Reach(m)) /\ Reach(m) \subseteq NodeIds
    BY <1>2
  <2>6. l \in Reach(m) /\ r \in Reach(m)
    BY <1>5, <2>5 DEF Closed, Sides
  <2>7. Reach(l) \subseteq Reach(m) /\ Reach(r) \subseteq Reach(m)
    BY <1>3, <2>1, <2>5, <2>6
  <2> QED
    BY <2>4, <2>5, <2>7
<1>6. ASSUME NEW m \in NodeIds
      PROVE  f[m] = IF IsLeaf(m) THEN {m}
                    ELSE {m} \cup f[node[m].child[0]] \cup f[node[m].child[1]]
  <2>1. f[m] = Reach(m)
    OBVIOUS
  <2>2. CASE IsLeaf(m)
    BY <1>4, <2>1, <2>2
  <2>3. CASE ~IsLeaf(m)
    <3>1. f[node[m].child[0]] = Reach(node[m].child[0])
          /\ f[node[m].child[1]] = Reach(node[m].child[1])
      BY <1>1, <2>3
    <3> HIDE DEF f
    <3> QED
      BY <1>5, <2>1, <2>3, <3>1
  <2> QED
    BY <2>2, <2>3
<1>7. f = [m \in NodeIds |-> f[m]]
  OBVIOUS
<1> HIDE DEF f
<1>8. IsBelow(f)
  BY <1>6, <1>7 DEF IsBelow
<1> QED
  BY <1>8 DEF f

LEMMA BelowIs ==
    ASSUME TypeOK
    PROVE  \E f : IsBelow(f) /\ \A n \in NodeIds : Below(n) = f[n]
<1> DEFINE g == CHOOSE f : IsBelow(f)
<1>1. \E f : IsBelow(f)
  BY ReachIsBelow
<1>2. IsBelow(g)
  BY <1>1
<1>3. \A n \in NodeIds : Below(n) = g[n]
  BY DEF Below, IsBelow
<1> HIDE DEF g
<1> QED
  BY <1>2, <1>3

(* Below a node of the tree are the nodes whose keys are among its own.    *)
Within(T, lo, hi, n) == {m \in T : lo[n] <= lo[m] /\ hi[m] <= hi[n]}

LEMMA WithinStep ==
    ASSUME TypeOK, NEW T \in SUBSET NodeIds, NEW lo \in [NodeIds -> Int],
           NEW hi \in [NodeIds -> Int], Shape(T, lo, hi), NEW n \in T
    PROVE  /\ lo[n] < hi[n]
           /\ IsLeaf(n) => \A m \in Within(T, lo, hi, n) : m = n
           /\ ~IsLeaf(n) => \A s \in Sides :
                 /\ node[n].child[s] \in T
                 /\ lo[n] <= lo[node[n].child[s]] /\ hi[node[n].child[s]] <= hi[n]
                 /\ lo[n] < lo[node[n].child[s]] \/ hi[node[n].child[s]] < hi[n]
           /\ ~IsLeaf(n) => Within(T, lo, hi, n) =
                 {n} \cup Within(T, lo, hi, node[n].child[0])
                     \cup Within(T, lo, hi, node[n].child[1])
<1>1. ASSUME NEW m \in T
      PROVE  /\ lo[m] \in Int /\ hi[m] \in Int /\ node[m].key \in Int
             /\ lo[m] < hi[m]
             /\ ~IsLeaf(m) => lo[m] < node[m].key /\ node[m].key < hi[m]
  <2>1. lo[m] \in Int /\ hi[m] \in Int
    OBVIOUS
  <2>2. node[m].key \in Int
    BY DEF TypeOK
  <2> QED
    BY <2>1, <2>2 DEF Shape, Routes, Spans
<1>2. ASSUME NEW m \in T, lo[n] <= lo[m], hi[m] <= hi[n], m # n PROVE Under(lo, hi, m, n)
  <2>1. Apart(lo, hi, m, n) \/ Under(lo, hi, m, n) \/ Under(lo, hi, n, m)
    BY <1>2 DEF Shape
  <2>2. ~Apart(lo, hi, m, n)
    BY <1>1, <1>2 DEF Apart
  <2>3. ~Under(lo, hi, n, m)
    BY <1>1, <1>2 DEF Under
  <2> QED
    BY <2>1, <2>2, <2>3
<1>3. IsLeaf(n) => \A m \in Within(T, lo, hi, n) : m = n
  BY <1>1, <1>2 DEF Within, Under
<1>4. ASSUME ~IsLeaf(n)
      PROVE  /\ node[n].child[0] \in T /\ node[n].child[1] \in T
             /\ lo[node[n].child[0]] = lo[n] /\ hi[node[n].child[0]] = node[n].key
             /\ lo[node[n].child[1]] = node[n].key /\ hi[node[n].child[1]] = hi[n]
  BY <1>4 DEF Shape, Routes
<1>5. ~IsLeaf(n) => \A s \in Sides :
                 /\ node[n].child[s] \in T
                 /\ lo[n] <= lo[node[n].child[s]] /\ hi[node[n].child[s]] <= hi[n]
                 /\ lo[n] < lo[node[n].child[s]] \/ hi[node[n].child[s]] < hi[n]
  BY <1>1, <1>4 DEF Sides
<1>6. ASSUME ~IsLeaf(n)
      PROVE  Within(T, lo, hi, n) =
                 {n} \cup Within(T, lo, hi, node[n].child[0])
                     \cup Within(T, lo, hi, node[n].child[1])
  <2>1. ASSUME NEW m \in T
        PROVE  (lo[n] <= lo[m] /\ hi[m] <= hi[n]) <=>
                 \/ m = n
                 \/ lo[n] <= lo[m] /\ hi[m] <= node[n].key
                 \/ node[n].key <= lo[m] /\ hi[m] <= hi[n]
    BY <1>1, <1>2, <1>6 DEF Under
  <2> QED
    BY <1>4, <1>6, <2>1 DEF Within
<1> QED
  BY <1>1, <1>3, <1>5, <1>6

LEMMA BelowWithin ==
    ASSUME TypeOK, NEW T \in SUBSET NodeIds, NEW lo \in [NodeIds -> Int],
           NEW hi \in [NodeIds -> Int], Shape(T, lo, hi)
    PROVE  \A n \in T : Below(n) = Within(T, lo, hi, n)
<1>0. ASSUME NEW n \in T, IsLeaf(n) PROVE Within(T, lo, hi, n) = {n}
  <2>1. \A m \in Within(T, lo, hi, n) : m = n
    BY <1>0, WithinStep
  <2>2. n \in Within(T, lo, hi, n)
    BY DEF Within
  <2> QED
    BY <2>1, <2>2
<1>1. PICK f : IsBelow(f) /\ \A n \in NodeIds : Below(n) = f[n]
  BY BelowIs
<1>2. \A n \in NodeIds : f[n] = IF IsLeaf(n) THEN {n}
                                ELSE {n} \cup f[node[n].child[0]] \cup f[node[n].child[1]]
  BY <1>1 DEF IsBelow
<1> DEFINE Bad == {n \in T : f[n] # Within(T, lo, hi, n)}
           W == {hi[n] - lo[n] : n \in Bad}
<1>3. ASSUME NEW n \in T PROVE hi[n] - lo[n] \in Nat
  <2>1. lo[n] < hi[n]
    BY WithinStep
  <2> QED
    BY <2>1
<1>4. Bad = {}
  <2> SUFFICES ASSUME Bad # {} PROVE FALSE
    OBVIOUS
  <2>1. W \in SUBSET Nat /\ W # {}
    BY <1>3
  <2>2. PICK d \in W : \A e \in W : d <= e
    BY <2>1, LeastElement
  <2>3. PICK n \in Bad : d = hi[n] - lo[n]
    BY <2>2
  <2>4. \A m \in T : hi[m] - lo[m] < hi[n] - lo[n] => f[m] = Within(T, lo, hi, m)
    <3> SUFFICES ASSUME NEW m \in T, hi[m] - lo[m] < hi[n] - lo[n], m \in Bad PROVE FALSE
      OBVIOUS
    <3>1. hi[m] - lo[m] \in W /\ hi[m] - lo[m] \in Int /\ hi[n] - lo[n] \in Int
      OBVIOUS
    <3> HIDE DEF W, Bad
    <3> QED
      BY <2>2, <2>3, <3>1
  <2>5. n \in T /\ f[n] # Within(T, lo, hi, n)
    OBVIOUS
  <2> HIDE DEF Bad, W
  <2>6. CASE IsLeaf(n)
    BY <1>0, <1>2, <2>5, <2>6
  <2>7. CASE ~IsLeaf(n)
    <3> DEFINE l == node[n].child[0]
               r == node[n].child[1]
    <3>1. /\ l \in T /\ lo[n] <= lo[l] /\ hi[l] <= hi[n]
          /\ lo[n] < lo[l] \/ hi[l] < hi[n]
      BY <2>5, <2>7, WithinStep DEF Sides
    <3>2. /\ r \in T /\ lo[n] <= lo[r] /\ hi[r] <= hi[n]
          /\ lo[n] < lo[r] \/ hi[r] < hi[n]
      BY <2>5, <2>7, WithinStep DEF Sides
    <3>3. Within(T, lo, hi, n) = {n} \cup Within(T, lo, hi, l) \cup Within(T, lo, hi, r)
      BY <2>5, <2>7, WithinStep
    <3>4. f[n] = {n} \cup f[l] \cup f[r]
      BY <1>2, <2>5, <2>7
    <3> HIDE DEF l, r
    <3>5. f[l] = Within(T, lo, hi, l)
      BY <2>4, <2>5, <3>1
    <3>6. f[r] = Within(T, lo, hi, r)
      BY <2>4, <2>5, <3>2
    <3> QED
      BY <2>5, <3>3, <3>4, <3>5, <3>6
  <2> QED
    BY <2>6, <2>7
<1> QED
  BY <1>1, <1>4

(* The dictionary holds the keys of the leaves of the tree.                *)
LEMMA PresentIs ==
    \A T \in SUBSET NodeIds, lo, hi \in [NodeIds -> Int] :
        TypeOK /\ Shape(T, lo, hi) => present = Contents(T)
<1> SUFFICES ASSUME TypeOK, NEW T \in SUBSET NodeIds, NEW lo \in [NodeIds -> Int],
                    NEW hi \in [NodeIds -> Int], Shape(T, lo, hi)
             PROVE  present = Contents(T)
  OBVIOUS
<1>1. Within(T, lo, hi, root) = T /\ root \in T
  BY DEF Within, Shape, Routes, Sentinels
<1>2. Below(root) = T
  BY <1>1, BelowWithin
<1> QED
  BY <1>2 DEF present, LeafKeys, Contents

LEMMA PresentIsNext ==
    (\A T \in SUBSET NodeIds, lo, hi \in [NodeIds -> Int] :
        TypeOK /\ Shape(T, lo, hi) => present = Contents(T))'
  BY PresentIs, PTL

(* validateStructure finds nothing to complain about.                      *)
LEMMA ShapeTreeOK ==
    ASSUME TypeOK, NEW T \in SUBSET NodeIds, NEW lo \in [NodeIds -> Int],
           NEW hi \in [NodeIds -> Int], Shape(T, lo, hi), OwnInv(T)
    PROVE  TreeOK
<1>1. Within(T, lo, hi, root) = T /\ root \in T
  BY DEF Within, Shape, Routes, Sentinels
<1>2. Below(root) = T
  BY <1>1, BelowWithin
<1>3. T \subseteq allocated \ limbo
  BY DEF OwnInv
<1>4. \A n \in T : node[n].key \in Int
  BY DEF TypeOK
<1>5. \A n \in T : IsLeaf(n) => Spans(lo, hi, n, node[n].key)
  BY DEF Shape, Routes
<1>6. \A m, n \in T : IsLeaf(m) /\ IsLeaf(n) /\ node[m].key = node[n].key => m = n
  BY <1>4, <1>5, OneLeaf
<1>7. ASSUME NEW n \in T, ~IsLeaf(n)
      PROVE  /\ \A k \in LeafKeys(node[n].child[0]) : k < node[n].key
             /\ \A k \in LeafKeys(node[n].child[1]) : k >= node[n].key
  <2> DEFINE l == node[n].child[0]
             r == node[n].child[1]
  <2>1. l \in T /\ r \in T /\ hi[l] = node[n].key /\ lo[r] = node[n].key
    BY <1>7 DEF Shape, Routes
  <2> HIDE DEF l, r
  <2>2. Below(l) = Within(T, lo, hi, l) /\ Below(r) = Within(T, lo, hi, r)
    BY <2>1, BelowWithin
  <2>3. ASSUME NEW k \in LeafKeys(l) PROVE k < node[n].key
    <3>1. PICK m \in Within(T, lo, hi, l) : IsLeaf(m) /\ k = node[m].key
      BY <2>2, <2>3 DEF LeafKeys
    <3>2. m \in T /\ hi[m] <= hi[l]
      BY <3>1 DEF Within
    <3> QED
      BY <1>4, <1>5, <2>1, <3>1, <3>2 DEF Spans
  <2>4. ASSUME NEW k \in LeafKeys(r) PROVE k >= node[n].key
    <3>1. PICK m \in Within(T, lo, hi, r) : IsLeaf(m) /\ k = node[m].key
      BY <2>2, <2>4 DEF LeafKeys
    <3>2. m \in T /\ lo[r] <= lo[m]
      BY <3>1 DEF Within
    <3> QED
      BY <1>4, <1>5, <2>1, <3>1, <3>2 DEF Spans
  <2> QED
    BY <2>3, <2>4 DEF l, r
<1> QED
  BY <1>2, <1>3, <1>6, <1>7 DEF TreeOK

-----------------------------------------------------------------------------
(* What a step leaves alone                                                *)

(* A step of somebody else: u may only notice a change of the contents.    *)
CallKept(u) ==
    /\ call'[u].op = call[u].op /\ call'[u].key = call[u].key
    /\ call[u].seen \subseteq call'[u].seen
    /\ call'[u].result = "pending" => call[u].result = "pending"
    /\ call'[u] # NoCall => call[u] # NoCall
Bystander(u) ==
    /\ CallKept(u)
    /\ at'[u] = at[u]
    /\ call'[u].result = call[u].result
    /\ call[u] # NoCall => call'[u] # NoCall
    /\ u \in inOp' <=> u \in inOp

(* What a remembered lock word says of node n stays true.                  *)
Kept(n) ==
    /\ node'[n].key = node[n].key
    /\ IsLeaf(n)' <=> IsLeaf(n)
    /\ IsRemoved(n) => IsRemoved(n)'
    /\ \A s \in Sides :
          \/ IsRemoved(n)'
          \/ node[n].lock[s].version < node'[n].lock[s].version
          \/ /\ node[n].lock[s].version = node'[n].lock[s].version
             /\ \/ Unlocking(n, s)'
                \/ node'[n].child[s] = node[n].child[s] /\ ~Unlocking(n, s)

LEMMA KeptValid ==
    ASSUME TypeOK, TypeOK', NEW n \in NodeIds, Kept(n), NEW s \in Sides,
           NEW ver \in LockWord
    PROVE  /\ \A c : Valid(n, s, ver, c) => Valid(n, s, ver, c)'
           /\ NotAhead(n, s, ver) => NotAhead(n, s, ver)'
<1>1. node[n].lock[s].version \in Int
  BY DEF TypeOK, LockWord
<1>2. node'[n].lock[s].version \in Int
  BY DEF TypeOK, LockWord
<1>3. ver[s].version \in Int
  BY DEF LockWord
<1>4. ASSUME NEW c, Valid(n, s, ver, c) PROVE Valid(n, s, ver, c)'
  BY <1>1, <1>2, <1>3, <1>4 DEF Valid, Kept
<1>5. ASSUME NotAhead(n, s, ver) PROVE NotAhead(n, s, ver)'
  BY <1>1, <1>2, <1>3, <1>5 DEF NotAhead, Kept
<1> QED
  BY <1>4, <1>5

LEMMA KeptCameBy ==
    ASSUME TypeOK, TypeOK', NEW V \in [Threads -> SUBSET NodeIds],
           NEW W \in [Threads -> SUBSET NodeIds], NEW u \in Threads,
           key(u)' = key(u), V[u] \subseteq W[u], NEW n, NEW s \in Sides,
           NEW ver \in LockWord, NEW c, CameBy(V, u, n, s, ver, c), Kept(n)
    PROVE  CameBy(W, u, n, s, ver, c)'
<1>1. n \in V[u] /\ ~IsLeaf(n) /\ s = Side(key(u), n) /\ Valid(n, s, ver, c)
  BY DEF CameBy
<1>2. n \in NodeIds
  BY <1>1
<1>3. Valid(n, s, ver, c)'
  BY <1>1, <1>2, KeptValid
<1>4. ~IsLeaf(n)' /\ Side(key(u), n)' = Side(key(u), n)
  BY <1>1, <1>2 DEF Kept, Side
<1> QED
  BY <1>1, <1>3, <1>4 DEF CameBy

(* The nodes u has locked or is about to link are as they were.            *)
HeldKept(u) ==
    LET a == at[u] IN
    /\ a.pc = "link" => \A n \in Fresh2(u) : node'[n] = node[n]
    /\ a.pc \in {"link", "unlink"} =>
          node'[a.pred].child[a.right] = node[a.pred].child[a.right]
    /\ a.pc \in {"lockBoth", "unlink", "revert"} =>
          node'[a.ppred].child[a.pright] = node[a.ppred].child[a.pright]

LEMMA BystanderPosition ==
    ASSUME TypeOK, TypeOK', ControlInv, NEW V \in [Threads -> SUBSET NodeIds],
           NEW W \in [Threads -> SUBSET NodeIds], NEW u \in Threads,
           Bystander(u), Position(V, u), V[u] \subseteq W[u],
           u \in inOp => \A n \in V[u] : Kept(n), HeldKept(u)
    PROVE  Position(W, u)'
<1>1. at'[u] = at[u] /\ op(u)' = op(u) /\ key(u)' = key(u)
  BY DEF Bystander, CallKept, op, key
<1>2. CASE u \notin inOp
  <2>1. at[u].pc \in {"idle", "guard"}
    BY <1>2 DEF ControlInv, ControlOf
  <2> QED
    BY <1>1, <2>1 DEF Position
<1>3. CASE u \in inOp
  <2>1. ASSUME NEW n, NEW s \in Sides, NEW ver \in LockWord, NEW c,
               CameBy(V, u, n, s, ver, c)
        PROVE  CameBy(W, u, n, s, ver, c)'
    <3>1. Kept(n)
      BY <1>3, <2>1 DEF CameBy
    <3> QED
      BY <1>1, <2>1, <3>1, KeptCameBy
  <2>2. /\ at[u].pred_ver \in LockWord /\ at[u].ppred_ver \in LockWord
        /\ at[u].right \in Sides /\ at[u].pright \in Sides
    BY DEF TypeOK, Locals
  <2>3. /\ CameBy(V, u, at[u].pred, at[u].right, at[u].pred_ver, at[u].curr)
              => CameBy(W, u, at[u].pred, at[u].right, at[u].pred_ver, at[u].curr)'
        /\ CameBy(V, u, at[u].ppred, at[u].pright, at[u].ppred_ver, at[u].pred)
              => CameBy(W, u, at[u].ppred, at[u].pright, at[u].ppred_ver, at[u].pred)'
    BY <1>1, <2>1, <2>2
  <2>4. \A n \in V[u] : /\ n \in W[u] /\ (IsLeaf(n)' <=> IsLeaf(n))
                        /\ node'[n].key = node[n].key
    BY <1>3 DEF Kept
  <2> DEFINE a == at[u]
  <2> USE <1>1, <2>4
  <2>5. /\ a.pc \in {"version", "child"} => a.curr \in W[u] /\ ~IsLeaf(a.curr)'
    BY DEF Position
  <2>6. a.pc = "version" =>
            a.curr = root \/ CameBy(W, u, a.pred, a.right, a.pred_ver, a.curr)'
    BY <2>3 DEF Position
  <2>7. a.pc = "child" /\ op(u) # "get" =>
          /\ a.pred = a.curr
          /\ \A s \in Sides : NotAhead(a.pred, s, a.pred_ver)'
          /\ op(u) = "remove" => a.pred = root \/ CameBy(W, u, a.ppred, a.pright, a.ppred_ver, a.pred)'
    <3> SUFFICES ASSUME a.pc = "child", op(u) # "get"
                 PROVE  /\ a.pred = a.curr
                        /\ \A s \in Sides : NotAhead(a.pred, s, a.pred_ver)'
                        /\ op(u) = "remove" => a.pred = root \/ CameBy(W, u, a.ppred, a.pright, a.ppred_ver, a.pred)'
      OBVIOUS
    <3>1. a.pred = a.curr /\ a.curr \in V[u] /\ (\A s \in Sides : NotAhead(a.pred, s, a.pred_ver))
          /\ (op(u) = "remove" => a.pred = root \/ CameBy(V, u, a.ppred, a.pright, a.ppred_ver, a.pred))
      BY DEF Position
    <3>2. Kept(a.pred) /\ a.pred \in NodeIds
      BY <1>3, <3>1
    <3>3. \A s \in Sides : NotAhead(a.pred, s, a.pred_ver)'
      BY <2>2, <3>1, <3>2, KeptValid
    <3> QED
      BY <2>3, <3>1, <3>3
  <2>8. a.pc \in {"lock", "link", "lockParent", "lockBoth", "revert", "unlink"} =>
          /\ a.curr \in W[u] /\ IsLeaf(a.curr)'
          /\ node'[a.curr].key = key(u) <=> op(u) = "remove"
          /\ CameBy(W, u, a.pred, a.right, a.pred_ver, a.curr)'
          /\ op(u) = "remove" => CameBy(W, u, a.ppred, a.pright, a.ppred_ver, a.pred)' /\ a.pred # root
    BY <2>3 DEF Position
  <2>9. a.pc \in {"link", "unlink"} => node'[a.pred].child[a.right] = a.curr
    BY DEF Position, HeldKept
  <2>10. a.pc \in {"lockBoth", "unlink", "revert"} => node'[a.ppred].child[a.pright] = a.pred
    BY DEF Position, HeldKept
  <2>11. a.pc = "link" =>
          /\ a.nr \in NodeIds /\ NewLeaf(u)' = NewLeaf(u) /\ NewLeaf(u) \in NodeIds
          /\ node'[NewLeaf(u)] = Leaf(key(u))
          /\ node'[a.nr] = NewInternal(key(u), a.curr, NewLeaf(u))'
    <3> SUFFICES ASSUME a.pc = "link"
                 PROVE  /\ a.nr \in NodeIds /\ NewLeaf(u)' = NewLeaf(u) /\ NewLeaf(u) \in NodeIds
                        /\ node'[NewLeaf(u)] = Leaf(key(u))
                        /\ node'[a.nr] = NewInternal(key(u), a.curr, NewLeaf(u))'
      OBVIOUS
    <3>1. /\ a.nr \in NodeIds /\ NewLeaf(u) \in NodeIds /\ a.curr \in V[u]
          /\ node[NewLeaf(u)] = Leaf(key(u))
          /\ node[a.nr] = NewInternal(key(u), a.curr, NewLeaf(u))
      BY DEF Position
    <3>2. node'[a.nr] = node[a.nr] /\ node'[NewLeaf(u)] = node[NewLeaf(u)]
      BY DEF HeldKept, Fresh2
    <3>3. NewLeaf(u)' = NewLeaf(u)
      BY <3>1, <3>2 DEF NewLeaf
    <3>4. NewInternal(key(u), a.curr, NewLeaf(u))' = NewInternal(key(u), a.curr, NewLeaf(u))
      BY <3>1, <3>3 DEF NewInternal, Internal
    <3> QED
      BY <3>1, <3>2, <3>3, <3>4
  <2>12. a.pc \in {"unlock", "retireCurr", "retirePred"} /\ op(u) = "remove" =>
          /\ a.curr \in W[u] /\ IsLeaf(a.curr)'
          /\ a.pred \in W[u] /\ ~IsLeaf(a.pred)'
    BY DEF Position
  <2>13. Position(W, u)'
    BY <2>5, <2>6, <2>7, <2>8, <2>9, <2>10, <2>11, <2>12 DEF Position
  <2> QED
    BY <2>13
<1> QED
  BY <1>2, <1>3

Stays(n) == Kept(n) /\ node'[n].child = node[n].child

(* A step that links and unlinks nothing, B being the threads that have no *)
(* part in it.                                                             *)
Frame(T, V, B) ==
    /\ \A u \in B : Bystander(u)
    /\ \A u \in Threads \ B : \A n \in Dead(u) :
          n \in Dead(u)' \/ (n \in limbo' /\ inOp' \subseteq waits'[n])
    /\ \A n \in T : Stays(n)
    /\ \A u \in inOp : \A n \in V[u] : Stays(n)
    /\ \A u \in B : \A n \in Fresh2(u) : node'[n] = node[n]
    /\ \A n \in limbo : \A u \in inOp' :
          u \in waits[n] => n \in limbo' /\ u \in waits'[n]

LEMMA BystanderOwn ==
    ASSUME TypeOK, ControlInv, NEW V, NEW u \in Threads, Bystander(u), Position(V, u),
           u \in inOp => \A n \in V[u] : Kept(n),
           \A n \in Fresh2(u) : node'[n] = node[n]
    PROVE  Fresh2(u)' = Fresh2(u) /\ Dead(u)' = Dead(u) /\ Own(u)' = Own(u)
<1>1. at'[u] = at[u] /\ op(u)' = op(u) /\ key(u)' = key(u)
  BY DEF Bystander, CallKept, op, key
<1>2. Dead(u)' = Dead(u)
  BY <1>1 DEF Dead
<1>3. CASE at[u].pc = "link"
  <2>1. u \in inOp /\ at[u].curr \in V[u]
    BY <1>3 DEF ControlInv, ControlOf, Position
  <2>2. node'[at[u].curr].key = node[at[u].curr].key
    BY <2>1 DEF Kept
  <2>3. node'[at[u].nr] = node[at[u].nr]
    BY <1>3 DEF Fresh2
  <2>4. NewLeaf(u)' = NewLeaf(u)
    BY <1>1, <2>2, <2>3 DEF NewLeaf
  <2>5. Fresh2(u)' = Fresh2(u)
    BY <1>1, <1>3, <2>4 DEF Fresh2
  <2> QED
    BY <1>2, <2>5 DEF Own
<1>4. CASE at[u].pc # "link"
  <2>1. Fresh2(u)' = Fresh2(u)
    BY <1>1, <1>4 DEF Fresh2
  <2> QED
    BY <1>2, <2>1 DEF Own
<1> QED
  BY <1>3, <1>4

LEMMA FrameStep ==
    ASSUME TypeOK', NEW T \in SUBSET NodeIds, NEW lo \in [NodeIds -> Int],
           NEW hi \in [NodeIds -> Int], NEW V \in [Threads -> SUBSET NodeIds],
           Inv(T, lo, hi, V), NEW B \in SUBSET Threads, Frame(T, V, B)
    PROVE  /\ Shape(T, lo, hi)' /\ Contents(T)' = Contents(T)
           /\ \A u \in B : Position(V, u)' /\ Own(u)' = Own(u)
           /\ \A u \in inOp' : u \in inOp /\ CallKept(u) => WayOf(T, lo, hi, V, u)'
           /\ \A u \in Threads : CallKept(u) => SeenOf(T, u)'
<1>1. /\ TypeOK /\ ControlInv /\ Shape(T, lo, hi) /\ WayInv(T, lo, hi, V)
      /\ SeenInv(T) /\ \A u \in Threads : Position(V, u)
  BY DEF Inv
<1>2. Shape(T, lo, hi)' /\ Contents(T)' = Contents(T)
  <2>1. \A n \in T : node'[n].key = node[n].key /\ node'[n].child = node[n].child
    BY DEF Frame, Stays, Kept
  <2> QED
    BY <1>1, <2>1, ShapeFrame
<1>3. ASSUME NEW u \in B PROVE Position(V, u)' /\ Own(u)' = Own(u) /\ Dead(u)' = Dead(u)
  <2>1. /\ Bystander(u) /\ Position(V, u) /\ u \in Threads
        /\ u \in inOp => \A n \in V[u] : Kept(n)
        /\ \A n \in Fresh2(u) : node'[n] = node[n]
    BY <1>1 DEF Frame, Stays
  <2>2. HeldKept(u)
    <3>1. ASSUME NEW n \in V[u], NEW s \in Sides, u \in inOp
          PROVE  node'[n].child[s] = node[n].child[s]
      BY <3>1 DEF Frame, Stays
    <3>2. at[u].right \in Sides /\ at[u].pright \in Sides
      BY <1>1, <2>1 DEF TypeOK, Locals
    <3>3. at[u].pc \in {"link", "unlink"} => at[u].pred \in V[u] /\ u \in inOp
      BY <1>1, <2>1 DEF Position, CameBy, ControlInv, ControlOf
    <3>4. at[u].pc \in {"lockBoth", "unlink", "revert"} => at[u].ppred \in V[u] /\ u \in inOp
      BY <1>1, <2>1 DEF Position, CameBy, ControlInv, ControlOf
    <3> QED
      BY <2>1, <3>1, <3>2, <3>3, <3>4 DEF HeldKept
  <2>3. Position(V, u)'
    BY <1>1, <2>1, <2>2, BystanderPosition
  <2>4. Own(u)' = Own(u) /\ Dead(u)' = Dead(u)
    BY <1>1, <2>1, BystanderOwn
  <2> QED
    BY <2>3, <2>4
<1>4. \A u \in Threads : \A n \in Dead(u) :
          n \in Dead(u)' \/ (n \in limbo' /\ inOp' \subseteq waits'[n])
  BY <1>3 DEF Frame
<1>5. ASSUME NEW u \in inOp', u \in inOp, CallKept(u) PROVE WayOf(T, lo, hi, V, u)'
  <2>1. WayOf(T, lo, hi, V, u) /\ key(u)' = key(u) /\ u \in Threads
    BY <1>1, <1>5 DEF WayInv, CallKept, key, TypeOK
  <2>2. \A n \in T : Spans(lo, hi, n, key(u))' => n \in V[u]
    BY <2>1 DEF WayOf, Spans
  <2>3. ASSUME NEW n \in V[u] PROVE OnWay(T, lo, hi, V, u, n)'
    <3>1. OnWay(T, lo, hi, V, u, n) /\ Kept(n) /\ node'[n].child = node[n].child
      BY <1>5, <2>1 DEF WayOf, Frame, Stays
    <3>2. Located(T, u, n)'
      BY <1>4, <1>5, <3>1 DEF OnWay, Located, Frame
    <3>3. /\ IsLeaf(n)' <=> IsLeaf(n)
          /\ node'[n].key = node[n].key /\ Side(key(u), n)' = Side(key(u), n)
          /\ IsRemoved(n) => IsRemoved(n)'
      BY <2>1, <3>1 DEF Kept, Side
    <3>4. IsLeaf(n)' /\ call'[u].result = "pending" =>
              (node'[n].key = key(u)) \in call'[u].seen
      BY <1>5, <3>1, <3>3 DEF OnWay, CallKept
    <3>5. ~IsLeaf(n)' =>
          /\ node'[n].child[Side(key(u), n)'] \in V[u]
          /\ n \in T => Spans(lo, hi, n, key(u))
          /\ n \notin T => IsRemoved(n)'
      BY <3>1, <3>3 DEF OnWay
    <3> QED
      BY <2>1, <3>2, <3>4, <3>5 DEF OnWay, Spans
  <2> QED
    BY <2>2, <2>3 DEF WayOf
<1>6. ASSUME NEW u \in Threads, CallKept(u) PROVE SeenOf(T, u)'
  BY <1>1, <1>2, <1>6 DEF SeenInv, SeenOf, CallKept, key
<1> QED
  BY <1>2, <1>3, <1>5, <1>6

(* u holds what it held.                                                   *)
SameHold(u) ==
    /\ \A n \in Ptr, s \in Sides : Holds(u, n, s)' <=> Holds(u, n, s)
    /\ at'[u].pc = "unlock" <=> at[u].pc = "unlock"
    /\ at'[u].pc = "unlink" <=> at[u].pc = "unlink"
    /\ at[u].pc = "unlink" => at'[u].pred = at[u].pred

LEMMA BystanderHold ==
    ASSUME NEW u \in Threads, Bystander(u)
    PROVE  SameHold(u)
<1>1. at'[u] = at[u] /\ op(u)' = op(u)
  BY DEF Bystander, CallKept, op
<1> QED
  BY <1>1 DEF SameHold, Holds, HeldNode, HeldSide

(* A step that only moves threads, with B as above.                        *)
Quiet(B) ==
    /\ \A u \in B : Bystander(u)
    /\ \A u \in Threads \ B : SameHold(u) /\ Own(u)' = Own(u) /\ Dead(u)' = Dead(u)
    /\ node' = node /\ allocated' = allocated /\ limbo' = limbo
    /\ \A n \in limbo : \A u \in inOp' : u \in waits[n] => u \in waits'[n]

LEMMA HoldsUnlocking ==
    ASSUME \A u \in Threads : SameHold(u)
    PROVE  \A n \in NodeIds, s \in Sides : Unlocking(n, s)' <=> Unlocking(n, s)
<1> SUFFICES ASSUME NEW n \in NodeIds, NEW s \in Sides
             PROVE  Unlocking(n, s)' <=> Unlocking(n, s)
  OBVIOUS
<1>1. \A u \in Threads : /\ Holds(u, n, s)' <=> Holds(u, n, s)
                         /\ at'[u].pc = "unlock" <=> at[u].pc = "unlock"
  BY DEF SameHold, Ptr
<1> QED
  BY <1>1 DEF Unlocking

LEMMA SameLocks ==
    ASSUME TypeOK, NEW T \in SUBSET NodeIds, LockInv(T),
           \A u \in Threads : SameHold(u),
           \A n \in NodeIds : node'[n].lock = node[n].lock,
           \A n \in T : IsLeaf(n)' <=> IsLeaf(n)
    PROVE  LockInv(T)'
<1>1. \A u \in Threads, n \in Ptr, s \in Sides : Holds(u, n, s)' <=> Holds(u, n, s)
  BY DEF SameHold
<1>2. \A n \in NodeIds : IsRemoved(n)' <=> IsRemoved(n)
  BY DEF IsRemoved, TLN_REMOVED
<1>3. ASSUME NEW t \in Threads, NEW n \in Ptr, NEW s \in Sides, Holds(t, n, s)'
      PROVE  HolderOK(T, t, n, s)'
  <2>1. HolderOK(T, t, n, s)
    BY <1>1, <1>3 DEF LockInv
  <2>2. \A u \in Threads : Holds(u, n, s)' => u = t
    BY <1>1, <2>1 DEF HolderOK
  <2> QED
    BY <2>1, <2>2, <1>2 DEF HolderOK
<1>4. ASSUME NEW n \in NodeIds, NEW s \in Sides PROVE FreeOrHeld(n, s)'
  <2>1. FreeOrHeld(n, s) /\ n \in Ptr
    BY DEF LockInv, Ptr
  <2> QED
    BY <1>1, <1>2, <2>1 DEF FreeOrHeld
<1>5. \A t \in Threads, n \in Ptr : Unlinks(t, n)' <=> Unlinks(t, n)
  BY DEF SameHold, Unlinks
<1>6. \A n \in T : IsRemoved(n)' => \E t \in Threads : Unlinks(t, n)'
  BY <1>2, <1>5 DEF LockInv, Ptr
<1>7. ASSUME NEW t \in Threads, NEW n \in Ptr, Unlinks(t, n)'
      PROVE  n \in T /\ IsRemoved(n)' /\ \A u \in Threads : Unlinks(u, n)' => u = t
  BY <1>2, <1>5, <1>7 DEF LockInv
<1> QED
  BY <1>3, <1>4, <1>6, <1>7 DEF LockInv

LEMMA QuietStep ==
    ASSUME TypeOK', NEW T \in SUBSET NodeIds, NEW lo \in [NodeIds -> Int],
           NEW hi \in [NodeIds -> Int], NEW V \in [Threads -> SUBSET NodeIds],
           Inv(T, lo, hi, V), NEW B \in SUBSET Threads, Quiet(B)
    PROVE  /\ Shape(T, lo, hi)' /\ LockInv(T)' /\ OwnInv(T)'
           /\ Contents(T)' = Contents(T)
           /\ \A u \in B : Position(V, u)'
           /\ \A u \in inOp' : u \in inOp /\ CallKept(u) => WayOf(T, lo, hi, V, u)'
           /\ \A u \in Threads : CallKept(u) => SeenOf(T, u)'
           /\ \A n \in NodeIds : Kept(n)
<1>1. TypeOK /\ LockInv(T) /\ OwnInv(T)
  BY DEF Inv
<1>2. \A u \in Threads : SameHold(u)
  BY BystanderHold DEF Quiet
<1>3. node' = node /\ allocated' = allocated /\ limbo' = limbo
  BY DEF Quiet
<1>4. \A n \in NodeIds : /\ IsLeaf(n)' <=> IsLeaf(n)
                         /\ IsRemoved(n)' <=> IsRemoved(n)
  BY <1>3 DEF IsLeaf, IsRemoved, TLN_REMOVED
<1>5. LockInv(T)'
  <2>1. \A n \in NodeIds : node'[n].lock = node[n].lock
    BY <1>3
  <2> QED
    BY <1>1, <1>2, <1>4, <2>1, SameLocks
<1>6. ASSUME NEW n \in NodeIds PROVE Stays(n)
  <2>1. \A s \in Sides : Unlocking(n, s)' <=> Unlocking(n, s)
    BY <1>2, HoldsUnlocking
  <2> QED
    BY <1>3, <1>4, <2>1 DEF Stays, Kept
<1>7. Frame(T, V, B)
  <2>1. \A u \in inOp : \A n \in V[u] : Stays(n)
    BY <1>1, <1>6 DEF TypeOK
  <2>2. \A n \in T : Stays(n)
    BY <1>6
  <2> QED
    BY <1>3, <2>1, <2>2 DEF Frame, Quiet
<1>8. \A u \in Threads : Own(u)' = Own(u)
  BY <1>7, FrameStep DEF Quiet
<1>9. OwnInv(T)'
  BY <1>1, <1>3, <1>8 DEF OwnInv
<1>10. \A n \in NodeIds : Kept(n)
  BY <1>6 DEF Stays
<1> QED
  BY <1>5, <1>7, <1>9, <1>10, FrameStep

LEMMA BystanderControl ==
    ASSUME NEW u \in Threads, Bystander(u), ControlOf(u)
    PROVE  ControlOf(u)'
<1>1. /\ at'[u] = at[u] /\ op(u)' = op(u) /\ call'[u].result = call[u].result
      /\ call'[u] # NoCall <=> call[u] # NoCall
      /\ u \in inOp' <=> u \in inOp
  BY DEF Bystander, CallKept, op
<1> QED
  BY <1>1 DEF ControlOf, Idle, Unlocked

(* A thread moves inside its operation.                                    *)
Moves(t) ==
    /\ UNCHANGED <<mpc, stage, tpc>>
    /\ call[t] # NoCall /\ call'[t] # NoCall
    /\ \A u \in Threads \ {t} : Bystander(u)

LEMMA MoveControl ==
    ASSUME ControlInv, NEW t \in Threads, Moves(t), ControlOf(t)'
    PROVE  ControlInv'
<1>1. ASSUME NEW u \in Threads PROVE ControlOf(u)'
  BY BystanderControl DEF ControlInv, Moves
<1>2. ASSUME NEW u \in Threads PROVE LoopOf(u)'
  <2>1. call'[u] # NoCall <=> call[u] # NoCall
    BY DEF Moves, Bystander, CallKept
  <2> QED
    BY <2>1 DEF ControlInv, LoopOf, Moves, Workers, Current
<1> QED
  BY <1>1, <1>2 DEF ControlInv

LEMMA QuietInv ==
    ASSUME NEW T \in SUBSET NodeIds, NEW lo \in [NodeIds -> Int],
           NEW hi \in [NodeIds -> Int], NEW V \in [Threads -> SUBSET NodeIds],
           Inv(T, lo, hi, V), NEW B \in SUBSET Threads, Quiet(B),
           TypeOK', ControlInv', inOp' \subseteq inOp,
           \A u \in Threads \ B : CallKept(u) /\ Position(V, u)'
    PROVE  Inv(T, lo, hi, V)'
<1>1. \A u \in Threads : CallKept(u)
  BY DEF Quiet, Bystander
<1>2. inOp' \subseteq Threads
  BY DEF TypeOK
<1>3. /\ Shape(T, lo, hi)' /\ LockInv(T)' /\ OwnInv(T)'
      /\ \A u \in B : Position(V, u)'
      /\ \A u \in inOp' : u \in inOp /\ CallKept(u) => WayOf(T, lo, hi, V, u)'
      /\ \A u \in Threads : CallKept(u) => SeenOf(T, u)'
  BY QuietStep
<1>4. WayInv(T, lo, hi, V)'
  BY <1>1, <1>2, <1>3 DEF WayInv
<1>5. SeenInv(T)'
  BY <1>1, <1>3 DEF SeenInv
<1>6. \A u \in Threads : Position(V, u)'
  BY <1>3
<1> QED
  BY <1>3, <1>4, <1>5, <1>6 DEF Inv

(* A move of t that leaves the heap and all locks alone.                   *)
QuietMove(t) ==
    /\ Moves(t) /\ CallKept(t) /\ SameHold(t)
    /\ Own(t) = {} /\ Own(t)' = {}
    /\ UNCHANGED <<node, allocated, recVars>>
    /\ at' \in [Threads -> Locals]
    /\ call' \in [Threads -> CallSet \cup {NoCall}]
    /\ ControlOf(t)'

LEMMA QuietMoveFacts ==
    ASSUME TypeOK, NEW t \in Threads, QuietMove(t)
    PROVE  TypeOK' /\ (\A n \in NodeIds : Kept(n)) /\ key(t)' = key(t) /\ op(t)' = op(t)
<1>1. TypeOK'
  BY DEF TypeOK, QuietMove, Moves, recVars
<1>2. \A u \in Threads : SameHold(u)
  BY BystanderHold DEF QuietMove, Moves
<1>3. \A n \in NodeIds, s \in Sides : Unlocking(n, s)' <=> Unlocking(n, s)
  BY <1>2, HoldsUnlocking
<1>4. node' = node
  BY DEF QuietMove
<1>5. \A n \in NodeIds : (IsLeaf(n)' <=> IsLeaf(n)) /\ (IsRemoved(n)' <=> IsRemoved(n))
  BY <1>4 DEF IsLeaf, IsRemoved, TLN_REMOVED
<1>6. \A n \in NodeIds : Kept(n)
  BY <1>3, <1>4, <1>5 DEF Kept
<1> QED
  BY <1>1, <1>6 DEF QuietMove, CallKept, key, op

LEMMA MoveInv ==
    ASSUME NEW T \in SUBSET NodeIds, NEW lo \in [NodeIds -> Int],
           NEW hi \in [NodeIds -> Int], NEW V \in [Threads -> SUBSET NodeIds],
           Inv(T, lo, hi, V), NEW t \in Threads, QuietMove(t), Position(V, t)'
    PROVE  Inv(T, lo, hi, V)'
<1> DEFINE B == Threads \ {t}
<1>1. TypeOK /\ ControlInv
  BY DEF Inv
<1>2. TypeOK'
  BY <1>1, QuietMoveFacts
<1>3. ControlInv'
  BY <1>1, MoveControl DEF QuietMove
<1>4. Dead(t)' = Dead(t)
  BY DEF QuietMove, Own
<1>5. Quiet(B)
  BY <1>4 DEF Quiet, QuietMove, Moves, recVars
<1>6. inOp' \subseteq inOp
  BY DEF QuietMove, recVars
<1>7. \A u \in Threads \ B : CallKept(u) /\ Position(V, u)'
  BY DEF QuietMove
<1> HIDE DEF B
<1>8. B \in SUBSET Threads
  BY DEF B
<1> QED
  BY <1>2, <1>3, <1>5, <1>6, <1>7, <1>8, QuietInv

LEMMA MoveOthers ==
    ASSUME TypeOK, NEW t \in Threads, NEW r, at' = [at EXCEPT ![t] = r],
           \A u \in Threads \ {t} : call'[u] = call[u],
           UNCHANGED inOp
    PROVE  \A u \in Threads \ {t} : Bystander(u)
  BY DEF TypeOK, Bystander, CallKept

-----------------------------------------------------------------------------
(* The walk                                                                *)

LEMMA ReadVersionStep ==
    ASSUME NEW T \in SUBSET NodeIds, NEW lo \in [NodeIds -> Int],
           NEW hi \in [NodeIds -> Int], NEW V \in [Threads -> SUBSET NodeIds],
           Inv(T, lo, hi, V), NEW t \in Threads, ReadVersion(t)
    PROVE  Inv(T, lo, hi, V)'
<1>a. PICK a : a = at[t]
  OBVIOUS
<1>b. PICK b : b = at'[t]
  OBVIOUS
<1> USE <1>a, <1>b
<1>1. TypeOK /\ ControlInv /\ ControlOf(t) /\ Position(V, t)
  BY DEF Inv, ControlInv
<1>2. a \in Locals /\ at \in [Threads -> Locals]
  BY <1>1 DEF TypeOK
<1>3. a.pc = "version" /\ UNCHANGED <<benchVars, node, allocated, recVars>>
  BY DEF ReadVersion
<1>4. a.curr \in V[t] /\ ~IsLeaf(a.curr) /\ a.curr \in NodeIds
  BY <1>1, <1>3 DEF Position
<1>5. node[a.curr].lock \in LockWord
  BY <1>1, <1>4 DEF TypeOK
<1>6. /\ b \in Locals /\ at' \in [Threads -> Locals] /\ at' = [at EXCEPT ![t] = b]
      /\ b.pc = "child" /\ b.pred = a.curr /\ b.curr = a.curr /\ b.pred_ver = node[a.curr].lock
      /\ op(t) = "remove" => b.ppred = a.pred /\ b.ppred_ver = a.pred_ver /\ b.pright = a.right
  <2>1. Unlocked \in LockWord /\ NULL \in Ptr /\ 0 \in Sides
    BY Constants DEF Unlocked, LockWord, Ptr, Sides
  <2>2. "child" \in TicketPC
    BY DEF TicketPC
  <2>3. b.pc = "child" /\ b.pred = a.curr /\ b.curr = a.curr /\ b.pred_ver = node[a.curr].lock
      /\ (op(t) = "remove" => b.ppred = a.pred /\ b.ppred_ver = a.pred_ver /\ b.pright = a.right)
    BY <1>2 DEF ReadVersion, Locals
  <2>4. b \in Locals
    BY <1>2, <1>5, <2>1, <2>2 DEF ReadVersion, Locals
  <2>5. at' = [at EXCEPT ![t] = b]
    BY <1>2 DEF ReadVersion
  <2>6. at' \in [Threads -> Locals]
    BY <1>2, <2>4, <2>5
  <2> QED
    BY <2>3, <2>4, <2>5, <2>6
<1>7. Moves(t) /\ CallKept(t) /\ call' = call /\ inOp' = inOp
  <2>1. call' = call /\ inOp' = inOp /\ UNCHANGED <<mpc, stage, tpc>>
    BY <1>3 DEF benchVars, recVars
  <2>2. \A u \in Threads \ {t} : Bystander(u)
    BY <1>1, <1>6, <2>1, MoveOthers
  <2>3. call[t] # NoCall
    BY <1>1, <1>3 DEF ControlOf
  <2> QED
    BY <2>1, <2>2, <2>3 DEF Moves, CallKept
<1>8. op(t)' = op(t) /\ key(t)' = key(t) /\ op(t) # "get"
  BY <1>1, <1>3, <1>7 DEF op, key, ControlOf
<1>9. ControlOf(t)'
  BY <1>1, <1>3, <1>6, <1>7, <1>8 DEF ControlOf
<1>10. SameHold(t) /\ Own(t) = {} /\ Own(t)' = {}
  BY <1>3, <1>6 DEF SameHold, Holds, Own, Fresh2, Dead
<1>11. QuietMove(t)
  <2>1. call' \in [Threads -> CallSet \cup {NoCall}]
    BY <1>1, <1>7 DEF TypeOK
  <2> QED
    BY <1>3, <1>6, <1>7, <1>9, <1>10, <2>1 DEF QuietMove
<1>12. TypeOK' /\ \A n \in NodeIds : Kept(n)
  BY <1>1, <1>11, QuietMoveFacts
<1>13. Position(V, t)'
  <2>1. ~IsLeaf(a.curr)'
    BY <1>4, <1>12 DEF Kept
  <2>2. \A s \in Sides : NotAhead(b.pred, s, b.pred_ver)'
    <3>1. \A s \in Sides : node[a.curr].lock[s].version <= node[a.curr].lock[s].version
      BY <1>5 DEF LockWord
    <3>2. node' = node
      BY <1>3
    <3> QED
      BY <1>6, <3>1, <3>2 DEF NotAhead
  <2>3. op(t) = "remove" =>
            a.curr = root \/ CameBy(V, t, a.pred, a.right, a.pred_ver, a.curr)'
    <3>1. a.right \in Sides /\ a.pred_ver \in LockWord
      BY <1>2 DEF Locals
    <3>2. a.curr = root \/ CameBy(V, t, a.pred, a.right, a.pred_ver, a.curr)
      BY <1>1, <1>3 DEF Position
    <3>3. ASSUME CameBy(V, t, a.pred, a.right, a.pred_ver, a.curr)
          PROVE  CameBy(V, t, a.pred, a.right, a.pred_ver, a.curr)'
      <4>1. Kept(a.pred)
        BY <1>12, <3>3 DEF CameBy
      <4> QED
        BY <1>1, <1>8, <1>12, <3>1, <3>3, <4>1, KeptCameBy
    <3> QED
      BY <3>2, <3>3
  <2> QED
    BY <1>4, <1>6, <1>8, <2>1, <2>2, <2>3 DEF Position
<1> QED
  BY <1>11, <1>13, MoveInv

LEMMA GotoFacts ==
    ASSUME TypeOK, NEW t \in Threads, NEW from, NEW to \in TicketPC, Goto(t, from, to)
    PROVE  /\ at[t].pc = from /\ at'[t].pc = to
           /\ at' \in [Threads -> Locals] /\ at' = [at EXCEPT ![t] = at'[t]]
           /\ at'[t].curr = at[t].curr /\ at'[t].nr = at[t].nr
           /\ at'[t].pred = at[t].pred /\ at'[t].ppred = at[t].ppred
           /\ at'[t].pred_ver = at[t].pred_ver /\ at'[t].ppred_ver = at[t].ppred_ver
           /\ at'[t].right = at[t].right /\ at'[t].pright = at[t].pright
<1>1. at \in [Threads -> Locals] /\ at' = [at EXCEPT ![t].pc = to] /\ at[t].pc = from
  BY DEF TypeOK, Goto
<1>2. at'[t] = [at[t] EXCEPT !.pc = to] /\ at[t] \in Locals
  BY <1>1
<1>3. at'[t] \in Locals
  BY <1>2 DEF Locals
<1>4. at' = [at EXCEPT ![t] = at'[t]]
  BY <1>1
<1>5. at' \in [Threads -> Locals]
  BY <1>1, <1>3, <1>4
<1>6. /\ at'[t].pc = to /\ at'[t].curr = at[t].curr /\ at'[t].nr = at[t].nr
      /\ at'[t].pred = at[t].pred /\ at'[t].ppred = at[t].ppred
      /\ at'[t].pred_ver = at[t].pred_ver /\ at'[t].ppred_ver = at[t].ppred_ver
      /\ at'[t].right = at[t].right /\ at'[t].pright = at[t].pright
  BY <1>2 DEF Locals
<1> QED
  BY <1>1, <1>4, <1>5, <1>6

(* An operation whose compare-and-swap fails starts again, or gives the    *)
(* first lock back.                                                        *)
LEMMA FailingStep ==
    ASSUME NEW T \in SUBSET NodeIds, NEW lo \in [NodeIds -> Int],
           NEW hi \in [NodeIds -> Int], NEW V \in [Threads -> SUBSET NodeIds],
           Inv(T, lo, hi, V), NEW t \in Threads,
           \/ Goto(t, "lock", "retry")
           \/ Goto(t, "lockParent", "retry")
           \/ Goto(t, "lockBoth", "revert"),
           UNCHANGED <<benchVars, node, allocated, recVars>>
    PROVE  Inv(T, lo, hi, V)'
<1>1. TypeOK /\ ControlInv /\ ControlOf(t) /\ Position(V, t)
  BY DEF Inv, ControlInv
<1>2. PICK from, to \in TicketPC :
          /\ \/ from \in {"lock", "lockParent"} /\ to = "retry"
             \/ from = "lockBoth" /\ to = "revert"
          /\ Goto(t, from, to)
  BY DEF TicketPC
<1>3. /\ at[t].pc = from /\ at'[t].pc = to
      /\ at' \in [Threads -> Locals] /\ at' = [at EXCEPT ![t] = at'[t]]
      /\ at'[t].curr = at[t].curr /\ at'[t].nr = at[t].nr
      /\ at'[t].pred = at[t].pred /\ at'[t].ppred = at[t].ppred
      /\ at'[t].pred_ver = at[t].pred_ver /\ at'[t].ppred_ver = at[t].ppred_ver
      /\ at'[t].right = at[t].right /\ at'[t].pright = at[t].pright
  BY <1>1, <1>2, GotoFacts
<1>4. Moves(t) /\ CallKept(t) /\ call' = call /\ inOp' = inOp
  <2>1. call' = call /\ inOp' = inOp /\ UNCHANGED <<mpc, stage, tpc>>
    BY DEF benchVars, recVars
  <2>2. \A u \in Threads \ {t} : Bystander(u)
    BY <1>1, <1>3, <2>1, MoveOthers
  <2>3. call[t] # NoCall
    BY <1>1, <1>2, <1>3 DEF ControlOf
  <2> QED
    BY <2>1, <2>2, <2>3 DEF Moves, CallKept
<1>5. op(t)' = op(t) /\ key(t)' = key(t)
  BY <1>4 DEF op, key
<1>6. ControlOf(t)'
  BY <1>1, <1>2, <1>3, <1>4, <1>5 DEF ControlOf
<1>7. SameHold(t) /\ Own(t) = {} /\ Own(t)' = {}
  <2>1. SameHold(t)
    BY <1>2, <1>3, <1>5 DEF SameHold, Holds, HeldNode, HeldSide
  <2> QED
    BY <1>2, <1>3, <2>1 DEF Own, Fresh2, Dead
<1>8. QuietMove(t)
  <2>1. call' \in [Threads -> CallSet \cup {NoCall}]
    BY <1>1, <1>4 DEF TypeOK
  <2> QED
    BY <1>3, <1>4, <1>6, <1>7, <2>1 DEF QuietMove
<1>9. TypeOK' /\ \A n \in NodeIds : Kept(n)
  BY <1>1, <1>8, QuietMoveFacts
<1>10. Position(V, t)'
  <2>1. CASE to = "retry"
    BY <1>3, <2>1 DEF Position
  <2>2. CASE from = "lockBoth" /\ to = "revert"
    <3>1. PICK a : a = at[t]
      OBVIOUS
    <3>2. /\ a.curr \in V[t] /\ IsLeaf(a.curr)
          /\ node[a.curr].key = key(t) <=> op(t) = "remove"
          /\ CameBy(V, t, a.pred, a.right, a.pred_ver, a.curr)
          /\ op(t) = "remove" =>
                CameBy(V, t, a.ppred, a.pright, a.ppred_ver, a.pred) /\ a.pred # root
          /\ node[a.ppred].child[a.pright] = a.pred
          /\ op(t) = "remove"
      BY <1>1, <1>3, <2>2, <3>1 DEF Position, ControlOf
    <3>3. /\ a.pred_ver \in LockWord /\ a.ppred_ver \in LockWord
          /\ a.right \in Sides /\ a.pright \in Sides
      BY <1>1, <3>1 DEF TypeOK, Locals
    <3>4. Kept(a.pred) /\ Kept(a.ppred)
      BY <1>9, <3>2 DEF CameBy
    <3>5. CameBy(V, t, a.pred, a.right, a.pred_ver, a.curr)'
      BY <1>1, <1>5, <1>9, <3>2, <3>3, <3>4, KeptCameBy
    <3>6. CameBy(V, t, a.ppred, a.pright, a.ppred_ver, a.pred)'
      BY <1>1, <1>5, <1>9, <3>2, <3>3, <3>4, KeptCameBy
    <3>7. (IsLeaf(a.curr)' <=> IsLeaf(a.curr)) /\ node' = node
      BY <1>9, <3>2 DEF Kept
    <3> QED
      BY <1>3, <1>5, <2>2, <3>1, <3>2, <3>5, <3>6, <3>7 DEF Position
  <2> QED
    BY <1>2, <2>1, <2>2
<1> QED
  BY <1>8, <1>10, MoveInv

(* What Descend finds.                                                     *)
LEMMA NextOnWay ==
    ASSUME NEW T \in SUBSET NodeIds, NEW lo \in [NodeIds -> Int],
           NEW hi \in [NodeIds -> Int], NEW V \in [Threads -> SUBSET NodeIds],
           Inv(T, lo, hi, V), NEW t \in Threads, at[t].pc = "child",
           NEW next, next = node[at[t].curr].child[Side(key(t), at[t].curr)]
    PROVE  /\ t \in inOp /\ call[t] \in CallSet /\ call[t] # NoCall
           /\ call[t].result = "pending"
           /\ at[t].curr \in V[t] /\ ~IsLeaf(at[t].curr)
           /\ next \in V[t] /\ next \in NodeIds
           /\ IsLeaf(next) => (node[next].key = key(t)) \in call[t].seen
<1>1. TypeOK /\ ControlOf(t) /\ Position(V, t) /\ WayInv(T, lo, hi, V)
  BY DEF Inv, ControlInv
<1>2. t \in inOp /\ call[t] # NoCall /\ call[t].result = "pending"
  BY <1>1 DEF ControlOf
<1>3. call[t] \in CallSet
  BY <1>1, <1>2 DEF TypeOK
<1>4. at[t].curr \in V[t] /\ ~IsLeaf(at[t].curr)
  BY <1>1 DEF Position
<1>5. WayOf(T, lo, hi, V, t)
  BY <1>1, <1>2 DEF WayInv
<1>6. next \in V[t]
  BY <1>4, <1>5 DEF WayOf, OnWay
<1>7. IsLeaf(next) => (node[next].key = key(t)) \in call[t].seen
  BY <1>2, <1>5, <1>6 DEF WayOf, OnWay
<1> QED
  BY <1>2, <1>3, <1>4, <1>6, <1>7

LEMMA DecideFacts ==
    ASSUME call \in [Threads -> CallSet \cup {NoCall}], NEW t \in Threads,
           call[t] \in CallSet, NEW r \in {"success", "failure"}, Decide(t, r)
    PROVE  /\ call' \in [Threads -> CallSet \cup {NoCall}]
           /\ \A u \in Threads \ {t} : call'[u] = call[u]
           /\ call'[t].op = call[t].op /\ call'[t].key = call[t].key
           /\ call'[t].seen = call[t].seen /\ call'[t] # NoCall
           /\ call'[t].result = r
<1>1. call'[t] = [call[t] EXCEPT !.result = r] /\ \A u \in Threads \ {t} : call'[u] = call[u]
  BY DEF Decide
<1>2. call'[t] \in CallSet
  BY <1>1 DEF CallSet
<1>3. call'[t].op = call[t].op /\ call'[t].key = call[t].key
      /\ call'[t].seen = call[t].seen /\ call'[t].result = r
  BY <1>1 DEF CallSet
<1>4. call'[t] # NoCall
  <2>1. call'[t].op # "none"
    BY <1>2 DEF CallSet
  <2> QED
    BY <2>1 DEF NoCall
<1>5. call' \in [Threads -> CallSet \cup {NoCall}]
  BY <1>2 DEF Decide
<1> QED
  BY <1>1, <1>3, <1>4, <1>5

LEMMA DescendStep ==
    ASSUME NEW T \in SUBSET NodeIds, NEW lo \in [NodeIds -> Int],
           NEW hi \in [NodeIds -> Int], NEW V \in [Threads -> SUBSET NodeIds],
           Inv(T, lo, hi, V), NEW t \in Threads, Descend(t)
    PROVE  Inv(T, lo, hi, V)'
<1>a. PICK a : a = at[t]
  OBVIOUS
<1>b. PICK b : b = at'[t]
  OBVIOUS
<1>c. PICK side : side = Side(key(t), a.curr)
  OBVIOUS
<1>d. PICK next : next = node[a.curr].child[side]
  OBVIOUS
<1>1. TypeOK /\ ControlInv /\ ControlOf(t) /\ Position(V, t) /\ Shape(T, lo, hi)
  BY DEF Inv, ControlInv
<1>2. a \in Locals /\ at \in [Threads -> Locals] /\ call \in [Threads -> CallSet \cup {NoCall}]
  BY <1>1, <1>a DEF TypeOK
<1>3. a.pc = "child" /\ UNCHANGED <<loopVars, node, allocated, recVars>>
  BY <1>a DEF Descend
<1>4. /\ t \in inOp /\ call[t] \in CallSet /\ call[t] # NoCall
      /\ call[t].result = "pending"
      /\ a.curr \in V[t] /\ ~IsLeaf(a.curr) /\ a.curr \in NodeIds
      /\ next \in V[t] /\ next \in NodeIds
      /\ IsLeaf(next) => (node[next].key = key(t)) \in call[t].seen
  BY <1>3, <1>a, <1>c, <1>d, NextOnWay
<1>5. op(t) \in {"insert", "remove", "get"} /\ key(t) \in Keys /\ side \in Sides
  BY <1>4, <1>c DEF CallSet, op, key, Side, Sides
<1>6. \/ /\ ~IsLeaf(next)
         /\ b.pc = (IF op(t) = "get" THEN "child" ELSE "version")
         /\ call' = call
      \/ /\ IsLeaf(next) /\ b.pc = "end"
         /\ \E r \in {"success", "failure"} : call' = [call EXCEPT ![t].result = r]
      \/ /\ IsLeaf(next) /\ call' = call /\ op(t) # "get"
         /\ node[next].key = key(t) <=> op(t) = "remove"
         /\ b.pc = (IF op(t) = "insert" THEN "lock" ELSE "lockParent")
  <2> DEFINE R(pc) == [a EXCEPT !.pc = pc, !.curr = next,
                                !.right = IF op(t) = "get" THEN 0 ELSE side]
             hit == node[next].key = key(t)
             through == op(t) = "get" \/ (op(t) = "insert" <=> hit)
  <2>1. \/ /\ ~IsLeaf(next)
           /\ at' = [at EXCEPT ![t] = R(IF op(t) = "get" THEN "child" ELSE "version")]
           /\ call' = call
        \/ /\ IsLeaf(next) /\ at' = [at EXCEPT ![t] = R("end")]
           /\ Decide(t, IF op(t) = "get" /\ hit THEN "success" ELSE "failure")
        \/ /\ IsLeaf(next) /\ call' = call /\ ~through
           /\ at' = [at EXCEPT ![t] = R(IF op(t) = "insert" THEN "lock" ELSE "lockParent")]
    BY <1>a, <1>c, <1>d DEF Descend, Side
  <2>2. \A pc : R(pc).pc = pc
    BY <1>2 DEF Locals
  <2>3. \A pc : at' = [at EXCEPT ![t] = R(pc)] => b.pc = pc
    BY <1>2, <1>b, <2>2
  <2>4. ~through => op(t) # "get" /\ (hit <=> op(t) = "remove")
    BY <1>5
  <2> HIDE DEF R, hit, through
  <2>5. \/ ~IsLeaf(next) /\ b.pc = (IF op(t) = "get" THEN "child" ELSE "version") /\ call' = call
        \/ /\ IsLeaf(next) /\ b.pc = "end"
           /\ Decide(t, IF op(t) = "get" /\ hit THEN "success" ELSE "failure")
        \/ /\ IsLeaf(next) /\ call' = call /\ ~through
           /\ b.pc = (IF op(t) = "insert" THEN "lock" ELSE "lockParent")
    BY <2>1, <2>3
  <2> QED
    BY <2>4, <2>5 DEF Decide, hit
<1>7. \E pc : b = [a EXCEPT !.pc = pc, !.curr = next, !.right = IF op(t) = "get" THEN 0 ELSE side]
              /\ at' = [at EXCEPT ![t] = b]
  BY <1>2, <1>a, <1>b, <1>c, <1>d DEF Descend, Side
<1>8. /\ b.curr = next /\ b.right = (IF op(t) = "get" THEN 0 ELSE side)
      /\ b.pred = a.pred /\ b.ppred = a.ppred /\ b.pred_ver = a.pred_ver
      /\ b.ppred_ver = a.ppred_ver /\ b.pright = a.pright
  BY <1>2, <1>7 DEF Locals
<1>9. b \in Locals /\ at' \in [Threads -> Locals]
  <2>1. b.pc \in TicketPC
    BY <1>6 DEF TicketPC
  <2>2. next \in Ptr /\ 0 \in Sides
    BY <1>4 DEF Ptr, Sides
  <2>3. b \in Locals
    BY <1>2, <1>5, <1>7, <2>1, <2>2 DEF Locals
  <2> QED
    BY <1>2, <1>7, <2>3
<1>10. /\ call' \in [Threads -> CallSet \cup {NoCall}]
       /\ \A u \in Threads \ {t} : call'[u] = call[u]
       /\ call'[t].op = call[t].op /\ call'[t].key = call[t].key
       /\ call'[t].seen = call[t].seen /\ call'[t] # NoCall
       /\ b.pc # "end" => call'[t].result = call[t].result
       /\ b.pc = "end" => call'[t].result # "pending"
  <2>1. CASE call' = call /\ b.pc # "end"
    BY <1>2, <1>4, <2>1
  <2>2. CASE b.pc = "end" /\ \E r \in {"success", "failure"} : Decide(t, r)
    BY <1>2, <1>4, <2>2, DecideFacts
  <2> QED
    BY <1>6, <2>1, <2>2 DEF Decide
<1>11. Moves(t) /\ CallKept(t) /\ inOp' = inOp
  <2>1. inOp' = inOp /\ UNCHANGED <<mpc, stage, tpc>>
    BY <1>3 DEF loopVars, recVars
  <2>2. \A u \in Threads \ {t} : Bystander(u)
    BY <1>1, <1>7, <1>10, <2>1, MoveOthers
  <2>3. CallKept(t)
    BY <1>4, <1>10 DEF CallKept
  <2> QED
    BY <1>4, <1>10, <2>1, <2>2, <2>3 DEF Moves
<1>12. op(t)' = op(t) /\ key(t)' = key(t)
  BY <1>10 DEF op, key
<1>13. ControlOf(t)'
  BY <1>4, <1>5, <1>6, <1>10, <1>11, <1>12, <1>b DEF ControlOf
<1>14. SameHold(t) /\ Own(t) = {} /\ Own(t)' = {}
  BY <1>3, <1>6, <1>a, <1>b DEF SameHold, Holds, Own, Fresh2, Dead
<1>15. QuietMove(t)
  BY <1>3, <1>9, <1>10, <1>11, <1>13, <1>14 DEF QuietMove
<1>16. TypeOK' /\ \A n \in NodeIds : Kept(n)
  BY <1>1, <1>15, QuietMoveFacts
<1>17. (IsLeaf(next)' <=> IsLeaf(next)) /\ node' = node /\ (Side(key(t), a.curr))' = side
       /\ ~IsLeaf(a.curr)'
  BY <1>3, <1>4, <1>12, <1>16, <1>c DEF Kept, Side
<1>18. op(t) # "get" => CameBy(V, t, a.curr, side, a.pred_ver, next)' /\ a.pred = a.curr
  <2> SUFFICES ASSUME op(t) # "get"
               PROVE  CameBy(V, t, a.curr, side, a.pred_ver, next)' /\ a.pred = a.curr
    OBVIOUS
  <2>1. a.pred = a.curr /\ NotAhead(a.curr, side, a.pred_ver)
    BY <1>1, <1>3, <1>5, <1>a DEF Position
  <2>2. a.pred_ver \in LockWord
    BY <1>2 DEF Locals
  <2>3. NotAhead(a.curr, side, a.pred_ver)'
    BY <1>1, <1>4, <1>5, <1>16, <2>1, <2>2, KeptValid
  <2>4. node'[a.curr].child[side] = next
    BY <1>17, <1>d
  <2>5. a.pred_ver[side].version \in Int /\ node'[a.curr].lock[side].version \in Int
    <3>1. node[a.curr].lock \in LockWord
      BY <1>1, <1>4 DEF TypeOK
    <3> QED
      BY <1>5, <1>17, <2>2, <3>1 DEF LockWord
  <2>6. Valid(a.curr, side, a.pred_ver, next)'
    BY <2>3, <2>4, <2>5 DEF NotAhead, Valid
  <2> QED
    BY <1>4, <1>17, <2>1, <2>6 DEF CameBy
<1>19. op(t) = "remove" => a.pred = root \/ CameBy(V, t, a.ppred, a.pright, a.ppred_ver, a.pred)'
  <2> SUFFICES ASSUME op(t) = "remove", a.pred # root
               PROVE  CameBy(V, t, a.ppred, a.pright, a.ppred_ver, a.pred)'
    OBVIOUS
  <2>1. CameBy(V, t, a.ppred, a.pright, a.ppred_ver, a.pred)
    BY <1>1, <1>3, <1>a DEF Position
  <2>2. a.pright \in Sides /\ a.ppred_ver \in LockWord
    BY <1>2 DEF Locals
  <2>3. Kept(a.ppred)
    BY <1>16, <2>1 DEF CameBy
  <2> QED
    BY <1>1, <1>12, <1>16, <2>1, <2>2, <2>3, KeptCameBy
<1>20. IsLeaf(next) /\ node[next].key = key(t) => a.curr # root
  <2>1. IsLeaf(node[root].child[side]) => node[node[root].child[side]].key \notin Keys
    BY <1>1, <1>5, RootChild
  <2> QED
    BY <1>5, <1>d, <2>1
<1>21. Position(V, t)'
  <2>1. CASE ~IsLeaf(next) /\ b.pc = "child" /\ op(t) = "get"
    BY <1>4, <1>8, <1>12, <1>17, <1>b, <2>1 DEF Position
  <2>2. CASE ~IsLeaf(next) /\ b.pc = "version" /\ op(t) # "get"
    BY <1>4, <1>8, <1>12, <1>17, <1>18, <1>b, <2>2 DEF Position
  <2>3. CASE b.pc = "end"
    BY <1>b, <2>3 DEF Position
  <2>4. CASE /\ IsLeaf(next) /\ op(t) # "get"
             /\ node[next].key = key(t) <=> op(t) = "remove"
             /\ b.pc = (IF op(t) = "insert" THEN "lock" ELSE "lockParent")
    <3>1. CameBy(V, t, b.pred, b.right, b.pred_ver, b.curr)'
      BY <1>8, <1>18, <2>4
    <3>2. op(t) = "remove" => CameBy(V, t, b.ppred, b.pright, b.ppred_ver, b.pred)' /\ b.pred # root
      BY <1>8, <1>18, <1>19, <1>20, <2>4
    <3>3. b.pc \in {"lock", "lockParent"} /\ IsLeaf(b.curr)' /\ b.curr \in V[t]
          /\ (node'[b.curr].key = key(t) <=> op(t) = "remove")
      BY <1>4, <1>8, <1>17, <2>4
    <3> QED
      BY <1>12, <1>b, <3>1, <3>2, <3>3 DEF Position
  <2> QED
    BY <1>5, <1>6, <2>1, <2>2, <2>3, <2>4
<1> QED
  BY <1>15, <1>21, MoveInv

-----------------------------------------------------------------------------
(* Steps outside the tree                                                  *)

LEMMA BenchStep ==
    ASSUME NEW T \in SUBSET NodeIds, NEW lo \in [NodeIds -> Int],
           NEW hi \in [NodeIds -> Int], NEW V \in [Threads -> SUBSET NodeIds],
           Inv(T, lo, hi, V), UNCHANGED <<treeVars, call>>, stage' \in 1 .. 3,
           tpc' \in [Threads -> ThreadPC], \A u \in Threads : LoopOf(u)'
    PROVE  Inv(T, lo, hi, V)'
<1>1. TypeOK /\ ControlInv
  BY DEF Inv
<1>2. /\ node' = node /\ allocated' = allocated /\ at' = at /\ inOp' = inOp
      /\ limbo' = limbo /\ waits' = waits /\ call' = call
  BY DEF treeVars, recVars
<1>3. TypeOK'
  BY <1>1, <1>2 DEF TypeOK
<1>4. \A u \in Threads : Bystander(u)
  BY <1>2 DEF Bystander, CallKept
<1>5. ControlInv'
  BY <1>1, <1>4, BystanderControl DEF ControlInv
<1>6. Quiet(Threads)
  BY <1>2, <1>4 DEF Quiet
<1> QED
  BY <1>2, <1>3, <1>5, <1>6, QuietInv

LEMMA MainInv ==
    ASSUME NEW T \in SUBSET NodeIds, NEW lo \in [NodeIds -> Int],
           NEW hi \in [NodeIds -> Int], NEW V \in [Threads -> SUBSET NodeIds],
           Inv(T, lo, hi, V), MainStep
    PROVE  Inv(T, lo, hi, V)'
<1>1. TypeOK /\ ControlInv /\ Main /\ UNCHANGED treeVars
  BY DEF Inv, MainStep
<1>2. stage \in 1 .. 3 /\ tpc \in [Threads -> ThreadPC]
  BY <1>1 DEF TypeOK
<1>3. \A u \in Threads : LoopOf(u)
  BY <1>1 DEF ControlInv
<1>4. CASE SkipStage
  <2>1. \A u \in Threads : LoopOf(u)'
    BY <1>3, <1>4 DEF SkipStage, LoopOf
  <2>2. stage' \in 1 .. 3 /\ tpc' = tpc /\ call' = call
    BY <1>2, <1>4 DEF SkipStage
  <2> QED
    BY <1>1, <1>2, <2>1, <2>2, BenchStep
<1>5. CASE CreateThreads
  <2>1. mpc = "create" /\ mpc' = "wait" /\ call' = call /\ stage' = stage /\ Workers' = Workers
    BY <1>5 DEF CreateThreads, Workers, Current
  <2>2. ASSUME NEW u \in Threads
        PROVE  tpc[u] = "none" /\ call[u] = NoCall /\ tpc'[u] = IF u \in Workers THEN "pre" ELSE "none"
    BY <1>3, <1>5, <2>1 DEF CreateThreads, LoopOf
  <2>3. \A u \in Threads : LoopOf(u)'
    BY <2>1, <2>2 DEF LoopOf
  <2>4. tpc' \in [Threads -> ThreadPC]
    BY <1>2, <1>5 DEF CreateThreads, ThreadPC
  <2> QED
    BY <1>1, <1>2, <2>1, <2>3, <2>4, BenchStep
<1>6. CASE StartThreads
  <2>1. mpc' = "join" /\ UNCHANGED <<stage, tpc, call>>
    BY <1>6 DEF StartThreads
  <2>2. \A u \in Threads : LoopOf(u)'
    BY <1>3, <2>1 DEF LoopOf, Workers, Current
  <2> QED
    BY <1>1, <1>2, <2>1, <2>2, BenchStep
<1>7. CASE JoinThreads
  <2>1. /\ \A u \in Workers : tpc[u] = "ended"
        /\ tpc' = [u \in Threads |-> "none"] /\ call' = call /\ stage' \in 1 .. 3
    BY <1>2, <1>7 DEF JoinThreads, AllEnded
  <2>2. \A u \in Threads : LoopOf(u)'
    BY <1>3, <2>1 DEF LoopOf
  <2>3. tpc' \in [Threads -> ThreadPC]
    BY <2>1 DEF ThreadPC
  <2> QED
    BY <1>1, <2>1, <2>2, <2>3, BenchStep
<1> QED
  BY <1>1, <1>4, <1>5, <1>6, <1>7 DEF Main

LEMMA LoopInv ==
    ASSUME NEW T \in SUBSET NodeIds, NEW lo \in [NodeIds -> Int],
           NEW hi \in [NodeIds -> Int], NEW V \in [Threads -> SUBSET NodeIds],
           Inv(T, lo, hi, V), NEW t \in Threads, Loop(t)
    PROVE  Inv(T, lo, hi, V)'
<1>1. TypeOK /\ ControlInv /\ UNCHANGED treeVars
  BY DEF Inv, Loop
<1>2. stage \in 1 .. 3 /\ tpc \in [Threads -> ThreadPC]
  BY <1>1 DEF TypeOK
<1>3. \A u \in Threads : LoopOf(u)
  BY <1>1 DEF ControlInv
<1>4. /\ tpc[t] \in {"pre", "ready", "loop", "post", "barrier"}
      /\ \E to \in {"ready", "loop", "post", "step", "barrier", "ended"} :
            tpc' = [tpc EXCEPT ![t] = to]
      /\ mpc' = mpc /\ stage' = stage /\ call' = call
  BY DEF Loop, Pre, SeeStart, IsStopped, Post, Leave, To
<1>5. tpc' \in [Threads -> ThreadPC]
  BY <1>2, <1>4 DEF ThreadPC
<1>6. ASSUME NEW u \in Threads PROVE LoopOf(u)'
  <2>1. (tpc'[u] = "call" <=> tpc[u] = "call") /\ (tpc'[u] = "none" <=> tpc[u] = "none")
    BY <1>2, <1>4
  <2> QED
    BY <1>3, <1>4, <2>1 DEF LoopOf, Workers, Current
<1> QED
  BY <1>1, <1>2, <1>4, <1>5, <1>6, BenchStep

LEMMA StutterInv ==
    ASSUME NEW T \in SUBSET NodeIds, NEW lo \in [NodeIds -> Int],
           NEW hi \in [NodeIds -> Int], NEW V \in [Threads -> SUBSET NodeIds],
           Inv(T, lo, hi, V), UNCHANGED vars
    PROVE  Inv(T, lo, hi, V)'
<1>1. UNCHANGED <<treeVars, call, stage, tpc, mpc>>
  BY DEF vars, benchVars
<1>2. \A u \in Threads : LoopOf(u)'
  BY <1>1 DEF Inv, ControlInv, LoopOf, Workers, Current
<1> QED
  BY <1>1, <1>2, BenchStep DEF Inv, TypeOK

(* An operation that is neither in the tree nor owns anything.             *)
LEMMA Outside ==
    ASSUME NEW t \in Threads, at[t].pc \in {"idle", "guard"},
           at'[t].pc \in {"idle", "guard"}
    PROVE  SameHold(t) /\ Own(t) = {} /\ Own(t)' = {} /\ Dead(t)' = Dead(t)
  BY DEF SameHold, Holds, Own, Fresh2, Dead

LEMMA ReturnInv ==
    ASSUME NEW T \in SUBSET NodeIds, NEW lo \in [NodeIds -> Int],
           NEW hi \in [NodeIds -> Int], NEW V \in [Threads -> SUBSET NodeIds],
           Inv(T, lo, hi, V), NEW t \in Threads, Return(t)
    PROVE  Inv(T, lo, hi, V)'
<1> DEFINE B == Threads \ {t}
<1>1. TypeOK /\ ControlInv
  BY DEF Inv
<1>2. /\ node' = node /\ allocated' = allocated /\ at' = at /\ inOp' = inOp
      /\ limbo' = limbo /\ waits' = waits
      /\ call' = [call EXCEPT ![t] = NoCall] /\ tpc[t] = "call"
      /\ mpc' = mpc /\ stage' = stage
      /\ \E to \in {"step", "loop"} : tpc' = [tpc EXCEPT ![t] = to]
  BY DEF Return, StepReturn, To, treeVars, recVars
<1>3. TypeOK'
  <2>1. call' \in [Threads -> CallSet \cup {NoCall}]
    BY <1>1, <1>2 DEF TypeOK
  <2>2. tpc' \in [Threads -> ThreadPC]
    BY <1>1, <1>2 DEF TypeOK, ThreadPC
  <2> QED
    BY <1>1, <1>2, <2>1, <2>2 DEF TypeOK
<1>4. \A u \in Threads \ {t} : call'[u] = call[u] /\ tpc'[u] = tpc[u]
  BY <1>1, <1>2 DEF TypeOK
<1>5. call'[t] = NoCall /\ tpc'[t] \in {"step", "loop"}
  BY <1>1, <1>2 DEF TypeOK
<1>6. \A u \in Threads \ {t} : Bystander(u)
  BY <1>2, <1>4 DEF Bystander, CallKept
<1>7. at[t] = Idle /\ at[t].pc = "idle" /\ at'[t].pc = "idle" /\ t \notin inOp'
  BY <1>1, <1>2 DEF Return, Idle, ControlInv, ControlOf
<1>8. ControlInv'
  <2>1. \A u \in Threads \ {t} : ControlOf(u)' /\ LoopOf(u)'
    BY <1>1, <1>2, <1>4, <1>6, BystanderControl DEF ControlInv, LoopOf, Workers, Current
  <2>2. ControlOf(t)'
    BY <1>2, <1>5, <1>7 DEF ControlOf, Idle, Unlocked
  <2>3. LoopOf(t)'
    BY <1>1, <1>2, <1>5 DEF ControlInv, LoopOf, Workers, Current
  <2> QED
    BY <2>1, <2>2, <2>3 DEF ControlInv
<1>9. Quiet(B)
  <2>1. SameHold(t) /\ Own(t)' = Own(t) /\ Dead(t)' = Dead(t)
    BY <1>7, Outside
  <2> QED
    BY <1>2, <1>6, <2>1 DEF Quiet
<1>10. B \in SUBSET Threads
  OBVIOUS
<1>11. /\ Shape(T, lo, hi)' /\ LockInv(T)' /\ OwnInv(T)'
       /\ \A u \in B : Position(V, u)'
       /\ \A u \in inOp' : u \in inOp /\ CallKept(u) => WayOf(T, lo, hi, V, u)'
       /\ \A u \in Threads : CallKept(u) => SeenOf(T, u)'
  <2> HIDE DEF B
  <2> QED
    BY <1>3, <1>9, <1>10, QuietStep
<1>12. WayInv(T, lo, hi, V)'
  <2>1. \A u \in inOp' : u \in Threads \ {t} /\ u \in inOp
    BY <1>2, <1>3, <1>7 DEF TypeOK
  <2> QED
    BY <1>6, <1>11, <2>1 DEF WayInv, Bystander
<1>13. SeenInv(T)'
  <2>1. SeenOf(T, t)'
    BY <1>5 DEF SeenOf
  <2> QED
    BY <1>6, <1>11, <2>1 DEF SeenInv, Bystander
<1>14. Position(V, t)'
  BY <1>7 DEF Position
<1> QED
  BY <1>3, <1>8, <1>11, <1>12, <1>13, <1>14 DEF Inv

LEMMA OperationInv ==
    ASSUME NEW T \in SUBSET NodeIds, NEW lo \in [NodeIds -> Int],
           NEW hi \in [NodeIds -> Int], NEW V \in [Threads -> SUBSET NodeIds],
           Inv(T, lo, hi, V), NEW t \in Threads, Operation(t)
    PROVE  Inv(T, lo, hi, V)'
<1> DEFINE B == Threads \ {t}
<1>1. TypeOK /\ ControlInv /\ Shape(T, lo, hi)
  BY DEF Inv
<1>2. /\ node' = node /\ allocated' = allocated /\ at' = [at EXCEPT ![t].pc = "guard"]
      /\ inOp' = inOp /\ limbo' = limbo /\ waits' = waits
      /\ mpc' = mpc /\ stage' = stage
      /\ tpc[t] = "step" /\ tpc' = [tpc EXCEPT ![t] = "call"]
  BY DEF Operation, StepCall, To, recVars
<1>3. PICK o \in Current.ops, k \in Keys :
          call' = [call EXCEPT ![t] = NewCall(o, k, k, k \in present)]
  <2>1. PICK o \in Current.ops, k, h \in Keys :
            /\ IF o = "range" THEN k <= h ELSE k = h
            /\ call' = [call EXCEPT ![t] = NewCall(o, k, h, k \in present)]
    BY DEF Operation, StepCall
  <2>2. o # "range"
    BY <1>1, <2>1, TicketAssumption DEF Current, TypeOK
  <2> QED
    BY <2>1, <2>2
<1>4. o \in {"insert", "remove", "get"}
  BY <1>1, TicketAssumption DEF Current, TypeOK
<1>5. present = Contents(T)
  BY <1>1, PresentIs
<1>6. PICK c \in CallSet : /\ c = NewCall(o, k, k, k \in present)
                           /\ c.key = k /\ c.seen = {(k \in Contents(T))}
                           /\ c.result = "pending" /\ c.op = o
  <2>1. NewCall(o, k, k, k \in present) \in CallSet
    BY <1>4 DEF NewCall, CallSet
  <2> QED
    BY <1>5, <2>1 DEF NewCall
<1>7. call' = [call EXCEPT ![t] = c] /\ call'[t] = c /\ c # NoCall
  BY <1>1, <1>3, <1>4, <1>6 DEF TypeOK, NoCall
<1>8. at[t].pc = "idle" /\ call[t] = NoCall /\ t \notin inOp'
  BY <1>1, <1>2 DEF ControlInv, ControlOf, LoopOf
<1>9. at' \in [Threads -> Locals] /\ at'[t].pc = "guard" /\ \A u \in Threads \ {t} : at'[u] = at[u]
  <2>1. at'[t] = [at[t] EXCEPT !.pc = "guard"] /\ at[t] \in Locals /\ at \in [Threads -> Locals]
    BY <1>1, <1>2 DEF TypeOK
  <2>2. at'[t] \in Locals /\ at'[t].pc = "guard"
    BY <2>1 DEF Locals, TicketPC
  <2> QED
    BY <1>2, <2>1, <2>2
<1>10. TypeOK'
  <2>1. call' \in [Threads -> CallSet \cup {NoCall}]
    BY <1>1, <1>7 DEF TypeOK
  <2>2. tpc' \in [Threads -> ThreadPC]
    BY <1>1, <1>2 DEF TypeOK, ThreadPC
  <2> QED
    BY <1>1, <1>2, <1>9, <2>1, <2>2 DEF TypeOK
<1>11. \A u \in Threads \ {t} : call'[u] = call[u] /\ tpc'[u] = tpc[u]
  BY <1>1, <1>2, <1>7 DEF TypeOK
<1>12. tpc'[t] = "call"
  BY <1>1, <1>2 DEF TypeOK
<1>13. \A u \in Threads \ {t} : Bystander(u)
  BY <1>2, <1>9, <1>11 DEF Bystander, CallKept
<1>14. ControlInv'
  <2>1. \A u \in Threads \ {t} : ControlOf(u)' /\ LoopOf(u)'
    BY <1>1, <1>2, <1>11, <1>13, BystanderControl DEF ControlInv, LoopOf, Workers, Current
  <2>2. ControlOf(t)'
    BY <1>6, <1>7, <1>8, <1>9 DEF ControlOf
  <2>3. LoopOf(t)'
    BY <1>1, <1>2, <1>7, <1>12 DEF ControlInv, LoopOf, Workers, Current
  <2> QED
    BY <2>1, <2>2, <2>3 DEF ControlInv
<1>15. Quiet(B)
  <2>1. SameHold(t) /\ Own(t)' = Own(t) /\ Dead(t)' = Dead(t)
    BY <1>8, <1>9, Outside
  <2> QED
    BY <1>2, <1>13, <2>1 DEF Quiet
<1>16. B \in SUBSET Threads
  OBVIOUS
<1>17. /\ Shape(T, lo, hi)' /\ LockInv(T)' /\ OwnInv(T)' /\ Contents(T)' = Contents(T)
       /\ \A u \in B : Position(V, u)'
       /\ \A u \in inOp' : u \in inOp /\ CallKept(u) => WayOf(T, lo, hi, V, u)'
       /\ \A u \in Threads : CallKept(u) => SeenOf(T, u)'
  <2> HIDE DEF B
  <2> QED
    BY <1>10, <1>15, <1>16, QuietStep
<1>18. WayInv(T, lo, hi, V)'
  <2>1. \A u \in inOp' : u \in Threads \ {t} /\ u \in inOp
    BY <1>2, <1>10, <1>8 DEF TypeOK
  <2> QED
    BY <1>13, <1>17, <2>1 DEF WayInv, Bystander
<1>19. SeenInv(T)'
  <2>1. SeenOf(T, t)'
    BY <1>6, <1>7, <1>17 DEF SeenOf, key
  <2> QED
    BY <1>13, <1>17, <2>1 DEF SeenInv, Bystander
<1>20. Position(V, t)'
  BY <1>9 DEF Position
<1> QED
  BY <1>10, <1>14, <1>17, <1>18, <1>19, <1>20 DEF Inv

-----------------------------------------------------------------------------
(* The guard                                                               *)

(* The nodes of the tree that are responsible for t's key are on its way.  *)
LEMMA TreeOnWay ==
    \A T \in SUBSET NodeIds, lo, hi \in [NodeIds -> Int],
       V \in [Threads -> SUBSET NodeIds], t \in Threads :
        /\ TypeOK /\ Shape(T, lo, hi) /\ SeenOf(T, t) /\ call[t] # NoCall
        /\ \A n \in T : Spans(lo, hi, n, key(t)) => n \in V[t]
        => \A n \in T : Spans(lo, hi, n, key(t)) => OnWay(T, lo, hi, V, t, n)
<1> SUFFICES ASSUME NEW T \in SUBSET NodeIds, NEW lo \in [NodeIds -> Int],
                    NEW hi \in [NodeIds -> Int], NEW V \in [Threads -> SUBSET NodeIds],
                    NEW t \in Threads, TypeOK, Shape(T, lo, hi), SeenOf(T, t),
                    call[t] # NoCall,
                    \A n \in T : Spans(lo, hi, n, key(t)) => n \in V[t],
                    NEW n \in T, Spans(lo, hi, n, key(t))
             PROVE  OnWay(T, lo, hi, V, t, n)
  OBVIOUS
<1>1. key(t) \in Keys /\ key(t) \in Int
  BY Constants DEF TypeOK, CallSet, key
<1>2. Located(T, t, n)
  BY DEF Located
<1>3. IsLeaf(n) /\ call[t].result = "pending" => (node[n].key = key(t)) \in call[t].seen
  <2> SUFFICES ASSUME IsLeaf(n), call[t].result = "pending"
               PROVE  (node[n].key = key(t)) \in call[t].seen
    OBVIOUS
  <2>1. node[n].key = key(t) <=> key(t) \in Contents(T)
    BY <1>1, LeafDecides
  <2>2. (key(t) \in Contents(T)) \in call[t].seen
    BY DEF SeenOf
  <2>3. (node[n].key = key(t)) = (key(t) \in Contents(T))
    BY <2>1
  <2> QED
    BY <2>2, <2>3
<1>4. ~IsLeaf(n) => node[n].child[Side(key(t), n)] \in V[t]
  <2> SUFFICES ASSUME ~IsLeaf(n) PROVE node[n].child[Side(key(t), n)] \in V[t]
    OBVIOUS
  <2> DEFINE c == node[n].child[Side(key(t), n)]
  <2>1. node[n].key \in Int /\ lo[n] \in Int /\ hi[n] \in Int
    BY DEF TypeOK
  <2>2. c \in T /\ Spans(lo, hi, c, key(t))
    <3>1. CASE key(t) < node[n].key
      BY <1>1, <2>1, <3>1 DEF Shape, Routes, Spans, Side
    <3>2. CASE ~(key(t) < node[n].key)
      BY <1>1, <2>1, <3>2 DEF Shape, Routes, Spans, Side
    <3> QED
      BY <3>1, <3>2
  <2> QED
    BY <2>2
<1> QED
  BY <1>2, <1>3, <1>4 DEF OnWay

LEMMA TreeOnWayNext ==
    (\A T \in SUBSET NodeIds, lo, hi \in [NodeIds -> Int],
       V \in [Threads -> SUBSET NodeIds], t \in Threads :
        /\ TypeOK /\ Shape(T, lo, hi) /\ SeenOf(T, t) /\ call[t] # NoCall
        /\ \A n \in T : Spans(lo, hi, n, key(t)) => n \in V[t]
        => \A n \in T : Spans(lo, hi, n, key(t)) => OnWay(T, lo, hi, V, t, n))'
  BY TreeOnWay, PTL

(* Nothing is asked of the way of a thread without a guard.                *)
LEMMA ForgetWay ==
    ASSUME NEW T \in SUBSET NodeIds, NEW lo \in [NodeIds -> Int],
           NEW hi \in [NodeIds -> Int], NEW V \in [Threads -> SUBSET NodeIds],
           Inv(T, lo, hi, V), NEW t \in Threads, t \notin inOp,
           NEW W \in [Threads -> SUBSET NodeIds],
           \A u \in Threads \ {t} : W[u] = V[u]
    PROVE  Inv(T, lo, hi, W)
<1>1. /\ WayInv(T, lo, hi, V) /\ ControlInv /\ inOp \subseteq Threads
      /\ \A u \in Threads : Position(V, u)
  BY DEF Inv, TypeOK
<1>2. WayInv(T, lo, hi, W)
  <2> SUFFICES ASSUME NEW u \in inOp PROVE WayOf(T, lo, hi, W, u)
    BY DEF WayInv
  <2>1. WayOf(T, lo, hi, V, u) /\ W[u] = V[u]
    BY <1>1 DEF WayInv
  <2> QED
    BY <2>1 DEF WayOf, OnWay
<1>3. ASSUME NEW u \in Threads PROVE Position(W, u)
  <2>1. CASE u = t
    <3>1. at[u].pc \in {"idle", "guard"}
      BY <1>1, <2>1 DEF ControlInv, ControlOf
    <3> QED
      BY <3>1 DEF Position
  <2>2. CASE u # t
    <3>1. W[u] = V[u] /\ Position(V, u)
      BY <1>1, <2>2
    <3> QED
      BY <3>1 DEF Position, CameBy
  <2> QED
    BY <2>1, <2>2
<1> QED
  BY <1>2, <1>3 DEF Inv

LEMMA GetGuardInv ==
    ASSUME NEW T \in SUBSET NodeIds, NEW lo \in [NodeIds -> Int],
           NEW hi \in [NodeIds -> Int], NEW V \in [Threads -> SUBSET NodeIds],
           Inv(T, lo, hi, V), NEW t \in Threads, GetGuard(t)
    PROVE  \E W \in [Threads -> SUBSET NodeIds] : Inv(T, lo, hi, W)'
<1> DEFINE B == Threads \ {t}
<1>1. TypeOK /\ ControlInv /\ ControlOf(t) /\ Shape(T, lo, hi)
  BY DEF Inv, ControlInv
<1>2. /\ node' = node /\ allocated' = allocated /\ call' = call
      /\ inOp' = inOp \cup {t} /\ limbo' = limbo /\ waits' = waits
      /\ mpc' = mpc /\ stage' = stage /\ tpc' = tpc /\ t \notin inOp /\ at[t].pc = "guard"
  BY DEF GetGuard, Rec!StartOp, benchVars
<1>3. call[t] # NoCall /\ call[t] \in CallSet /\ key(t) \in Keys /\ call[t].result = "pending"
  BY <1>1, <1>2 DEF ControlOf, TypeOK, CallSet, key
<1>4. /\ at' \in [Threads -> Locals] /\ \A u \in Threads \ {t} : at'[u] = at[u]
      /\ at'[t].pc = (IF op(t) = "get" THEN "child" ELSE "version")
      /\ at'[t].curr = root
  <2>1. at'[t] = [at[t] EXCEPT !.pc = IF op(t) = "get" THEN "child" ELSE "version", !.curr = root]
        /\ at[t] \in Locals /\ at \in [Threads -> Locals]
        /\ \A u \in Threads \ {t} : at'[u] = at[u]
    BY <1>1 DEF GetGuard, TypeOK
  <2>2. root \in Ptr /\ {"child", "version"} \subseteq TicketPC
    BY Constants DEF Ptr, TicketPC
  <2>3. at'[t] \in Locals
    BY <2>1, <2>2 DEF Locals
  <2>4. at'[t].pc = (IF op(t) = "get" THEN "child" ELSE "version") /\ at'[t].curr = root
    BY <2>1 DEF Locals
  <2>5. at' = [at EXCEPT ![t] = at'[t]]
    BY <2>1 DEF GetGuard
  <2> QED
    BY <2>1, <2>3, <2>4, <2>5
<1>5. PICK way : way = {n \in T : Spans(lo, hi, n, key(t))}
  OBVIOUS
<1>6. PICK W \in [Threads -> SUBSET NodeIds] : W[t] = way /\ \A u \in Threads \ {t} : W[u] = V[u]
  <2>1. way \in SUBSET NodeIds
    BY <1>5
  <2>2. [V EXCEPT ![t] = way] \in [Threads -> SUBSET NodeIds]
    BY <2>1
  <2> QED
    BY <2>2
<1>7. Inv(T, lo, hi, W)
  BY <1>2, <1>6, ForgetWay
<1>8. TypeOK'
  BY <1>1, <1>2, <1>4 DEF TypeOK
<1>9. \A u \in Threads \ {t} : Bystander(u)
  BY <1>2, <1>4 DEF Bystander, CallKept
<1>10. ControlInv'
  <2>1. \A u \in Threads \ {t} : ControlOf(u)'
    BY <1>1, <1>9, BystanderControl DEF ControlInv
  <2>2. ControlOf(t)'
    BY <1>2, <1>3, <1>4 DEF ControlOf, op
  <2>3. \A u \in Threads : LoopOf(u)'
    BY <1>1, <1>2 DEF ControlInv, LoopOf, Workers, Current
  <2> QED
    BY <2>1, <2>2, <2>3 DEF ControlInv
<1>11. Quiet(B)
  <2>1. SameHold(t) /\ Own(t)' = Own(t) /\ Dead(t)' = Dead(t)
    BY <1>2, <1>4 DEF SameHold, Holds, Own, Fresh2, Dead
  <2> QED
    BY <1>2, <1>9, <2>1 DEF Quiet
<1>12. B \in SUBSET Threads
  OBVIOUS
<1>13. /\ Shape(T, lo, hi)' /\ LockInv(T)' /\ OwnInv(T)' /\ Contents(T)' = Contents(T)
       /\ \A u \in B : Position(W, u)'
       /\ \A u \in inOp' : u \in inOp /\ CallKept(u) => WayOf(T, lo, hi, W, u)'
       /\ \A u \in Threads : CallKept(u) => SeenOf(T, u)'
  <2> HIDE DEF B
  <2> QED
    BY <1>7, <1>8, <1>11, <1>12, QuietStep
<1>14. \A u \in Threads : CallKept(u)
  BY <1>2 DEF CallKept
<1>15. SeenInv(T)'
  BY <1>13, <1>14 DEF SeenInv
<1>16. key(t)' = key(t) /\ op(t)' = op(t)
  BY <1>2 DEF key, op
<1>17. WayOf(T, lo, hi, W, t)'
  <2>1. \A n \in T : Spans(lo, hi, n, key(t))' <=> n \in W[t]
    BY <1>5, <1>6, <1>16 DEF Spans
  <2>2. W[t] \subseteq T
    BY <1>5, <1>6
  <2>3. SeenOf(T, t)' /\ call'[t] # NoCall
    BY <1>2, <1>3, <1>15 DEF SeenInv
  <2>4. \A n \in T : Spans(lo, hi, n, key(t))' => OnWay(T, lo, hi, W, t, n)'
    BY <1>8, <1>13, <2>1, <2>3, TreeOnWayNext
  <2> QED
    BY <2>1, <2>2, <2>4 DEF WayOf
<1>18. WayInv(T, lo, hi, W)'
  <2>1. \A u \in inOp' : u \in Threads /\ (u = t \/ u \in inOp)
    BY <1>2, <1>8 DEF TypeOK
  <2> QED
    BY <1>13, <1>14, <1>17, <2>1 DEF WayInv
<1>19. Position(W, t)'
  <2>1. root \in T /\ Spans(lo, hi, root, key(t))
    <3>1. key(t) \in Nat /\ 0 < key(t) /\ key(t) < KEY_MAX /\ KEY_MAX \in Nat /\ KEY_MIN = 0
      BY <1>3, Constants
    <3> QED
      BY <1>1, <3>1 DEF Shape, Sentinels, Spans
  <2>2. root \in W[t] /\ ~IsLeaf(root)'
    <3>1. ~IsLeaf(root)'
      BY <1>13 DEF Shape, Sentinels
    <3> QED
      BY <1>5, <1>6, <2>1, <3>1
  <2> QED
    BY <1>4, <1>16, <2>2 DEF Position
<1> QED
  BY <1>8, <1>10, <1>13, <1>15, <1>18, <1>19 DEF Inv

LEMMA DropGuardInv ==
    ASSUME NEW T \in SUBSET NodeIds, NEW lo \in [NodeIds -> Int],
           NEW hi \in [NodeIds -> Int], NEW V \in [Threads -> SUBSET NodeIds],
           Inv(T, lo, hi, V), NEW t \in Threads, DropGuard(t)
    PROVE  Inv(T, lo, hi, V)'
<1> DEFINE B == Threads \ {t}
<1>1. TypeOK /\ ControlInv /\ ControlOf(t)
  BY DEF Inv, ControlInv
<1>2. /\ node' = node /\ allocated' = allocated /\ call' = call
      /\ t \in inOp /\ inOp' = inOp \ {t} /\ limbo' = limbo
      /\ waits' = [r \in NodeIds |-> waits[r] \ {t}]
      /\ mpc' = mpc /\ stage' = stage /\ tpc' = tpc
  BY DEF DropGuard, Rec!EndOp, benchVars
<1>3. /\ at' \in [Threads -> Locals] /\ \A u \in Threads \ {t} : at'[u] = at[u]
      /\ \/ at[t].pc = "end" /\ at'[t] = Idle /\ at'[t].pc = "idle"
         \/ at[t].pc = "retry" /\ at'[t].pc = "guard"
  <2>1. at \in [Threads -> Locals]
    BY <1>1 DEF TypeOK
  <2>2. CASE at[t].pc = "end" /\ at' = [at EXCEPT ![t] = Idle]
    <3>1. Unlocked \in LockWord /\ NULL \in Ptr /\ 0 \in Sides /\ "idle" \in TicketPC
      BY Constants DEF Unlocked, LockWord, Ptr, Sides, TicketPC
    <3>2. Idle \in Locals
      BY <3>1 DEF Idle, Locals
    <3>3. Idle.pc = "idle"
      BY DEF Idle
    <3> QED
      BY <2>1, <2>2, <3>2, <3>3
  <2>3. CASE Goto(t, "retry", "guard")
    <3>1. "guard" \in TicketPC
      BY DEF TicketPC
    <3>2. at[t].pc = "retry" /\ at'[t].pc = "guard" /\ at' \in [Threads -> Locals]
          /\ at' = [at EXCEPT ![t] = at'[t]]
      BY <1>1, <2>3, <3>1, GotoFacts
    <3> QED
      BY <2>1, <3>2
  <2> QED
    BY <2>2, <2>3 DEF DropGuard
<1>4. TypeOK'
  <2>1. waits' \in [NodeIds -> SUBSET Threads] /\ inOp' \subseteq Threads
    BY <1>1, <1>2 DEF TypeOK
  <2> QED
    BY <1>1, <1>2, <1>3, <2>1 DEF TypeOK
<1>5. \A u \in Threads \ {t} : Bystander(u)
  BY <1>2, <1>3 DEF Bystander, CallKept
<1>6. ControlInv'
  <2>1. \A u \in Threads \ {t} : ControlOf(u)'
    BY <1>1, <1>5, BystanderControl DEF ControlInv
  <2>2. ControlOf(t)'
    BY <1>1, <1>2, <1>3 DEF ControlOf, op, Idle, Unlocked
  <2>3. \A u \in Threads : LoopOf(u)'
    BY <1>1, <1>2 DEF ControlInv, LoopOf, Workers, Current
  <2> QED
    BY <2>1, <2>2, <2>3 DEF ControlInv
<1>7. Quiet(B)
  <2>1. SameHold(t) /\ Own(t)' = Own(t) /\ Dead(t)' = Dead(t)
    BY <1>3 DEF SameHold, Holds, Own, Fresh2, Dead
  <2>2. \A n \in limbo : \A u \in inOp' : u \in waits[n] => u \in waits'[n]
    BY <1>1, <1>2 DEF TypeOK
  <2> QED
    BY <1>2, <1>5, <2>1, <2>2 DEF Quiet
<1>8. B \in SUBSET Threads /\ inOp' \subseteq inOp
  BY <1>2
<1>9. \A u \in Threads \ B : CallKept(u) /\ Position(V, u)'
  <2>1. CallKept(t)
    BY <1>2 DEF CallKept
  <2>2. Position(V, t)'
    BY <1>3 DEF Position
  <2> QED
    BY <2>1, <2>2
<1> HIDE DEF B
<1> QED
  BY <1>4, <1>6, <1>7, <1>8, <1>9, QuietInv

LEMMA RetireInv ==
    ASSUME NEW T \in SUBSET NodeIds, NEW lo \in [NodeIds -> Int],
           NEW hi \in [NodeIds -> Int], NEW V \in [Threads -> SUBSET NodeIds],
           Inv(T, lo, hi, V), NEW t \in Threads, RetireBoth(t)
    PROVE  Inv(T, lo, hi, V)'
<1> DEFINE B == Threads \ {t}
<1>1. /\ TypeOK /\ ControlInv /\ ControlOf(t) /\ Position(V, t) /\ LockInv(T)
      /\ OwnInv(T)
  BY DEF Inv, ControlInv
<1>2. PICK from, to, x :
          /\ from \in TicketPC /\ to \in TicketPC
          /\ \/ from = "retireCurr" /\ to = "retirePred" /\ x = at[t].curr
             \/ from = "retirePred" /\ to = "end" /\ x = at[t].pred
          /\ Goto(t, from, to) /\ Retire(t, x)
  BY DEF RetireBoth, TicketPC
<1>3. /\ at[t].pc = from /\ at'[t].pc = to
      /\ at' \in [Threads -> Locals] /\ at' = [at EXCEPT ![t] = at'[t]]
      /\ at'[t].curr = at[t].curr /\ at'[t].pred = at[t].pred
  BY <1>1, <1>2, GotoFacts
<1>4. /\ node' = node /\ allocated' = allocated /\ call' = call /\ inOp' = inOp
      /\ limbo' = limbo \cup {x} /\ waits' = [waits EXCEPT ![x] = inOp]
      /\ UNCHANGED <<mpc, stage, tpc>>
  BY <1>2 DEF RetireBoth, Retire, Rec!Retire, benchVars
<1>5. /\ call[t] # NoCall /\ op(t) = "remove" /\ op(t)' = op(t)
      /\ at[t].curr \in V[t] /\ IsLeaf(at[t].curr)
      /\ at[t].pred \in V[t] /\ ~IsLeaf(at[t].pred)
      /\ call[t].result # "pending"
  BY <1>1, <1>2, <1>3, <1>4 DEF ControlOf, Position, op
<1>6. /\ Own(t) = Dead(t) /\ Own(t)' = Dead(t)' /\ x \in Dead(t)
      /\ Dead(t)' = Dead(t) \ {x}
  BY <1>2, <1>3, <1>5 DEF Own, Dead, Fresh2
<1>7. x \in NodeIds /\ x \in allocated /\ x \notin T
  BY <1>1, <1>6 DEF OwnInv, TypeOK
<1>8. TypeOK'
  <2>1. waits' \in [NodeIds -> SUBSET Threads] /\ limbo' \subseteq NodeIds
    BY <1>1, <1>4, <1>7 DEF TypeOK
  <2> QED
    BY <1>1, <1>3, <1>4, <2>1 DEF TypeOK
<1>9. \A u \in Threads \ {t} : Bystander(u)
  BY <1>1, <1>3, <1>4, MoveOthers
<1>10. ControlInv'
  <2>1. ControlOf(t)'
    BY <1>1, <1>2, <1>3, <1>4, <1>5 DEF ControlOf
  <2>2. Moves(t)
    BY <1>4, <1>5, <1>9 DEF Moves
  <2> QED
    BY <1>1, <2>1, <2>2, MoveControl
<1>11. SameHold(t)
  BY <1>2, <1>3 DEF SameHold, Holds
<1>12. \A u \in Threads : SameHold(u)
  BY <1>9, <1>11, BystanderHold
<1>13. \A n \in NodeIds : /\ IsLeaf(n)' <=> IsLeaf(n)
                          /\ IsRemoved(n)' <=> IsRemoved(n)
                          /\ node'[n].lock = node[n].lock
  BY <1>4 DEF IsLeaf, IsRemoved, TLN_REMOVED
<1>14. LockInv(T)'
  BY <1>1, <1>12, <1>13, SameLocks
<1>15. ASSUME NEW n \in NodeIds PROVE Stays(n)
  <2>1. \A s \in Sides : Unlocking(n, s)' <=> Unlocking(n, s)
    BY <1>12, HoldsUnlocking
  <2> QED
    BY <1>4, <1>13, <2>1 DEF Stays, Kept
<1>16. Frame(T, V, B)
  <2>1. \A u \in inOp : \A n \in V[u] : Stays(n)
    BY <1>1, <1>15 DEF TypeOK
  <2>2. \A n \in T : Stays(n)
    BY <1>15
  <2>3. \A u \in Threads \ B : \A n \in Dead(u) :
          n \in Dead(u)' \/ (n \in limbo' /\ inOp' \subseteq waits'[n])
    BY <1>1, <1>4, <1>6, <1>7 DEF TypeOK
  <2>4. \A n \in limbo : \A u \in inOp' : u \in waits[n] => n \in limbo' /\ u \in waits'[n]
    BY <1>1, <1>4 DEF TypeOK
  <2> QED
    BY <1>4, <1>9, <2>1, <2>2, <2>3, <2>4 DEF Frame
<1>17. B \in SUBSET Threads
  OBVIOUS
<1>18. /\ Shape(T, lo, hi)'
       /\ \A u \in B : Position(V, u)' /\ Own(u)' = Own(u)
       /\ \A u \in inOp' : u \in inOp /\ CallKept(u) => WayOf(T, lo, hi, V, u)'
       /\ \A u \in Threads : CallKept(u) => SeenOf(T, u)'
  <2> HIDE DEF B
  <2> QED
    BY <1>8, <1>16, <1>17, FrameStep
<1>19. \A u \in Threads : CallKept(u)
  BY <1>4 DEF CallKept
<1>20. WayInv(T, lo, hi, V)'
  BY <1>4, <1>8, <1>18, <1>19 DEF WayInv, TypeOK
<1>21. SeenInv(T)'
  BY <1>18, <1>19 DEF SeenInv
<1>22. OwnInv(T)'
  <2>1. Own(t)' \subseteq Own(t) \ {x} /\ x \in Own(t)
    BY <1>6
  <2>2. \A u \in Threads \ {t} : Own(u)' = Own(u) /\ x \notin Own(u)
    BY <1>1, <1>18, <2>1 DEF OwnInv
  <2> QED
    BY <1>1, <1>4, <1>7, <2>1, <2>2 DEF OwnInv
<1>23. Position(V, t)'
  <2>1. (IsLeaf(at[t].curr))' /\ ~(IsLeaf(at[t].pred))'
    BY <1>3, <1>4, <1>5 DEF IsLeaf
  <2> QED
    BY <1>2, <1>3, <1>5, <2>1 DEF Position
<1> QED
  BY <1>8, <1>10, <1>14, <1>18, <1>20, <1>21, <1>22, <1>23 DEF Inv

-----------------------------------------------------------------------------
(* The locks                                                               *)

LEMMA RemovedWord ==
    ASSUME NEW n, IsRemoved(n), NEW s \in Sides
    PROVE  node[n].lock[s].version = 0 /\ node[n].lock[s].ticket = Half - 1
  BY DEF IsRemoved, TLN_REMOVED

LEMMA RemovedWordNext ==
    ASSUME NEW n, IsRemoved(n)', NEW s \in Sides
    PROVE  node'[n].lock[s].version = 0 /\ node'[n].lock[s].ticket = Half - 1
  BY DEF IsRemoved, TLN_REMOVED

(* t gets side q of p; nodes outside the tree may be initialised.          *)
Acquires(t, p, q) ==
    /\ node[p].lock[q].version = node[p].lock[q].ticket
    /\ node'[p].lock[q].version = node[p].lock[q].version
    /\ node'[p].lock[q].ticket = node[p].lock[q].version + 1
    /\ \A s \in Sides \ {q} : node'[p].lock[s] = node[p].lock[s]
    /\ \A n \in Ptr, s \in Sides : ~Holds(t, n, s)
    /\ \A n \in Ptr, s \in Sides : Holds(t, n, s)' <=> n = p /\ s = q

LEMMA AcquireLocks ==
    ASSUME TypeOK, NEW T \in SUBSET NodeIds, LockInv(T), NEW t \in Threads,
           NEW p \in T, ~IsLeaf(p), NEW q \in Sides, Acquires(t, p, q),
           \A u \in Threads \ {t} : SameHold(u),
           at[t].pc # "unlink", at'[t].pc # "unlink",
           \A n \in T : IsLeaf(n)' <=> IsLeaf(n),
           \A n \in NodeIds \ {p} : \/ node'[n].lock = node[n].lock
                                    \/ node'[n].lock = Unlocked /\ n \notin T
    PROVE  LockInv(T)' /\ ~IsRemoved(p) /\ ~IsRemoved(p)'
<1>1. node[p].lock[q].version \in Nat /\ Half \in Nat /\ Half > 5
  BY Constants DEF TypeOK, LockWord
<1>2. ~IsRemoved(p)
  BY <1>1, RemovedWord DEF Acquires
<1>3. ~IsRemoved(p)'
  BY <1>1, RemovedWordNext DEF Acquires
<1>4. \A n \in T : IsRemoved(n)' <=> IsRemoved(n)
  BY <1>2, <1>3 DEF IsRemoved, TLN_REMOVED
<1>5. ASSUME NEW u \in Threads PROVE ~Holds(u, p, q)
  <2>1. Holds(u, p, q) => HolderOK(T, u, p, q)
    BY DEF LockInv, Ptr
  <2> QED
    BY <1>1, <2>1 DEF HolderOK, Acquires
<1>6. \A u \in Threads \ {t}, n \in Ptr, s \in Sides : Holds(u, n, s)' <=> Holds(u, n, s)
  BY DEF SameHold
<1>7. ASSUME NEW u \in Threads, NEW n \in Ptr, NEW s \in Sides, Holds(u, n, s)'
      PROVE  HolderOK(T, u, n, s)'
  <2>1. CASE u = t
    <3>1. n = p /\ s = q
      BY <1>7, <2>1 DEF Acquires
    <3>2. \A v \in Threads : Holds(v, p, q)' => v = t
      BY <1>5, <1>6 DEF Ptr
    <3> QED
      BY <1>3, <2>1, <3>1, <3>2 DEF HolderOK, Acquires
  <2>2. CASE u # t
    <3>1. Holds(u, n, s) /\ HolderOK(T, u, n, s)
      BY <1>6, <1>7, <2>2 DEF LockInv
    <3>2. n # p \/ s # q
      BY <1>5, <3>1
    <3>3. node'[n].lock[s] = node[n].lock[s]
      <4>1. CASE n = p
        BY <3>2, <4>1 DEF Acquires
      <4>2. CASE n # p
        BY <3>1, <4>2 DEF HolderOK
      <4> QED
        BY <4>1, <4>2
    <3>4. ~Holds(t, n, s)'
      BY <3>2 DEF Acquires
    <3>5. \A v \in Threads : Holds(v, n, s)' => v = u
      BY <1>6, <3>1, <3>4 DEF HolderOK
    <3> QED
      BY <1>4, <3>1, <3>3, <3>5 DEF HolderOK
  <2> QED
    BY <2>1, <2>2
<1>8. ASSUME NEW n \in NodeIds, NEW s \in Sides PROVE FreeOrHeld(n, s)'
  <2>0. n \in Ptr
    BY DEF Ptr
  <2>1. CASE n = p /\ s = q
    <3>1. Holds(t, n, s)'
      BY <2>0, <2>1 DEF Acquires
    <3> QED
      BY <3>1 DEF FreeOrHeld
  <2>2. CASE node'[n].lock[s] = node[n].lock[s] /\ (IsRemoved(n) => IsRemoved(n)') /\ ~(n = p /\ s = q)
    <3>1. FreeOrHeld(n, s)
      BY DEF LockInv
    <3>2. \A u \in Threads : Holds(u, n, s) => Holds(u, n, s)'
      BY <1>6, <2>0 DEF Acquires
    <3> QED
      BY <2>2, <3>1, <3>2 DEF FreeOrHeld
  <2>3. CASE node'[n].lock = Unlocked
    BY <2>3 DEF FreeOrHeld, Unlocked
  <2>4. CASE n # p /\ node'[n].lock = node[n].lock
    <3>1. IsRemoved(n) => IsRemoved(n)'
      BY <2>4 DEF IsRemoved, TLN_REMOVED
    <3> QED
      BY <2>2, <2>4, <3>1
  <2>5. CASE n = p /\ s # q
    BY <1>2, <2>2, <2>5 DEF Acquires
  <2> QED
    BY <2>1, <2>3, <2>4, <2>5
<1>9. \A u \in Threads, n \in Ptr : Unlinks(u, n)' <=> Unlinks(u, n)
  BY DEF SameHold, Unlinks
<1>10. \A n \in T : IsRemoved(n)' => \E u \in Threads : Unlinks(u, n)'
  BY <1>4, <1>9 DEF LockInv, Ptr
<1>11. ASSUME NEW u \in Threads, NEW n \in Ptr, Unlinks(u, n)'
      PROVE  n \in T /\ IsRemoved(n)' /\ \A v \in Threads : Unlinks(v, n)' => v = u
  BY <1>4, <1>9, <1>11 DEF LockInv
<1>12. LockInv(T)'
  BY <1>7, <1>8, <1>10, <1>11 DEF LockInv
<1> QED
  BY <1>2, <1>3, <1>12

(* t gives side q of p back.                                               *)
Releases(t, p, q) ==
    /\ node'[p].lock[q].version = node'[p].lock[q].ticket
    /\ \A s \in Sides \ {q} : node'[p].lock[s] = node[p].lock[s]
    /\ \A n \in NodeIds \ {p} : node'[n].lock = node[n].lock
    /\ \A n \in Ptr, s \in Sides : Holds(t, n, s) <=> n = p /\ s = q
    /\ \A n \in Ptr, s \in Sides : ~Holds(t, n, s)'

LEMMA ReleaseLocks ==
    ASSUME TypeOK, NEW T \in SUBSET NodeIds, LockInv(T), NEW t \in Threads,
           NEW p \in T, NEW q \in Sides, Releases(t, p, q), TypeOK',
           \A u \in Threads \ {t} : SameHold(u),
           at[t].pc # "unlink", at'[t].pc # "unlink",
           \A n \in T : IsLeaf(n)' <=> IsLeaf(n)
    PROVE  LockInv(T)' /\ ~IsRemoved(p) /\ ~IsRemoved(p)'
<1>1. node'[p].lock[q].version \in Nat /\ Half \in Nat /\ Half > 5 /\ p \in Ptr
  BY Constants DEF TypeOK, LockWord, Ptr
<1>2. Holds(t, p, q) /\ HolderOK(T, t, p, q)
  BY <1>1 DEF Releases, LockInv
<1>3. ~IsRemoved(p) /\ \A u \in Threads : Holds(u, p, q) => u = t
  BY <1>2 DEF HolderOK
<1>4. ~IsRemoved(p)'
  BY <1>1, RemovedWordNext DEF Releases
<1>5. \A n \in NodeIds : IsRemoved(n)' <=> IsRemoved(n)
  BY <1>3, <1>4 DEF IsRemoved, TLN_REMOVED, Releases
<1>6. \A u \in Threads \ {t}, n \in Ptr, s \in Sides : Holds(u, n, s)' <=> Holds(u, n, s)
  BY DEF SameHold
<1>7. ASSUME NEW u \in Threads, NEW n \in Ptr, NEW s \in Sides, Holds(u, n, s)'
      PROVE  HolderOK(T, u, n, s)'
  <2>1. u # t
    BY <1>7 DEF Releases
  <2>2. Holds(u, n, s) /\ HolderOK(T, u, n, s)
    BY <1>6, <1>7, <2>1 DEF LockInv
  <2>3. n # p \/ s # q
    BY <1>3, <2>1, <2>2
  <2>4. node'[n].lock[s] = node[n].lock[s]
    <3>1. CASE n = p
      BY <2>3, <3>1 DEF Releases
    <3>2. CASE n # p
      BY <2>2, <3>2 DEF HolderOK, Releases
    <3> QED
      BY <3>1, <3>2
  <2>5. \A v \in Threads : Holds(v, n, s)' => v = u
    BY <1>6, <2>2 DEF HolderOK, Releases
  <2> QED
    BY <1>5, <2>2, <2>4, <2>5 DEF HolderOK
<1>8. ASSUME NEW n \in NodeIds, NEW s \in Sides PROVE FreeOrHeld(n, s)'
  <2>1. CASE n = p /\ s = q
    BY <2>1 DEF FreeOrHeld, Releases
  <2>2. CASE n # p \/ s # q
    <3>1. node'[n].lock[s] = node[n].lock[s]
      BY <2>2 DEF Releases
    <3>2. FreeOrHeld(n, s) /\ n \in Ptr
      BY DEF LockInv, Ptr
    <3>3. \A u \in Threads : Holds(u, n, s) => Holds(u, n, s)'
      BY <1>6, <2>2, <3>2 DEF Releases
    <3> QED
      BY <1>5, <3>1, <3>2, <3>3 DEF FreeOrHeld
  <2> QED
    BY <2>1, <2>2
<1>9. \A u \in Threads, n \in Ptr : Unlinks(u, n)' <=> Unlinks(u, n)
  BY DEF SameHold, Unlinks
<1>10. \A n \in T : IsRemoved(n)' => \E u \in Threads : Unlinks(u, n)'
  BY <1>5, <1>9 DEF LockInv, Ptr
<1>11. ASSUME NEW u \in Threads, NEW n \in Ptr, Unlinks(u, n)'
      PROVE  n \in T /\ IsRemoved(n)' /\ \A v \in Threads : Unlinks(v, n)' => v = u
  BY <1>5, <1>9, <1>11 DEF LockInv
<1>12. LockInv(T)'
  BY <1>7, <1>8, <1>10, <1>11 DEF LockInv
<1> QED
  BY <1>3, <1>4, <1>12

LEMMA SetsLock ==
    ASSUME TypeOK, NEW p \in NodeIds, NEW w \in LockWord,
           node' = [node EXCEPT ![p].lock = w]
    PROVE  /\ node' \in [NodeIds -> [key : Nat, child : [Sides -> Ptr], lock : LockWord]]
           /\ node'[p].lock = w
           /\ \A n \in NodeIds : node'[n].key = node[n].key /\ node'[n].child = node[n].child
           /\ \A n \in NodeIds \ {p} : node'[n] = node[n]
<1> DEFINE N == [key : Nat, child : [Sides -> Ptr], lock : LockWord]
<1>1. node \in [NodeIds -> N] /\ node[p] \in N
  BY DEF TypeOK
<1>2. node' = [node EXCEPT ![p] = [node[p] EXCEPT !.lock = w]]
  BY <1>1
<1>3. [node[p] EXCEPT !.lock = w] \in N
  BY <1>1
<1>4. node' \in [NodeIds -> N]
  <2> HIDE DEF N
  <2> QED
    BY <1>1, <1>2, <1>3
<1>5. node'[p] = [node[p] EXCEPT !.lock = w] /\ \A n \in NodeIds \ {p} : node'[n] = node[n]
  <2> HIDE DEF N
  <2> QED
    BY <1>1, <1>2
<1>6. node'[p].lock = w /\ node'[p].key = node[p].key /\ node'[p].child = node[p].child
  BY <1>1, <1>5
<1> QED
  BY <1>4, <1>5, <1>6

(* t changes the lock word of p.                                           *)
LockMove(t, p) ==
    /\ Moves(t)
    /\ UNCHANGED <<call, allocated, recVars>>
    /\ at' \in [Threads -> Locals]
    /\ ControlOf(t)'
    /\ Own(t)' = Own(t) /\ Dead(t)' = Dead(t)
    /\ \E w \in LockWord : node' = [node EXCEPT ![p].lock = w]
    /\ Kept(p)
    /\ \A n \in NodeIds \ {p}, s \in Sides : Unlocking(n, s)' <=> Unlocking(n, s)

LEMMA LockMoveFacts ==
    ASSUME TypeOK, NEW t \in Threads, NEW p \in NodeIds, LockMove(t, p)
    PROVE  /\ TypeOK' /\ (\A n \in NodeIds : Kept(n))
           /\ key(t)' = key(t) /\ op(t)' = op(t)
           /\ \A n \in NodeIds : node'[n].key = node[n].key /\ node'[n].child = node[n].child
           /\ \A n \in NodeIds \ {p} : node'[n] = node[n]
<1>1. /\ node' \in [NodeIds -> [key : Nat, child : [Sides -> Ptr], lock : LockWord]]
      /\ \A n \in NodeIds : node'[n].key = node[n].key /\ node'[n].child = node[n].child
      /\ \A n \in NodeIds \ {p} : node'[n] = node[n]
  BY SetsLock DEF LockMove
<1>2. \A n \in NodeIds : node'[n].child[0] = NULL <=> node'[n].child[1] = NULL
  BY <1>1 DEF TypeOK
<1>3. /\ at' \in [Threads -> Locals] /\ call' = call /\ allocated' = allocated
      /\ UNCHANGED <<mpc, stage, tpc, inOp, limbo, waits>>
  BY DEF LockMove, Moves, recVars
<1>4. TypeOK'
  BY <1>1, <1>2, <1>3 DEF TypeOK
<1>5. ASSUME NEW n \in NodeIds \ {p} PROVE Kept(n)
  <2>1. (IsLeaf(n)' <=> IsLeaf(n)) /\ (IsRemoved(n)' <=> IsRemoved(n)) /\ node'[n] = node[n]
    BY <1>1 DEF IsLeaf, IsRemoved, TLN_REMOVED
  <2>2. \A s \in Sides : Unlocking(n, s)' <=> Unlocking(n, s)
    BY DEF LockMove
  <2> QED
    BY <2>1, <2>2 DEF Kept
<1>6. \A n \in NodeIds : Kept(n)
  BY <1>5 DEF LockMove
<1> QED
  BY <1>1, <1>3, <1>4, <1>6 DEF key, op

LEMMA LockMoveInv ==
    ASSUME NEW T \in SUBSET NodeIds, NEW lo \in [NodeIds -> Int],
           NEW hi \in [NodeIds -> Int], NEW V \in [Threads -> SUBSET NodeIds],
           Inv(T, lo, hi, V), NEW t \in Threads, NEW p \in T, LockMove(t, p),
           LockInv(T)', Position(V, t)'
    PROVE  Inv(T, lo, hi, V)'
<1> DEFINE B == Threads \ {t}
<1>1. TypeOK /\ ControlInv /\ OwnInv(T) /\ \A u \in Threads : Position(V, u)
  BY DEF Inv
<1>2. /\ TypeOK' /\ (\A n \in NodeIds : Kept(n))
      /\ \A n \in NodeIds : node'[n].child = node[n].child
      /\ \A n \in NodeIds \ {p} : node'[n] = node[n]
  BY <1>1, LockMoveFacts
<1>3. ControlInv'
  BY <1>1, MoveControl DEF LockMove
<1>4. UNCHANGED <<call, allocated, inOp, limbo, waits>> /\ Moves(t)
      /\ Own(t)' = Own(t) /\ Dead(t)' = Dead(t)
  BY DEF LockMove, recVars
<1>5. \A n \in NodeIds : Stays(n)
  BY <1>2 DEF Stays
<1>6. Frame(T, V, B)
  <2>1. \A u \in inOp : \A n \in V[u] : Stays(n)
    BY <1>1, <1>5 DEF TypeOK
  <2>2. \A n \in T : Stays(n)
    BY <1>5
  <2>3. ASSUME NEW u \in B, NEW n \in Fresh2(u) PROVE node'[n] = node[n]
    <3>1. n \in NodeIds /\ n # p
      BY <1>1 DEF OwnInv, Own, TypeOK
    <3> QED
      BY <1>2, <3>1
  <2> QED
    BY <1>4, <2>1, <2>2, <2>3 DEF Frame, Moves
<1>7. B \in SUBSET Threads
  OBVIOUS
<1>8. /\ Shape(T, lo, hi)'
      /\ \A u \in B : Position(V, u)' /\ Own(u)' = Own(u)
      /\ \A u \in inOp' : u \in inOp /\ CallKept(u) => WayOf(T, lo, hi, V, u)'
      /\ \A u \in Threads : CallKept(u) => SeenOf(T, u)'
  <2> HIDE DEF B
  <2> QED
    BY <1>2, <1>6, <1>7, FrameStep
<1>9. \A u \in Threads : CallKept(u)
  BY <1>4 DEF CallKept
<1>10. WayInv(T, lo, hi, V)'
  BY <1>1, <1>4, <1>8, <1>9 DEF WayInv, TypeOK
<1>11. SeenInv(T)'
  BY <1>8, <1>9 DEF SeenInv
<1>12. OwnInv(T)'
  <2>1. \A u \in Threads : Own(u)' = Own(u)
    BY <1>4, <1>8
  <2> QED
    BY <1>1, <1>4, <2>1 DEF OwnInv
<1> QED
  BY <1>2, <1>3, <1>8, <1>10, <1>11, <1>12 DEF Inv

(* The arithmetic of the lock words.                                       *)
LEMMA SmallMod ==
    ASSUME NEW a \in Nat, NEW b \in Nat, a < b
    PROVE  a % b = a /\ (a + b) % b = a
  OBVIOUS

LEMMA Words ==
    ASSUME NEW w \in LockWord, NEW s \in Sides
    PROVE  /\ w[s].version = w[s].ticket /\ w[s].version < Half - 1 =>
                /\ Locked(w, s) \in LockWord
                /\ Locked(w, s)[s].version = w[s].version
                /\ Locked(w, s)[s].ticket = w[s].version + 1
                /\ \A r \in Sides \ {s} : Locked(w, s)[r] = w[r]
           /\ w[s].ticket = w[s].version + 1 =>
                /\ tl_unlock(w, s) \in LockWord /\ tl_revert(w, s) \in LockWord
                /\ tl_unlock(w, s)[s].version = w[s].version + 1
                /\ tl_unlock(w, s)[s].ticket = w[s].ticket
                /\ tl_revert(w, s)[s].version = w[s].version
                /\ tl_revert(w, s)[s].ticket = w[s].version
                /\ \A r \in Sides \ {s} : tl_unlock(w, s)[r] = w[r]
                                          /\ tl_revert(w, s)[r] = w[r]
<1> DEFINE W == [version : 0 .. Half - 1, ticket : 0 .. Half - 1]
<1>1. Half \in Nat /\ Half > 5
  BY Constants
<1>2. w \in [Sides -> W] /\ w[s] \in W
  BY DEF LockWord
<1>3. w[s].version \in 0 .. Half - 1 /\ w[s].ticket \in 0 .. Half - 1
  BY <1>2
<1>5. ASSUME w[s].version = w[s].ticket, w[s].version < Half - 1
      PROVE  /\ Locked(w, s) \in LockWord
             /\ Locked(w, s)[s].version = w[s].version
             /\ Locked(w, s)[s].ticket = w[s].version + 1
             /\ \A r \in Sides \ {s} : Locked(w, s)[r] = w[r]
  <2>1. (w[s].ticket + 1) % Half = w[s].version + 1 /\ w[s].version + 1 \in 0 .. Half - 1
    <3>1. w[s].version + 1 \in Nat /\ w[s].version + 1 < Half
      BY <1>1, <1>3, <1>5
    <3> QED
      BY <1>1, <1>5, <3>1, SmallMod
  <2>x. PICK x : x = [w[s] EXCEPT !.ticket = w[s].version + 1]
    OBVIOUS
  <2>2. Locked(w, s) = [w EXCEPT ![s] = x]
    BY <1>2, <2>1, <2>x DEF Locked
  <2>3. x \in W
    BY <1>2, <2>x, <2>1
  <2>4. /\ Locked(w, s) \in [Sides -> W] /\ Locked(w, s)[s] = x
        /\ \A r \in Sides \ {s} : Locked(w, s)[r] = w[r]
    <3> HIDE DEF W
    <3> QED
      BY <1>2, <2>2, <2>3
  <2>5. Locked(w, s) \in LockWord
    BY <2>4 DEF LockWord
  <2> QED
    BY <1>2, <2>x, <2>4, <2>5
<1>6. ASSUME w[s].ticket = w[s].version + 1
      PROVE  /\ tl_unlock(w, s) \in LockWord
             /\ tl_unlock(w, s)[s].version = w[s].version + 1
             /\ tl_unlock(w, s)[s].ticket = w[s].ticket
             /\ \A r \in Sides \ {s} : tl_unlock(w, s)[r] = w[r]
  <2>1. (w[s].version + 1) % Half = w[s].version + 1 /\ w[s].version + 1 \in 0 .. Half - 1
    BY <1>1, <1>3, <1>6, SmallMod
  <2>x. PICK x : x = [w[s] EXCEPT !.version = w[s].version + 1]
    OBVIOUS
  <2>2. tl_unlock(w, s) = [w EXCEPT ![s] = x]
    BY <1>2, <2>1, <2>x DEF tl_unlock
  <2>3. x \in W
    BY <1>2, <2>x, <2>1
  <2>4. /\ tl_unlock(w, s) \in [Sides -> W] /\ tl_unlock(w, s)[s] = x
        /\ \A r \in Sides \ {s} : tl_unlock(w, s)[r] = w[r]
    <3> HIDE DEF W
    <3> QED
      BY <1>2, <2>2, <2>3
  <2>5. tl_unlock(w, s) \in LockWord
    BY <2>4 DEF LockWord
  <2> QED
    BY <1>2, <2>x, <2>4, <2>5
<1>7. ASSUME w[s].ticket = w[s].version + 1
      PROVE  /\ tl_revert(w, s) \in LockWord
             /\ tl_revert(w, s)[s].version = w[s].version
             /\ tl_revert(w, s)[s].ticket = w[s].version
             /\ \A r \in Sides \ {s} : tl_revert(w, s)[r] = w[r]
  <2>1. (w[s].ticket + Half - 1) % Half = w[s].version
    <3>1. w[s].ticket + Half - 1 = w[s].version + Half
      BY <1>1, <1>3, <1>7
    <3>2. (w[s].version + Half) % Half = w[s].version
      BY <1>1, <1>3, SmallMod
    <3> QED
      BY <3>1, <3>2
  <2>x. PICK x : x = [w[s] EXCEPT !.ticket = w[s].version]
    OBVIOUS
  <2>2. tl_revert(w, s) = [w EXCEPT ![s] = x]
    BY <1>2, <2>1, <2>x DEF tl_revert
  <2>3. x \in W
    BY <1>2, <2>x, <1>3
  <2>4. /\ tl_revert(w, s) \in [Sides -> W] /\ tl_revert(w, s)[s] = x
        /\ \A r \in Sides \ {s} : tl_revert(w, s)[r] = w[r]
    <3> HIDE DEF W
    <3> QED
      BY <1>2, <2>2, <2>3
  <2>5. tl_revert(w, s) \in LockWord
    BY <2>4 DEF LockWord
  <2> QED
    BY <1>2, <2>x, <2>4, <2>5
<1> QED
  BY <1>5, <1>6, <1>7

(* What a step inside an operation leaves alone.                           *)
LEMMA GotoMoves ==
    ASSUME TypeOK, ControlInv, NEW t \in Threads, NEW from, NEW to \in TicketPC,
           Goto(t, from, to), from \notin {"idle", "guard"},
           UNCHANGED <<benchVars, recVars>>
    PROVE  /\ Moves(t) /\ UNCHANGED <<call, recVars>>
           /\ at' \in [Threads -> Locals] /\ at[t] \in Locals
           /\ op(t)' = op(t) /\ key(t)' = key(t)
           /\ \A u \in Threads \ {t} : SameHold(u)
<1>1. /\ at[t].pc = from /\ at' \in [Threads -> Locals]
      /\ at' = [at EXCEPT ![t] = at'[t]]
  BY GotoFacts
<1>2. call' = call /\ inOp' = inOp /\ UNCHANGED <<mpc, stage, tpc>>
  BY DEF benchVars, recVars
<1>3. \A u \in Threads \ {t} : Bystander(u)
  BY <1>1, <1>2, MoveOthers
<1>4. call[t] # NoCall
  BY <1>1 DEF ControlInv, ControlOf
<1>5. \A u \in Threads \ {t} : SameHold(u)
  BY <1>3, BystanderHold
<1> QED
  BY <1>1, <1>2, <1>3, <1>4, <1>5 DEF Moves, op, key, TypeOK

LEMMA UnlockingSame ==
    ASSUME NEW t \in Threads, at[t].pc # "unlock", at'[t].pc # "unlock",
           \A u \in Threads \ {t} : SameHold(u)
    PROVE  \A n \in NodeIds, s \in Sides : Unlocking(n, s)' <=> Unlocking(n, s)
<1> SUFFICES ASSUME NEW n \in NodeIds, NEW s \in Sides
             PROVE  Unlocking(n, s)' <=> Unlocking(n, s)
  OBVIOUS
<1>1. \A u \in Threads \ {t} : /\ Holds(u, n, s)' <=> Holds(u, n, s)
                               /\ at'[u].pc = "unlock" <=> at[u].pc = "unlock"
  BY DEF SameHold, Ptr
<1> QED
  BY <1>1 DEF Unlocking

(* A compare-and-swap that succeeds has found the child that was read.     *)
LEMMA CasFinds ==
    ASSUME NEW T \in SUBSET NodeIds, NEW lo \in [NodeIds -> Int],
           NEW hi \in [NodeIds -> Int], NEW V \in [Threads -> SUBSET NodeIds],
           Inv(T, lo, hi, V), NEW t \in inOp, NEW n, NEW s \in Sides,
           NEW ver \in LockWord, NEW c, CameBy(V, t, n, s, ver, c),
           tl_trylock_version(node[n].lock, ver, s)
    PROVE  /\ n \in NodeIds /\ n \in T /\ ~IsLeaf(n) /\ ~IsRemoved(n)
           /\ node[n].lock \in LockWord
           /\ node[n].lock[s].version = node[n].lock[s].ticket
           /\ ChildIs(n, s, c) /\ Spans(lo, hi, n, key(t))
           /\ ~Unlocking(n, s)
<1>1. TypeOK /\ LockInv(T) /\ WayInv(T, lo, hi, V)
  BY DEF Inv
<1>2. t \in Threads /\ n \in V[t] /\ ~IsLeaf(n) /\ Valid(n, s, ver, c)
  BY <1>1 DEF CameBy, TypeOK
<1>3. n \in NodeIds /\ node[n].lock \in LockWord
  BY <1>1, <1>2 DEF TypeOK
<1>4. /\ node[n].lock[s].version = node[n].lock[s].ticket
      /\ ver[s].version = node[n].lock[s].version /\ ver[s].version = ver[s].ticket
      /\ node[n].lock[s].version \in Nat
  BY <1>3 DEF tl_trylock_version, LockWord
<1>5. ~IsRemoved(n)
  <2>1. Half \in Nat /\ Half > 5
    BY Constants
  <2>2. IsRemoved(n) => node[n].lock[s].version = 0 /\ node[n].lock[s].ticket = Half - 1
    BY RemovedWord
  <2> QED
    BY <1>4, <2>1, <2>2
<1>6. OnWay(T, lo, hi, V, t, n)
  BY <1>1, <1>2 DEF WayInv, WayOf
<1>7. n \in T /\ Spans(lo, hi, n, key(t))
  BY <1>2, <1>5, <1>6 DEF OnWay
<1>8. ASSUME NEW u \in Threads PROVE ~Holds(u, n, s)
  <2>1. Holds(u, n, s) => HolderOK(T, u, n, s)
    BY <1>1, <1>3 DEF LockInv, Ptr
  <2> QED
    BY <1>4, <2>1 DEF HolderOK
<1>9. ~Unlocking(n, s)
  BY <1>8 DEF Unlocking
<1>10. node[n].child[s] = c
  BY <1>2, <1>4, <1>5, <1>9 DEF Valid
<1> QED
  BY <1>2, <1>3, <1>4, <1>5, <1>7, <1>9, <1>10 DEF ChildIs

(* t is at a leaf and remembers how it came there.                         *)
AtLeaf(V, t) ==
    LET a == at[t] IN
    /\ a.curr \in V[t] /\ IsLeaf(a.curr)
    /\ node[a.curr].key = key(t) <=> op(t) = "remove"
    /\ CameBy(V, t, a.pred, a.right, a.pred_ver, a.curr)
    /\ op(t) = "remove" =>
          CameBy(V, t, a.ppred, a.pright, a.ppred_ver, a.pred) /\ a.pred # root

LEMMA StaysAtLeaf ==
    ASSUME TypeOK, TypeOK', NEW V \in [Threads -> SUBSET NodeIds], NEW t \in Threads,
           AtLeaf(V, t), \A n \in V[t] : Kept(n),
           op(t)' = op(t), key(t)' = key(t),
           at'[t].curr = at[t].curr,
           at'[t].pred = at[t].pred, at'[t].ppred = at[t].ppred,
           at'[t].pred_ver = at[t].pred_ver, at'[t].ppred_ver = at[t].ppred_ver,
           at'[t].right = at[t].right, at'[t].pright = at[t].pright
    PROVE  AtLeaf(V, t)'
<1>a. PICK a : a = at[t]
  OBVIOUS
<1>1. /\ a.curr \in V[t] /\ IsLeaf(a.curr)
      /\ node[a.curr].key = key(t) <=> op(t) = "remove"
      /\ CameBy(V, t, a.pred, a.right, a.pred_ver, a.curr)
      /\ op(t) = "remove" =>
            CameBy(V, t, a.ppred, a.pright, a.ppred_ver, a.pred) /\ a.pred # root
  BY <1>a DEF AtLeaf
<1>2. /\ a.pred_ver \in LockWord /\ a.ppred_ver \in LockWord
      /\ a.right \in Sides /\ a.pright \in Sides
  BY <1>a DEF TypeOK, Locals
<1>3. ASSUME NEW n, NEW s \in Sides, NEW ver \in LockWord, NEW c,
             CameBy(V, t, n, s, ver, c)
      PROVE  CameBy(V, t, n, s, ver, c)'
  <2>1. Kept(n)
    BY <1>3 DEF CameBy
  <2> QED
    BY <1>3, <2>1, KeptCameBy
<1>4. CameBy(V, t, a.pred, a.right, a.pred_ver, a.curr)'
  BY <1>1, <1>2, <1>3
<1>5. op(t) = "remove" => CameBy(V, t, a.ppred, a.pright, a.ppred_ver, a.pred)'
  BY <1>1, <1>2, <1>3
<1>6. IsLeaf(a.curr)' /\ node'[a.curr].key = node[a.curr].key
  BY <1>1 DEF Kept
<1> QED
  BY <1>a, <1>1, <1>4, <1>5, <1>6 DEF AtLeaf

LEMMA LockParentInv ==
    ASSUME NEW T \in SUBSET NodeIds, NEW lo \in [NodeIds -> Int],
           NEW hi \in [NodeIds -> Int], NEW V \in [Threads -> SUBSET NodeIds],
           Inv(T, lo, hi, V), NoWrap, NEW t \in Threads, LockParent(t)
    PROVE  Inv(T, lo, hi, V)'
<1>a. PICK p : p = at[t].ppred
  OBVIOUS
<1>b. PICK q : q = at[t].pright
  OBVIOUS
<1>1. TypeOK /\ ControlInv /\ ControlOf(t) /\ Position(V, t) /\ LockInv(T)
  BY DEF Inv, ControlInv
<1>2. at[t].pc = "lockParent" /\ UNCHANGED <<benchVars, allocated, recVars>>
  BY DEF LockParent
<1>3. CASE Goto(t, "lockParent", "retry") /\ UNCHANGED node
  BY <1>2, <1>3, FailingStep
<1>4. CASE /\ tl_trylock_version(node[p].lock, at[t].ppred_ver, q)
           /\ Goto(t, "lockParent", "lockBoth")
           /\ node' = [node EXCEPT ![p].lock = Locked(node[p].lock, q)]
  <2>1. op(t) = "remove" /\ t \in inOp
    BY <1>1, <1>2 DEF ControlOf
  <2>2. AtLeaf(V, t)
    BY <1>1, <1>2 DEF Position, AtLeaf
  <2>3. CameBy(V, t, p, q, at[t].ppred_ver, at[t].pred)
    BY <1>a, <1>b, <2>1, <2>2 DEF AtLeaf
  <2>4. at[t].ppred_ver \in LockWord /\ q \in Sides
    BY <1>1, <1>b DEF TypeOK, Locals
  <2>5. /\ p \in NodeIds /\ p \in T /\ ~IsLeaf(p) /\ ~IsRemoved(p)
        /\ node[p].lock \in LockWord
        /\ node[p].lock[q].version = node[p].lock[q].ticket
        /\ ChildIs(p, q, at[t].pred)
    BY <1>4, <2>1, <2>3, <2>4, CasFinds
  <2>w. PICK w : w = Locked(node[p].lock, q)
    OBVIOUS
  <2>6. /\ w \in LockWord /\ w[q].version = node[p].lock[q].version
        /\ w[q].ticket = node[p].lock[q].version + 1
        /\ \A r \in Sides \ {q} : w[r] = node[p].lock[r]
    BY <2>4, <2>5, <2>w, Words DEF NoWrap
  <2>7. node' = [node EXCEPT ![p].lock = w]
    BY <1>4, <2>w
  <2>8. /\ node'[p].lock = w
        /\ \A n \in NodeIds : node'[n].key = node[n].key /\ node'[n].child = node[n].child
        /\ \A n \in NodeIds \ {p} : node'[n] = node[n]
    BY <1>1, <2>5, <2>6, <2>7, SetsLock
  <2>9. /\ Moves(t) /\ UNCHANGED <<call, recVars>>
        /\ at' \in [Threads -> Locals]
        /\ op(t)' = op(t) /\ key(t)' = key(t)
        /\ \A u \in Threads \ {t} : SameHold(u)
    BY <1>1, <1>2, <1>4, GotoMoves DEF TicketPC
  <2>10. /\ at'[t].pc = "lockBoth"
         /\ at'[t].curr = at[t].curr
         /\ at'[t].pred = at[t].pred /\ at'[t].ppred = at[t].ppred
         /\ at'[t].pred_ver = at[t].pred_ver /\ at'[t].ppred_ver = at[t].ppred_ver
         /\ at'[t].right = at[t].right /\ at'[t].pright = at[t].pright
    BY <1>1, <1>4, GotoFacts DEF TicketPC
  <2>11. Acquires(t, p, q)
    <3>1. \A n \in Ptr, s \in Sides : ~Holds(t, n, s)
      BY <1>2 DEF Holds
    <3>2. \A n \in Ptr, s \in Sides : Holds(t, n, s)' <=> n = p /\ s = q
      BY <1>a, <1>b, <2>1, <2>9, <2>10 DEF Holds, HeldNode, HeldSide
    <3> QED
      BY <2>5, <2>6, <2>8, <3>1, <3>2 DEF Acquires
  <2>12. LockInv(T)' /\ ~IsRemoved(p)'
    <3>1. \A n \in T : IsLeaf(n)' <=> IsLeaf(n)
      BY <2>8 DEF IsLeaf
    <3>2. \A n \in NodeIds \ {p} : node'[n].lock = node[n].lock
      BY <2>8
    <3> QED
      BY <1>1, <1>2, <2>4, <2>5, <2>9, <2>10, <2>11, <3>1, <3>2, AcquireLocks
  <2>13. \A n \in NodeIds, s \in Sides : Unlocking(n, s)' <=> Unlocking(n, s)
    BY <1>2, <2>9, <2>10, UnlockingSame
  <2>14. Kept(p)
    <3>1. IsLeaf(p)' <=> IsLeaf(p)
      BY <2>5, <2>8 DEF IsLeaf
    <3>2. \A s \in Sides : node'[p].lock[s].version = node[p].lock[s].version
      BY <2>6, <2>8
    <3> QED
      BY <2>5, <2>8, <2>13, <3>1, <3>2 DEF Kept
  <2>15. ControlOf(t)'
    BY <1>1, <1>2, <2>1, <2>9, <2>10 DEF ControlOf, recVars
  <2>16. Own(t) = {} /\ Own(t)' = {} /\ Dead(t) = {} /\ Dead(t)' = {}
    BY <1>2, <2>10 DEF Own, Fresh2, Dead
  <2>17. LockMove(t, p)
    BY <1>2, <2>6, <2>7, <2>9, <2>13, <2>14, <2>15, <2>16 DEF LockMove
  <2>18. TypeOK' /\ \A n \in NodeIds : Kept(n)
    BY <1>1, <2>5, <2>17, LockMoveFacts
  <2>19. AtLeaf(V, t)'
    BY <1>1, <2>2, <2>9, <2>10, <2>18, StaysAtLeaf
  <2>20. node'[at'[t].ppred].child[at'[t].pright] = at'[t].pred
    BY <1>a, <1>b, <2>5, <2>8, <2>10 DEF ChildIs
  <2>21. Position(V, t)'
    BY <2>10, <2>19, <2>20 DEF Position, AtLeaf
  <2> QED
    BY <2>5, <2>12, <2>17, <2>21, LockMoveInv
<1> QED
  BY <1>a, <1>b, <1>3, <1>4 DEF LockParent

(* t marks p, of which no side is held, as removed.                        *)
Marks(t, p) ==
    /\ \A s \in Sides : node[p].lock[s].version = node[p].lock[s].ticket
    /\ IsRemoved(p)'
    /\ \A n \in NodeIds \ {p} : node'[n].lock = node[n].lock
    /\ \A n \in Ptr, s \in Sides : Holds(t, n, s)' <=> Holds(t, n, s)
    /\ at[t].pc # "unlink" /\ at'[t].pc = "unlink" /\ at'[t].pred = p

LEMMA MarkLocks ==
    ASSUME TypeOK, NEW T \in SUBSET NodeIds, LockInv(T), NEW t \in Threads,
           NEW p \in T, ~IsRemoved(p), Marks(t, p),
           \A u \in Threads \ {t} : SameHold(u),
           \A n \in T : IsLeaf(n)' <=> IsLeaf(n)
    PROVE  LockInv(T)'
<1>1. \A n \in NodeIds \ {p} : IsRemoved(n)' <=> IsRemoved(n)
  BY DEF IsRemoved, TLN_REMOVED, Marks
<1>2. \A u \in Threads, n \in Ptr, s \in Sides : Holds(u, n, s)' <=> Holds(u, n, s)
  BY DEF SameHold, Marks
<1>3. ASSUME NEW u \in Threads, NEW s \in Sides PROVE ~Holds(u, p, s)
  <2>1. Holds(u, p, s) => HolderOK(T, u, p, s)
    BY DEF LockInv, Ptr
  <2>2. node[p].lock[s].version \in Nat
    BY DEF TypeOK, LockWord
  <2> QED
    BY <2>1, <2>2 DEF HolderOK, Marks
<1>4. ASSUME NEW u \in Threads, NEW n \in Ptr, NEW s \in Sides, Holds(u, n, s)'
      PROVE  HolderOK(T, u, n, s)'
  <2>1. Holds(u, n, s) /\ HolderOK(T, u, n, s) /\ n # p
    BY <1>2, <1>3, <1>4 DEF LockInv
  <2>2. n \in NodeIds \ {p} /\ n \in T
    BY <2>1 DEF HolderOK
  <2>3. node'[n].lock = node[n].lock
    BY <2>2 DEF Marks
  <2>4. \A v \in Threads : Holds(v, n, s)' => v = u
    BY <1>2, <2>1 DEF HolderOK
  <2> QED
    BY <1>1, <2>1, <2>2, <2>3, <2>4 DEF HolderOK
<1>5. ASSUME NEW n \in NodeIds, NEW s \in Sides PROVE FreeOrHeld(n, s)'
  <2>1. CASE n = p
    BY <2>1 DEF FreeOrHeld, Marks
  <2>2. CASE n # p
    <3>1. FreeOrHeld(n, s) /\ n \in Ptr
      BY DEF LockInv, Ptr
    <3>2. node'[n].lock = node[n].lock
      BY <2>2 DEF Marks
    <3> QED
      BY <1>1, <1>2, <2>2, <3>1, <3>2 DEF FreeOrHeld
  <2> QED
    BY <2>1, <2>2
<1>6. \A u \in Threads \ {t}, n \in Ptr : Unlinks(u, n)' <=> Unlinks(u, n)
  BY DEF SameHold, Unlinks
<1>7. \A n \in Ptr : ~Unlinks(t, n) /\ (Unlinks(t, n)' <=> n = p)
  BY DEF Unlinks, Marks
<1>8. \A u \in Threads : ~Unlinks(u, p)
  BY DEF LockInv, Ptr
<1>9. \A n \in T : IsRemoved(n)' => \E u \in Threads : Unlinks(u, n)'
  <2> SUFFICES ASSUME NEW n \in T, IsRemoved(n)'
               PROVE  \E u \in Threads : Unlinks(u, n)'
    OBVIOUS
  <2>0. n \in Ptr
    BY DEF Ptr
  <2>1. CASE n = p
    BY <1>7, <2>0, <2>1
  <2>2. CASE n # p
    <3>1. PICK u \in Threads : Unlinks(u, n)
      BY <1>1, <2>2 DEF LockInv
    <3> QED
      BY <1>6, <1>7, <2>0, <3>1
  <2> QED
    BY <2>1, <2>2
<1>10. ASSUME NEW u \in Threads, NEW n \in Ptr, Unlinks(u, n)'
      PROVE  n \in T /\ IsRemoved(n)' /\ \A v \in Threads : Unlinks(v, n)' => v = u
  <2>1. CASE u = t
    <3>1. n = p
      BY <1>7, <1>10, <2>1
    <3> QED
      BY <1>6, <1>8, <1>10, <2>1, <3>1 DEF Marks
  <2>2. CASE u # t
    <3>1. Unlinks(u, n) /\ n # p
      BY <1>6, <1>8, <1>10, <2>2
    <3>2. n \in T /\ IsRemoved(n) /\ \A v \in Threads : Unlinks(v, n) => v = u
      BY <3>1 DEF LockInv
    <3> QED
      BY <1>1, <1>6, <1>7, <3>1, <3>2
  <2> QED
    BY <2>1, <2>2
<1> QED
  BY <1>4, <1>5, <1>9, <1>10 DEF LockInv

LEMMA LockBothInv ==
    ASSUME NEW T \in SUBSET NodeIds, NEW lo \in [NodeIds -> Int],
           NEW hi \in [NodeIds -> Int], NEW V \in [Threads -> SUBSET NodeIds],
           Inv(T, lo, hi, V), NEW t \in Threads, LockBoth(t)
    PROVE  Inv(T, lo, hi, V)'
<1>a. PICK p : p = at[t].pred
  OBVIOUS
<1>1. TypeOK /\ ControlInv /\ ControlOf(t) /\ Position(V, t) /\ LockInv(T)
  BY DEF Inv, ControlInv
<1>2. at[t].pc = "lockBoth" /\ UNCHANGED <<benchVars, allocated, recVars>>
  BY DEF LockBoth
<1>3. CASE Goto(t, "lockBoth", "revert") /\ UNCHANGED node
  BY <1>2, <1>3, FailingStep
<1>4. CASE /\ tl_trylock_version_both(node[p].lock, at[t].pred_ver)
           /\ Goto(t, "lockBoth", "unlink")
           /\ node' = [node EXCEPT ![p].lock = TLN_REMOVED]
  <2>1. op(t) = "remove" /\ t \in inOp
    BY <1>1, <1>2 DEF ControlOf
  <2>2. AtLeaf(V, t) /\ ChildIs(at[t].ppred, at[t].pright, p)
    BY <1>1, <1>2, <1>a DEF Position, AtLeaf, ChildIs
  <2>3. CameBy(V, t, p, at[t].right, at[t].pred_ver, at[t].curr)
    BY <1>a, <2>2 DEF AtLeaf
  <2>4. at[t].pred_ver \in LockWord /\ at[t].right \in Sides
    BY <1>1 DEF TypeOK, Locals
  <2>5. tl_trylock_version(node[p].lock, at[t].pred_ver, at[t].right)
    BY <1>4, <2>4 DEF tl_trylock_version, tl_trylock_version_both
  <2>6. /\ p \in NodeIds /\ p \in T /\ ~IsLeaf(p) /\ ~IsRemoved(p)
        /\ ChildIs(p, at[t].right, at[t].curr)
    BY <2>1, <2>3, <2>4, <2>5, CasFinds
  <2>w. PICK w : w = TLN_REMOVED
    OBVIOUS
  <2>7. w \in LockWord
    BY <2>w, Constants DEF TLN_REMOVED, LockWord
  <2>8. node' = [node EXCEPT ![p].lock = w]
    BY <1>4, <2>w
  <2>9. /\ node'[p].lock = w
        /\ \A n \in NodeIds : node'[n].key = node[n].key /\ node'[n].child = node[n].child
        /\ \A n \in NodeIds \ {p} : node'[n] = node[n]
    BY <1>1, <2>6, <2>7, <2>8, SetsLock
  <2>10. IsRemoved(p)'
    <3>1. node'[p].lock = TLN_REMOVED
      BY <2>w, <2>9
    <3>2. TLN_REMOVED' = TLN_REMOVED
      BY DEF TLN_REMOVED
    <3> QED
      BY <3>1, <3>2 DEF IsRemoved
  <2>11. /\ Moves(t) /\ UNCHANGED <<call, recVars>>
        /\ at' \in [Threads -> Locals]
        /\ op(t)' = op(t) /\ key(t)' = key(t)
        /\ \A u \in Threads \ {t} : SameHold(u)
    BY <1>1, <1>2, <1>4, GotoMoves DEF TicketPC
  <2>12. /\ at'[t].pc = "unlink"
         /\ at'[t].curr = at[t].curr
         /\ at'[t].pred = at[t].pred /\ at'[t].ppred = at[t].ppred
         /\ at'[t].pred_ver = at[t].pred_ver /\ at'[t].ppred_ver = at[t].ppred_ver
         /\ at'[t].right = at[t].right /\ at'[t].pright = at[t].pright
    BY <1>1, <1>4, GotoFacts DEF TicketPC
  <2>13. Marks(t, p)
    <3>1. \A n \in Ptr, s \in Sides : Holds(t, n, s)' <=> Holds(t, n, s)
      BY <1>2, <2>11, <2>12 DEF Holds, HeldNode, HeldSide
    <3>2. \A s \in Sides : node[p].lock[s].version = node[p].lock[s].ticket
      BY <1>4 DEF tl_trylock_version_both
    <3>3. \A n \in NodeIds \ {p} : node'[n].lock = node[n].lock
      BY <2>9
    <3> QED
      BY <1>a, <1>2, <2>10, <2>12, <3>1, <3>2, <3>3 DEF Marks
  <2>14. LockInv(T)'
    <3>1. \A n \in T : IsLeaf(n)' <=> IsLeaf(n)
      BY <2>9 DEF IsLeaf
    <3> QED
      BY <1>1, <2>6, <2>11, <2>13, <3>1, MarkLocks
  <2>15. \A n \in NodeIds, s \in Sides : Unlocking(n, s)' <=> Unlocking(n, s)
    BY <1>2, <2>11, <2>12, UnlockingSame
  <2>16. Kept(p)
    <3>1. IsLeaf(p)' <=> IsLeaf(p)
      BY <2>6, <2>9 DEF IsLeaf
    <3> QED
      BY <2>6, <2>9, <2>10, <3>1 DEF Kept
  <2>17. ControlOf(t)'
    BY <1>1, <1>2, <2>1, <2>11, <2>12 DEF ControlOf, recVars
  <2>18. Own(t) = {} /\ Own(t)' = {} /\ Dead(t) = {} /\ Dead(t)' = {}
    BY <1>2, <2>12 DEF Own, Fresh2, Dead
  <2>19. LockMove(t, p)
    BY <1>2, <2>7, <2>8, <2>11, <2>15, <2>16, <2>17, <2>18 DEF LockMove
  <2>20. TypeOK' /\ \A n \in NodeIds : Kept(n)
    BY <1>1, <2>6, <2>19, LockMoveFacts
  <2>21. AtLeaf(V, t)'
    BY <1>1, <2>2, <2>11, <2>12, <2>20, StaysAtLeaf
  <2>22. node'[at'[t].ppred].child[at'[t].pright] = at'[t].pred
    <3>1. at[t].ppred \in NodeIds
      BY <2>1, <2>2 DEF AtLeaf, CameBy
    <3> QED
      BY <1>a, <2>2, <2>9, <2>12, <3>1 DEF ChildIs
  <2>23. node'[at'[t].pred].child[at'[t].right] = at'[t].curr
    BY <1>a, <2>6, <2>9, <2>12 DEF ChildIs
  <2>24. Position(V, t)'
    BY <2>12, <2>21, <2>22, <2>23 DEF Position, AtLeaf
  <2> QED
    BY <2>6, <2>14, <2>19, <2>24, LockMoveInv
<1> QED
  BY <1>a, <1>3, <1>4 DEF LockBoth, Removed

(* t gives a side back: pc says what it does next.                         *)
LEMMA UnlockingKept ==
    ASSUME NEW t \in Threads, NEW p \in NodeIds, NEW q \in Sides, Releases(t, p, q),
           \A u \in Threads \ {t} : SameHold(u)
    PROVE  \A n \in NodeIds, s \in Sides :
               n # p \/ s # q => (Unlocking(n, s)' <=> Unlocking(n, s))
<1> SUFFICES ASSUME NEW n \in NodeIds, NEW s \in Sides, n # p \/ s # q
             PROVE  Unlocking(n, s)' <=> Unlocking(n, s)
  OBVIOUS
<1>1. \A u \in Threads \ {t} : /\ Holds(u, n, s)' <=> Holds(u, n, s)
                               /\ at'[u].pc = "unlock" <=> at[u].pc = "unlock"
  BY DEF SameHold, Ptr
<1>2. ~Holds(t, n, s) /\ ~Holds(t, n, s)'
  BY DEF Releases, Ptr
<1> QED
  BY <1>1, <1>2 DEF Unlocking

LEMMA RevertInv ==
    ASSUME NEW T \in SUBSET NodeIds, NEW lo \in [NodeIds -> Int],
           NEW hi \in [NodeIds -> Int], NEW V \in [Threads -> SUBSET NodeIds],
           Inv(T, lo, hi, V), NEW t \in Threads, Revert(t)
    PROVE  Inv(T, lo, hi, V)'
<1>a. PICK p : p = at[t].ppred
  OBVIOUS
<1>b. PICK q : q = at[t].pright
  OBVIOUS
<1>1. TypeOK /\ ControlInv /\ ControlOf(t) /\ Position(V, t) /\ LockInv(T)
  BY DEF Inv, ControlInv
<1>2. /\ Goto(t, "revert", "retry") /\ UNCHANGED <<benchVars, allocated, recVars>>
      /\ node' = [node EXCEPT ![p].lock = tl_revert(node[p].lock, q)]
  BY <1>a, <1>b DEF Revert
<1>3. at[t].pc = "revert" /\ at'[t].pc = "retry"
  BY <1>1, <1>2, GotoFacts DEF TicketPC
<1>4. op(t) = "remove" /\ t \in inOp /\ p \in Ptr /\ q \in Sides
  BY <1>1, <1>3, <1>a, <1>b DEF ControlOf, TypeOK, Locals
<1>5. Holds(t, p, q) /\ HolderOK(T, t, p, q)
  BY <1>1, <1>3, <1>4, <1>a, <1>b DEF LockInv, Holds, HeldNode, HeldSide
<1>6. /\ p \in T /\ p \in NodeIds /\ node[p].lock \in LockWord /\ ~IsRemoved(p)
      /\ node[p].lock[q].ticket = node[p].lock[q].version + 1
  BY <1>1, <1>5 DEF HolderOK, TypeOK
<1>w. PICK w : w = tl_revert(node[p].lock, q)
  OBVIOUS
<1>7. /\ w \in LockWord /\ w[q].version = node[p].lock[q].version
      /\ w[q].ticket = node[p].lock[q].version
      /\ \A r \in Sides \ {q} : w[r] = node[p].lock[r]
  BY <1>4, <1>6, <1>w, Words
<1>8. node' = [node EXCEPT ![p].lock = w]
  BY <1>2, <1>w
<1>9. /\ node'[p].lock = w
      /\ node' \in [NodeIds -> [key : Nat, child : [Sides -> Ptr], lock : LockWord]]
      /\ \A n \in NodeIds : node'[n].key = node[n].key /\ node'[n].child = node[n].child
      /\ \A n \in NodeIds \ {p} : node'[n] = node[n]
  BY <1>1, <1>6, <1>7, <1>8, SetsLock
<1>10. /\ Moves(t) /\ UNCHANGED <<call, recVars>>
       /\ at' \in [Threads -> Locals]
       /\ op(t)' = op(t) /\ key(t)' = key(t)
       /\ \A u \in Threads \ {t} : SameHold(u)
  BY <1>1, <1>2, GotoMoves DEF TicketPC
<1>11. Releases(t, p, q)
  <2>1. \A n \in Ptr, s \in Sides : Holds(t, n, s) <=> n = p /\ s = q
    BY <1>a, <1>b, <1>3, <1>4 DEF Holds, HeldNode, HeldSide
  <2>2. \A n \in Ptr, s \in Sides : ~Holds(t, n, s)'
    BY <1>3 DEF Holds
  <2>3. \A n \in NodeIds \ {p} : node'[n].lock = node[n].lock
    BY <1>9
  <2> QED
    BY <1>7, <1>9, <2>1, <2>2, <2>3 DEF Releases
<1>12. \A n \in NodeIds, s \in Sides : Unlocking(n, s)' <=> Unlocking(n, s)
  BY <1>3, <1>10, UnlockingSame
<1>13. IsLeaf(p)' <=> IsLeaf(p)
  BY <1>6, <1>9 DEF IsLeaf
<1>14. Kept(p)
  <2>1. \A s \in Sides : node'[p].lock[s].version = node[p].lock[s].version
    BY <1>7, <1>9
  <2> QED
    BY <1>6, <1>9, <1>12, <1>13, <2>1 DEF Kept
<1>15. ControlOf(t)'
  BY <1>1, <1>3, <1>4, <1>10 DEF ControlOf, recVars
<1>16. Own(t) = {} /\ Own(t)' = {} /\ Dead(t) = {} /\ Dead(t)' = {}
  BY <1>3 DEF Own, Fresh2, Dead
<1>17. LockMove(t, p)
  BY <1>2, <1>7, <1>8, <1>10, <1>12, <1>14, <1>15, <1>16 DEF LockMove
<1>18. TypeOK'
  BY <1>1, <1>6, <1>17, LockMoveFacts
<1>19. LockInv(T)'
  <2>1. \A n \in T : IsLeaf(n)' <=> IsLeaf(n)
    BY <1>9 DEF IsLeaf
  <2> QED
    BY <1>1, <1>3, <1>4, <1>6, <1>10, <1>11, <1>18, <2>1, ReleaseLocks
<1>20. Position(V, t)'
  BY <1>3 DEF Position
<1> QED
  BY <1>6, <1>17, <1>19, <1>20, LockMoveInv

LEMMA UnlockInv ==
    ASSUME NEW T \in SUBSET NodeIds, NEW lo \in [NodeIds -> Int],
           NEW hi \in [NodeIds -> Int], NEW V \in [Threads -> SUBSET NodeIds],
           Inv(T, lo, hi, V), NEW t \in Threads, Unlock(t)
    PROVE  Inv(T, lo, hi, V)'
<1>a. PICK p : p = HeldNode(t)
  OBVIOUS
<1>b. PICK q : q = HeldSide(t)
  OBVIOUS
<1>1. TypeOK /\ ControlInv /\ ControlOf(t) /\ Position(V, t) /\ LockInv(T)
  BY DEF Inv, ControlInv
<1>2. PICK to \in {"end", "retireCurr"} :
      /\ Goto(t, "unlock", to) /\ UNCHANGED <<benchVars, allocated, recVars>>
      /\ to = "end" <=> op(t) = "insert"
      /\ node' = [node EXCEPT ![p].lock = tl_unlock(node[p].lock, q)]
  BY <1>a, <1>b DEF Unlock, HeldNode, HeldSide
<1>3. /\ at[t].pc = "unlock" /\ at'[t].pc = to
      /\ at'[t].curr = at[t].curr /\ at'[t].pred = at[t].pred
  BY <1>1, <1>2, GotoFacts DEF TicketPC
<1>4. /\ op(t) \in {"insert", "remove"} /\ t \in inOp /\ p \in Ptr /\ q \in Sides
      /\ call[t] # NoCall
  <2>1. call[t] # NoCall /\ t \in inOp /\ op(t) # "get"
    BY <1>1, <1>3 DEF ControlOf
  <2>2. call[t] \in CallSet
    BY <1>1, <2>1 DEF TypeOK
  <2>3. op(t) \in {"insert", "remove", "get"}
    BY <2>2 DEF CallSet, op
  <2>4. at[t] \in Locals
    BY <1>1 DEF TypeOK
  <2>5. p \in Ptr /\ q \in Sides
    BY <1>a, <1>b, <2>4 DEF HeldNode, HeldSide, Locals
  <2> QED
    BY <2>1, <2>3, <2>5
<1>5. Holds(t, p, q) /\ HolderOK(T, t, p, q)
  BY <1>1, <1>3, <1>4, <1>a, <1>b DEF LockInv, Holds
<1>6. /\ p \in T /\ p \in NodeIds /\ node[p].lock \in LockWord /\ ~IsRemoved(p)
      /\ node[p].lock[q].ticket = node[p].lock[q].version + 1
  BY <1>1, <1>5 DEF HolderOK, TypeOK
<1>w. PICK w : w = tl_unlock(node[p].lock, q)
  OBVIOUS
<1>7. /\ w \in LockWord /\ w[q].version = node[p].lock[q].version + 1
      /\ w[q].ticket = node[p].lock[q].version + 1
      /\ \A r \in Sides \ {q} : w[r] = node[p].lock[r]
  BY <1>4, <1>6, <1>w, Words
<1>8. node' = [node EXCEPT ![p].lock = w]
  BY <1>2, <1>w
<1>9. /\ node'[p].lock = w
      /\ \A n \in NodeIds : node'[n].key = node[n].key /\ node'[n].child = node[n].child
      /\ \A n \in NodeIds \ {p} : node'[n] = node[n]
  BY <1>1, <1>6, <1>7, <1>8, SetsLock
<1>10. /\ Moves(t) /\ UNCHANGED <<call, recVars>>
       /\ at' \in [Threads -> Locals]
       /\ op(t)' = op(t) /\ key(t)' = key(t)
       /\ \A u \in Threads \ {t} : SameHold(u)
  BY <1>1, <1>2, GotoMoves DEF TicketPC
<1>11. Releases(t, p, q)
  <2>1. \A n \in Ptr, s \in Sides : Holds(t, n, s) <=> n = p /\ s = q
    BY <1>a, <1>b, <1>3 DEF Holds
  <2>2. \A n \in Ptr, s \in Sides : ~Holds(t, n, s)'
    BY <1>2, <1>3 DEF Holds
  <2>3. \A n \in NodeIds \ {p} : node'[n].lock = node[n].lock
    BY <1>9
  <2> QED
    BY <1>7, <1>9, <2>1, <2>2, <2>3 DEF Releases
<1>12. \A n \in NodeIds, s \in Sides : n # p \/ s # q => (Unlocking(n, s)' <=> Unlocking(n, s))
  BY <1>4, <1>6, <1>10, <1>11, UnlockingKept
<1>13. IsLeaf(p)' <=> IsLeaf(p)
  BY <1>6, <1>9 DEF IsLeaf
<1>14. Kept(p)
  <2>1. ASSUME NEW s \in Sides
        PROVE  \/ node[p].lock[s].version < node'[p].lock[s].version
               \/ /\ node[p].lock[s].version = node'[p].lock[s].version
                  /\ Unlocking(p, s)' \/ ~Unlocking(p, s)
    <3>1. CASE s = q
      <4>1. node[p].lock[q].version \in Nat
        BY <1>4, <1>6 DEF LockWord
      <4> QED
        BY <1>7, <1>9, <3>1, <4>1
    <3>2. CASE s # q
      BY <1>6, <1>7, <1>9, <1>12, <3>2
    <3> QED
      BY <3>1, <3>2
  <2> QED
    BY <1>6, <1>9, <1>13, <2>1 DEF Kept
<1>15. ControlOf(t)'
  BY <1>1, <1>2, <1>3, <1>4, <1>10 DEF ControlOf, recVars
<1>16. Own(t)' = Own(t) /\ Dead(t)' = Dead(t)
  BY <1>2, <1>3, <1>4, <1>10 DEF Own, Fresh2, Dead
<1>17. LockMove(t, p)
  <2>1. \A n \in NodeIds \ {p}, s \in Sides : Unlocking(n, s)' <=> Unlocking(n, s)
    BY <1>12
  <2> QED
    BY <1>2, <1>7, <1>8, <1>10, <1>14, <1>15, <1>16, <2>1 DEF LockMove
<1>18. TypeOK' /\ \A n \in NodeIds : Kept(n)
  BY <1>1, <1>6, <1>17, LockMoveFacts
<1>19. LockInv(T)'
  <2>1. \A n \in T : IsLeaf(n)' <=> IsLeaf(n)
    BY <1>9 DEF IsLeaf
  <2> QED
    BY <1>1, <1>2, <1>3, <1>4, <1>6, <1>10, <1>11, <1>18, <2>1, ReleaseLocks
<1>20. Position(V, t)'
  <2>1. CASE to = "end"
    BY <1>3, <2>1 DEF Position
  <2>2. CASE to = "retireCurr"
    <3>1. op(t) = "remove"
      BY <1>2, <1>4, <2>2
    <3>2. /\ at[t].curr \in V[t] /\ IsLeaf(at[t].curr)
          /\ at[t].pred \in V[t] /\ ~IsLeaf(at[t].pred)
      BY <1>1, <1>3, <3>1 DEF Position
    <3>3. \A n \in V[t] : IsLeaf(n)' <=> IsLeaf(n)
      BY <1>18 DEF Kept
    <3>4. PICK c, d : c = at[t].curr /\ d = at[t].pred
      OBVIOUS
    <3>5. c \in V[t] /\ IsLeaf(c)' /\ d \in V[t] /\ ~IsLeaf(d)'
      BY <3>2, <3>3, <3>4
    <3> QED
      BY <1>3, <2>2, <3>4, <3>5 DEF Position
  <2> QED
    BY <2>1, <2>2
<1> QED
  BY <1>6, <1>17, <1>19, <1>20, LockMoveInv

-----------------------------------------------------------------------------
(* Insertion                                                               *)

(* Whatever has been on the way of an operation is still allocated.        *)
LEMMA WayAllocated ==
    ASSUME NEW T \in SUBSET NodeIds, NEW lo \in [NodeIds -> Int],
           NEW hi \in [NodeIds -> Int], NEW V \in [Threads -> SUBSET NodeIds],
           Inv(T, lo, hi, V), NEW t \in inOp, NEW n \in V[t]
    PROVE  n \in allocated
<1>1. WayInv(T, lo, hi, V) /\ OwnInv(T)
  BY DEF Inv
<1>2. Located(T, t, n)
  BY <1>1 DEF WayInv, WayOf, OnWay
<1>3. \A u \in Threads : Dead(u) \subseteq allocated
  BY <1>1 DEF OwnInv, Own
<1> QED
  BY <1>1, <1>2, <1>3 DEF Located, OwnInv

(* The two nodes an insertion allocates.                                   *)
LEMMA FreshNodes ==
    ASSUME TypeOK, Cardinality(NodeIds \ allocated) >= 2,
           NEW f, f = Fresh(allocated), NEW r, r = Fresh(allocated \cup {f})
    PROVE  /\ f \in NodeIds /\ f \notin allocated
           /\ r \in NodeIds /\ r \notin allocated /\ r # f
<1> DEFINE S == NodeIds \ allocated
<1>1. IsFiniteSet(S) /\ S \in SUBSET Nat
  <2>1. IsFiniteSet(NodeIds)
    BY TicketAssumption, FS_Interval DEF NodeIds
  <2>2. NodeIds \subseteq Nat
    BY Constants
  <2> QED
    BY <2>1, <2>2, FS_Subset
<1>2. S # {}
  BY FS_EmptySet
<1>3. f \in S
  BY <1>1, <1>2, LeastElement DEF Fresh
<1>4. S \ {f} # {}
  <2> SUFFICES ASSUME S \ {f} = {} PROVE FALSE
    OBVIOUS
  <2>1. S = {f}
    BY <1>3
  <2>2. Cardinality(S) = 1
    BY <2>1, FS_Singleton
  <2> QED
    BY <2>2
<1>5. r \in S \ {f}
  <2>1. NodeIds \ (allocated \cup {f}) = S \ {f}
    OBVIOUS
  <2>2. S \ {f} \in SUBSET Nat
    BY <1>1
  <2>3. r = Min(S \ {f})
    BY <2>1 DEF Fresh
  <2> HIDE DEF S
  <2> QED
    BY <1>4, <2>2, <2>3, LeastElement
<1> QED
  BY <1>3, <1>5

(* What the allocation and the lock leave in the heap.                     *)
Builds(p, w, c, k, f, r) ==
    node' = [node EXCEPT ![f] = Leaf(k), ![r] = NewInternal(k, c, f), ![p].lock = w]

LEMMA BuildFacts ==
    ASSUME TypeOK, NEW p \in NodeIds, NEW w \in LockWord, NEW c \in NodeIds,
           NEW k \in Nat, NEW f \in NodeIds, NEW r \in NodeIds,
           p # f, p # r, f # r, Builds(p, w, c, k, f, r)
    PROVE  /\ node' \in [NodeIds -> [key : Nat, child : [Sides -> Ptr], lock : LockWord]]
           /\ \A n \in NodeIds : node'[n].child[0] = NULL <=> node'[n].child[1] = NULL
           /\ node'[f] = Leaf(k) /\ node'[r] = NewInternal(k, c, f)
           /\ node'[p].lock = w
           /\ \A n \in NodeIds \ {f, r} : node'[n].key = node[n].key /\ node'[n].child = node[n].child
           /\ \A n \in NodeIds \ {f, r, p} : node'[n] = node[n]
           /\ node'[f].lock = Unlocked /\ node'[r].lock = Unlocked
           /\ node'[r].child[IF k < node[c].key THEN 0 ELSE 1] = f
<1> DEFINE N == [key : Nat, child : [Sides -> Ptr], lock : LockWord]
<1>1. node \in [NodeIds -> N] /\ node[p] \in N /\ node[c].key \in Nat
  BY DEF TypeOK
<1>2. Unlocked \in LockWord /\ NULL \in Ptr /\ c \in Ptr /\ f \in Ptr
  BY Constants DEF Unlocked, LockWord, Ptr
<1>x. PICK x : x = Leaf(k)
  OBVIOUS
<1>y. PICK y : y = NewInternal(k, c, f)
  OBVIOUS
<1>z. PICK z : z = [node[p] EXCEPT !.lock = w]
  OBVIOUS
<1>3. x \in N /\ x.lock = Unlocked /\ x.child[0] = NULL /\ x.child[1] = NULL
  BY <1>2, <1>x DEF Leaf, Sides
<1>4. /\ y \in N /\ y.lock = Unlocked
      /\ y.child[0] \in {c, f} /\ y.child[1] \in {c, f}
      /\ y.child[IF k < node[c].key THEN 0 ELSE 1] = f
  BY <1>1, <1>2, <1>y DEF NewInternal, Internal, Sides
<1>5. z \in N /\ z.lock = w /\ z.key = node[p].key /\ z.child = node[p].child
  BY <1>1, <1>z
<1>6. /\ node' \in [NodeIds -> N]
      /\ node'[f] = x /\ node'[r] = y /\ node'[p] = z
      /\ \A n \in NodeIds \ {f, r, p} : node'[n] = node[n]
  <2>1. node' = [node EXCEPT ![f] = x, ![r] = y, ![p] = [@ EXCEPT !.lock = w]]
    BY <1>x, <1>y DEF Builds
  <2>2. node' = [node EXCEPT ![f] = x, ![r] = y, ![p] = z]
    BY <1>1, <1>z, <2>1
  <2> HIDE DEF N
  <2> QED
    BY <1>1, <1>3, <1>4, <1>5, <2>2
<1>7. \A n \in NodeIds : node'[n].child[0] = NULL <=> node'[n].child[1] = NULL
  <2>1. c # NULL /\ f # NULL
    BY Constants
  <2>2. \A n \in NodeIds : node[n].child[0] = NULL <=> node[n].child[1] = NULL
    BY DEF TypeOK
  <2>3. x.child[0] = NULL /\ x.child[1] = NULL /\ y.child[0] # NULL /\ y.child[1] # NULL
    BY <1>3, <1>4, <2>1
  <2> TAKE n \in NodeIds
  <2>4. CASE n = f
    BY <1>6, <2>3, <2>4
  <2>5. CASE n = r
    BY <1>6, <2>3, <2>5
  <2>6. CASE n = p
    BY <1>5, <1>6, <2>2, <2>6
  <2>7. CASE n \notin {f, r, p}
    BY <1>6, <2>2, <2>7
  <2> QED
    BY <2>4, <2>5, <2>6, <2>7
<1> QED
  BY <1>x, <1>y, <1>3, <1>4, <1>5, <1>6, <1>7

LEMMA LockPredInv ==
    ASSUME NEW T \in SUBSET NodeIds, NEW lo \in [NodeIds -> Int],
           NEW hi \in [NodeIds -> Int], NEW V \in [Threads -> SUBSET NodeIds],
           Inv(T, lo, hi, V), NoWrap, NEW t \in Threads, LockPred(t)
    PROVE  Inv(T, lo, hi, V)'
<1>a. PICK p : p = at[t].pred
  OBVIOUS
<1>b. PICK q : q = at[t].right
  OBVIOUS
<1>c. PICK c : c = at[t].curr
  OBVIOUS
<1>f. PICK f : f = Fresh(allocated)
  OBVIOUS
<1>r. PICK r : r = Fresh(allocated \cup {f})
  OBVIOUS
<1>k. PICK k : k = key(t)
  OBVIOUS
<1>w. PICK w : w = Locked(node[p].lock, q)
  OBVIOUS
<1> DEFINE B == Threads \ {t}
<1>1. /\ TypeOK /\ ControlInv /\ ControlOf(t) /\ Position(V, t) /\ LockInv(T)
      /\ OwnInv(T)
  BY DEF Inv, ControlInv
<1>2. /\ at[t].pc = "lock" /\ UNCHANGED <<benchVars, recVars>>
      /\ Cardinality(NodeIds \ allocated) >= 2
  BY DEF LockPred
<1>3. CASE Goto(t, "lock", "retry") /\ UNCHANGED <<node, allocated>>
  BY <1>2, <1>3, FailingStep
<1>4. CASE /\ tl_trylock_version(node[p].lock, at[t].pred_ver, q)
           /\ Builds(p, w, c, k, f, r)
           /\ allocated' = allocated \cup {f, r}
           /\ at' = [at EXCEPT ![t].pc = "link", ![t].nr = r]
  <2>1. op(t) = "insert" /\ t \in inOp /\ call[t] # NoCall
    BY <1>1, <1>2 DEF ControlOf
  <2>2. AtLeaf(V, t)
    BY <1>1, <1>2 DEF Position, AtLeaf
  <2>3. CameBy(V, t, p, q, at[t].pred_ver, c) /\ c \in V[t] /\ IsLeaf(c)
    BY <1>a, <1>b, <1>c, <2>2 DEF AtLeaf
  <2>4. at[t].pred_ver \in LockWord /\ q \in Sides
    BY <1>1, <1>b DEF TypeOK, Locals
  <2>5. /\ p \in NodeIds /\ p \in T /\ ~IsLeaf(p) /\ ~IsRemoved(p)
        /\ node[p].lock \in LockWord
        /\ node[p].lock[q].version = node[p].lock[q].ticket
        /\ ChildIs(p, q, c)
    BY <1>4, <2>1, <2>3, <2>4, CasFinds
  <2>6. /\ w \in LockWord /\ w[q].version = node[p].lock[q].version
        /\ w[q].ticket = node[p].lock[q].version + 1
        /\ \A s \in Sides \ {q} : w[s] = node[p].lock[s]
    BY <2>4, <2>5, <1>w, Words DEF NoWrap
  <2>7. /\ f \in NodeIds /\ f \notin allocated
        /\ r \in NodeIds /\ r \notin allocated /\ r # f
    BY <1>1, <1>2, <1>f, <1>r, FreshNodes
  <2>8. T \subseteq allocated /\ p # f /\ p # r /\ c \in NodeIds /\ c \in allocated
    <3>1. T \subseteq allocated
      BY <1>1 DEF OwnInv
    <3>2. c \in allocated
      BY <2>1, <2>3, WayAllocated
    <3> QED
      BY <1>1, <2>5, <2>7, <3>1, <3>2 DEF TypeOK
  <2>9. k \in Nat /\ k \in Keys
    <3>1. call[t] \in CallSet
      BY <1>1, <2>1 DEF TypeOK
    <3>2. k \in Keys
      BY <3>1, <1>k DEF CallSet, key
    <3> QED
      BY <3>2, Constants
  <2>10. /\ node' \in [NodeIds -> [key : Nat, child : [Sides -> Ptr], lock : LockWord]]
         /\ \A n \in NodeIds : node'[n].child[0] = NULL <=> node'[n].child[1] = NULL
         /\ node'[f] = Leaf(k) /\ node'[r] = NewInternal(k, c, f)
         /\ node'[p].lock = w
         /\ \A n \in NodeIds \ {f, r} : node'[n].key = node[n].key /\ node'[n].child = node[n].child
         /\ \A n \in NodeIds \ {f, r, p} : node'[n] = node[n]
         /\ node'[f].lock = Unlocked /\ node'[r].lock = Unlocked
         /\ node'[r].child[IF k < node[c].key THEN 0 ELSE 1] = f
    BY SMTT(30), <1>1, <1>4, <2>5, <2>6, <2>7, <2>8, <2>9, BuildFacts
  <2>11. /\ at' \in [Threads -> Locals] /\ at' = [at EXCEPT ![t] = at'[t]]
         /\ at'[t].pc = "link" /\ at'[t].nr = r
         /\ at'[t].curr = at[t].curr
         /\ at'[t].pred = at[t].pred /\ at'[t].ppred = at[t].ppred
         /\ at'[t].pred_ver = at[t].pred_ver /\ at'[t].ppred_ver = at[t].ppred_ver
         /\ at'[t].right = at[t].right /\ at'[t].pright = at[t].pright
    <3>1. at \in [Threads -> Locals] /\ at[t] \in Locals
      BY <1>1 DEF TypeOK
    <3>2. at'[t] = [at[t] EXCEPT !.pc = "link", !.nr = r] /\ at' = [at EXCEPT ![t] = at'[t]]
      BY <1>4, <3>1
    <3>3. at'[t] \in Locals
      BY <2>7, <3>1, <3>2 DEF Locals, TicketPC, Ptr
    <3>4. at' \in [Threads -> Locals]
      BY <3>1, <3>2, <3>3
    <3>5. /\ at'[t].pc = "link" /\ at'[t].nr = r
          /\ at'[t].curr = at[t].curr
          /\ at'[t].pred = at[t].pred /\ at'[t].ppred = at[t].ppred
          /\ at'[t].pred_ver = at[t].pred_ver /\ at'[t].ppred_ver = at[t].ppred_ver
          /\ at'[t].right = at[t].right /\ at'[t].pright = at[t].pright
      BY <3>1, <3>2 DEF Locals
    <3> QED
      BY <3>2, <3>4, <3>5
  <2>12. /\ call' = call /\ UNCHANGED <<mpc, stage, tpc, inOp, limbo, waits>>
         /\ op(t)' = op(t) /\ key(t)' = key(t)
    BY <1>2 DEF benchVars, recVars, op, key
  <2>13. TypeOK'
    <3>1. allocated' \subseteq NodeIds
      BY <1>1, <1>4, <2>7 DEF TypeOK
    <3> QED
      BY <1>1, <2>10, <2>11, <2>12, <3>1 DEF TypeOK
  <2>14. \A u \in Threads \ {t} : Bystander(u)
    BY <1>1, <2>11, <2>12, MoveOthers
  <2>15. ControlInv'
    <3>1. ControlOf(t)'
      BY <1>1, <1>2, <2>1, <2>11, <2>12 DEF ControlOf
    <3>2. Moves(t)
      BY <2>1, <2>12, <2>14 DEF Moves
    <3> QED
      BY <1>1, <3>1, <3>2, MoveControl
  <2>16. \A u \in Threads \ {t} : SameHold(u)
    BY <2>14, BystanderHold
  <2>17. Acquires(t, p, q)
    <3>1. \A n \in Ptr, s \in Sides : ~Holds(t, n, s)
      BY <1>2 DEF Holds
    <3>2. \A n \in Ptr, s \in Sides : Holds(t, n, s)' <=> n = p /\ s = q
      BY <1>a, <1>b, <2>1, <2>11, <2>12 DEF Holds, HeldNode, HeldSide
    <3> QED
      BY <2>5, <2>6, <2>10, <3>1, <3>2 DEF Acquires
  <2>18. LockInv(T)' /\ ~IsRemoved(p)'
    <3>1. \A n \in T : IsLeaf(n)' <=> IsLeaf(n)
      BY <2>7, <2>8, <2>10 DEF IsLeaf
    <3>2. \A n \in NodeIds \ {p} : \/ node'[n].lock = node[n].lock
                                   \/ node'[n].lock = Unlocked /\ n \notin T
      BY <2>7, <2>8, <2>10
    <3> QED
      BY <1>1, <1>2, <2>4, <2>5, <2>11, <2>16, <2>17, <3>1, <3>2, AcquireLocks
  <2>19. \A n \in NodeIds, s \in Sides : Unlocking(n, s)' <=> Unlocking(n, s)
    BY <1>2, <2>11, <2>16, UnlockingSame
  <2>20. ASSUME NEW n \in allocated PROVE Stays(n)
    <3>1. n \in NodeIds /\ n # f /\ n # r
      BY <1>1, <2>7 DEF TypeOK
    <3>2. /\ node'[n].key = node[n].key /\ node'[n].child = node[n].child
          /\ IsLeaf(n)' <=> IsLeaf(n)
      BY <2>10, <3>1 DEF IsLeaf
    <3>3. IsRemoved(n) => IsRemoved(n)'
      BY <2>5, <2>10, <3>1 DEF IsRemoved, TLN_REMOVED
    <3>4. \A s \in Sides : node'[n].lock[s].version = node[n].lock[s].version
      BY <2>4, <2>6, <2>10, <3>1
    <3> QED
      BY <2>19, <3>1, <3>2, <3>3, <3>4 DEF Stays, Kept
  <2>21. Own(t) = {} /\ Dead(t) = {} /\ Dead(t)' = {}
    BY <1>2, <2>11 DEF Own, Fresh2, Dead
  <2>22. Frame(T, V, B)
    <3>1. \A u \in inOp : \A n \in V[u] : Stays(n)
      BY <2>20, WayAllocated
    <3>2. \A n \in T : Stays(n)
      BY <2>8, <2>20
    <3>3. ASSUME NEW u \in B, NEW n \in Fresh2(u) PROVE node'[n] = node[n]
      <4>1. n \in allocated /\ n \notin T
        BY <1>1 DEF OwnInv, Own
      <4>2. n \in NodeIds \ {f, r, p}
        BY <1>1, <2>5, <2>7, <4>1 DEF TypeOK
      <4> QED
        BY <2>10, <4>2
    <3> QED
      BY <2>12, <2>14, <2>21, <3>1, <3>2, <3>3 DEF Frame
  <2>23. /\ Shape(T, lo, hi)'
         /\ \A u \in B : Position(V, u)' /\ Own(u)' = Own(u)
         /\ \A u \in inOp' : u \in inOp /\ CallKept(u) => WayOf(T, lo, hi, V, u)'
         /\ \A u \in Threads : CallKept(u) => SeenOf(T, u)'
    <3>1. B \in SUBSET Threads
      OBVIOUS
    <3> HIDE DEF B
    <3> QED
      BY <2>13, <2>22, <3>1, FrameStep
  <2>24. \A u \in Threads : CallKept(u)
    BY <2>12 DEF CallKept
  <2>25. WayInv(T, lo, hi, V)'
    BY <1>1, <2>12, <2>23, <2>24 DEF WayInv, TypeOK
  <2>26. SeenInv(T)'
    BY <2>23, <2>24 DEF SeenInv
  <2>27. node'[c].key = node[c].key
    BY <2>7, <2>8, <2>10
  <2>28. NewLeaf(t)' = f
    <3>1. NewLeaf(t)' = node'[r].child[IF k < node'[c].key THEN 0 ELSE 1]
      BY <1>c, <1>k, <2>11, <2>12 DEF NewLeaf
    <3> QED
      BY <2>10, <2>27, <3>1
  <2>29. OwnInv(T)'
    <3>1. Own(t)' = {r, f}
      BY <2>11, <2>21, <2>28 DEF Own, Fresh2
    <3>2. \A u \in B : Own(u)' = Own(u) /\ Own(u) \subseteq allocated \ (T \cup limbo)
      BY <1>1, <2>23 DEF OwnInv
    <3>3. r \notin T \cup limbo /\ f \notin T \cup limbo
      BY <1>1, <2>7, <2>8 DEF OwnInv
    <3>4. ASSUME NEW u \in Threads PROVE Own(u)' \subseteq (allocated \ (T \cup limbo))'
      BY <1>4, <2>12, <3>1, <3>2, <3>3
    <3>5. ASSUME NEW u \in Threads, NEW v \in Threads, u # v PROVE Own(u)' \cap Own(v)' = {}
      BY <1>1, <2>7, <3>1, <3>2, <3>5 DEF OwnInv
    <3> QED
      BY <1>1, <1>4, <2>12, <3>4, <3>5 DEF OwnInv
  <2>30. AtLeaf(V, t)'
    <3>1. \A n \in V[t] : Kept(n)
      BY <2>1, <2>20, WayAllocated DEF Stays
    <3> QED
      BY <1>1, <2>2, <2>11, <2>12, <2>13, <3>1, StaysAtLeaf
  <2>31. node'[at'[t].pred].child[at'[t].right] = at'[t].curr
    BY <1>a, <1>b, <1>c, <2>5, <2>7, <2>8, <2>10, <2>11 DEF ChildIs
  <2>32. /\ at'[t].nr \in NodeIds /\ NewLeaf(t)' \in NodeIds
         /\ node'[NewLeaf(t)'] = Leaf(key(t))'
         /\ node'[at'[t].nr] = NewInternal(key(t), at[t].curr, NewLeaf(t))'
    <3>1. NewInternal(key(t), at[t].curr, NewLeaf(t))' = NewInternal(k, c, f)'
      BY <1>c, <1>k, <2>11, <2>12, <2>28 DEF NewInternal
    <3>2. NewInternal(k, c, f)' = NewInternal(k, c, f)
      BY <2>27 DEF NewInternal, Internal, Unlocked
    <3>3. Leaf(key(t))' = Leaf(k)
      BY <1>k, <2>12 DEF Leaf, Unlocked
    <3> QED
      BY <2>7, <2>10, <2>11, <2>28, <3>1, <3>2, <3>3
  <2>33. Position(V, t)'
    BY <2>11, <2>30, <2>31, <2>32 DEF Position, AtLeaf
  <2> QED
    BY <2>13, <2>15, <2>18, <2>23, <2>25, <2>26, <2>29, <2>33 DEF Inv
<1> QED
  BY <1>a, <1>b, <1>c, <1>f, <1>r, <1>k, <1>w, <1>3, <1>4 DEF LockPred, Builds

-----------------------------------------------------------------------------
(* Linking and unlinking                                                   *)

LEMMA EffectFacts ==
    ASSUME TypeOK, NEW t \in Threads, call[t] # NoCall, NEW there \in BOOLEAN,
           Effect(t, there)
    PROVE  /\ call' \in [Threads -> CallSet \cup {NoCall}]
           /\ \A u \in Threads : CallKept(u) /\ (call[u] # NoCall => call'[u] # NoCall)
           /\ \A u \in Threads \ {t} :
                 /\ call'[u].result = call[u].result
                 /\ call[u] # NoCall /\ call[u].key = key(t) => there \in call'[u].seen
           /\ call'[t].result = "success" /\ call'[t].op = call[t].op
           /\ call'[t].key = call[t].key
<1>1. call \in [Threads -> CallSet \cup {NoCall}] /\ call[t] \in CallSet
  BY DEF TypeOK
<1>2. \A c \in CallSet : c # NoCall
  BY DEF CallSet, NoCall
<1>3. call'[t] = [call[t] EXCEPT !.result = "success"] /\ DOMAIN call' = Threads
      /\ call' = [u \in Threads |-> call'[u]]
  BY DEF Effect
<1>4. /\ call'[t] \in CallSet /\ call'[t].result = "success"
      /\ call'[t].op = call[t].op /\ call'[t].key = call[t].key
      /\ call'[t].seen = call[t].seen
  BY <1>1, <1>3 DEF CallSet
<1>5. ASSUME NEW u \in Threads \ {t}
      PROVE  /\ call'[u] \in CallSet \cup {NoCall}
             /\ call[u] # NoCall <=> call'[u] # NoCall
             /\ call'[u].op = call[u].op /\ call'[u].key = call[u].key
             /\ call[u].seen \subseteq call'[u].seen
             /\ call'[u].result = call[u].result
             /\ call[u] # NoCall /\ call[u].key = key(t) => there \in call'[u].seen
  <2>1. call'[u] = IF call[u] # NoCall /\ call[u].key = call[t].key
                   THEN [call[u] EXCEPT !.seen = @ \cup {there}] ELSE call[u]
    BY DEF Effect
  <2>2. CASE call[u] # NoCall /\ call[u].key = call[t].key
    <3>1. call[u] \in CallSet
      BY <1>1, <2>2
    <3>2. call'[u] = [call[u] EXCEPT !.seen = call[u].seen \cup {there}]
      BY <2>1, <2>2
    <3>3. /\ call'[u] \in CallSet /\ call'[u].seen = call[u].seen \cup {there}
          /\ call'[u].op = call[u].op /\ call'[u].key = call[u].key
          /\ call'[u].result = call[u].result
      BY <3>1, <3>2 DEF CallSet
    <3> QED
      BY <1>2, <2>2, <3>3
  <2>3. CASE ~(call[u] # NoCall /\ call[u].key = call[t].key)
    <3>1. call'[u] = call[u]
      BY <2>1, <2>3
    <3> QED
      BY <1>1, <2>3, <3>1 DEF key
  <2> QED
    BY <2>2, <2>3
<1>6. call' \in [Threads -> CallSet \cup {NoCall}]
  <2>1. \A u \in Threads : call'[u] \in CallSet \cup {NoCall}
    BY <1>4, <1>5
  <2> QED
    BY <1>3, <2>1
<1>7. ASSUME NEW u \in Threads PROVE CallKept(u) /\ (call[u] # NoCall => call'[u] # NoCall)
  <2>1. CASE u = t
    BY <1>2, <1>4, <2>1 DEF CallKept
  <2>2. CASE u # t
    BY <1>5, <2>2 DEF CallKept
  <2> QED
    BY <2>1, <2>2
<1> QED
  BY <1>4, <1>5, <1>6, <1>7

LEMMA ChildFacts ==
    ASSUME TypeOK, NEW g \in NodeIds, NEW s \in Sides, NEW x \in NodeIds,
           ~IsLeaf(g), SetsChild(g, s, x)
    PROVE  /\ node' \in [NodeIds -> [key : Nat, child : [Sides -> Ptr], lock : LockWord]]
           /\ \A n \in NodeIds : node'[n].child[0] = NULL <=> node'[n].child[1] = NULL
           /\ \A n \in NodeIds : /\ node'[n].key = node[n].key /\ node'[n].lock = node[n].lock
                                 /\ IsLeaf(n)' <=> IsLeaf(n)
           /\ node'[g].child[s] = x
           /\ \A r \in Sides \ {s} : node'[g].child[r] = node[g].child[r]
           /\ \A n \in NodeIds \ {g} : node'[n] = node[n]
<1> DEFINE N == [key : Nat, child : [Sides -> Ptr], lock : LockWord]
<1>1. node \in [NodeIds -> N] /\ node[g] \in N /\ node[g].child \in [Sides -> Ptr]
  BY DEF TypeOK
<1>2. x \in Ptr /\ x # NULL
  BY Constants DEF Ptr
<1>y. PICK y : y = [node[g].child EXCEPT ![s] = x]
  OBVIOUS
<1>3. y \in [Sides -> Ptr] /\ y[s] = x /\ \A r \in Sides \ {s} : y[r] = node[g].child[r]
  BY <1>1, <1>2, <1>y
<1>z. PICK z : z = [node[g] EXCEPT !.child = y]
  OBVIOUS
<1>4. z \in N /\ z.child = y /\ z.key = node[g].key /\ z.lock = node[g].lock
  BY <1>1, <1>3, <1>z
<1>5. node' = [node EXCEPT ![g] = z]
  BY <1>1, <1>y, <1>z DEF SetsChild
<1>6. /\ node' \in [NodeIds -> N] /\ node'[g] = z
      /\ \A n \in NodeIds \ {g} : node'[n] = node[n]
  <2> HIDE DEF N
  <2> QED
    BY <1>1, <1>4, <1>5
<1>7. node[g].child[0] # NULL /\ node[g].child[1] # NULL
  BY DEF IsLeaf, TypeOK
<1>8. y[0] # NULL /\ y[1] # NULL
  BY <1>2, <1>3, <1>7 DEF Sides
<1>9. \A n \in NodeIds : node'[n].child[0] = NULL <=> node'[n].child[1] = NULL
  <2>1. \A n \in NodeIds : node[n].child[0] = NULL <=> node[n].child[1] = NULL
    BY DEF TypeOK
  <2> QED
    BY <1>4, <1>6, <1>8, <2>1
<1>10. \A n \in NodeIds : IsLeaf(n)' <=> IsLeaf(n)
  BY <1>4, <1>6, <1>7, <1>8 DEF IsLeaf
<1> QED
  BY <1>3, <1>4, <1>6, <1>9, <1>10

LEMMA TreeLocks ==
    ASSUME TypeOK, NEW T \in SUBSET NodeIds, LockInv(T), NEW T2 \in SUBSET NodeIds,
           \A u \in Threads, n \in Ptr, s \in Sides : Holds(u, n, s)' <=> Holds(u, n, s),
           \A n \in NodeIds : node'[n].lock = node[n].lock /\ (IsLeaf(n)' <=> IsLeaf(n)),
           \A n \in T : ~IsLeaf(n) /\ ~IsRemoved(n) => n \in T2,
           \A n \in T2 : IsRemoved(n) => \E u \in Threads : Unlinks(u, n)',
           \A u \in Threads, n \in Ptr : Unlinks(u, n)' => Unlinks(u, n) /\ n \in T2
    PROVE  LockInv(T2)'
<1>2. \A n \in NodeIds : IsRemoved(n)' <=> IsRemoved(n)
  BY DEF IsRemoved, TLN_REMOVED
<1>3. ASSUME NEW t \in Threads, NEW n \in Ptr, NEW s \in Sides, Holds(t, n, s)'
      PROVE  HolderOK(T2, t, n, s)'
  <2>1. HolderOK(T, t, n, s)
    BY <1>3 DEF LockInv
  <2>2. \A u \in Threads : Holds(u, n, s)' => u = t
    BY <2>1 DEF HolderOK
  <2> QED
    BY <2>1, <2>2, <1>2 DEF HolderOK
<1>4. ASSUME NEW n \in NodeIds, NEW s \in Sides PROVE FreeOrHeld(n, s)'
  <2>1. FreeOrHeld(n, s) /\ n \in Ptr
    BY DEF LockInv, Ptr
  <2> QED
    BY <1>2, <2>1 DEF FreeOrHeld
<1>6. \A n \in T2 : IsRemoved(n)' => \E t \in Threads : Unlinks(t, n)'
  BY <1>2
<1>7. ASSUME NEW t \in Threads, NEW n \in Ptr, Unlinks(t, n)'
      PROVE  n \in T2 /\ IsRemoved(n)' /\ \A u \in Threads : Unlinks(u, n)' => u = t
  BY <1>2, <1>7 DEF LockInv
<1> QED
  BY <1>3, <1>4, <1>6, <1>7 DEF LockInv

(* t, which holds side s of g, makes x the child there.                    *)
Switches(t, g, s, x, there) ==
    /\ at[t].pc \in {"link", "unlink"} /\ Goto(t, at[t].pc, "unlock")
    /\ Holds(t, g, s) /\ SetsChild(g, s, x) /\ Effect(t, there)
    /\ UNCHANGED <<loopVars, allocated, recVars>>

(* How the tree is afterwards.                                             *)
TreeChange(T, lo, hi, t, T2, lo2, hi2, there) ==
    /\ Shape(T2, lo2, hi2)'
    /\ \A n \in T \cap T2 : ~IsLeaf(n) => lo2[n] <= lo[n] /\ hi[n] <= hi2[n]
    /\ \A n \in T \ T2 : n \in Dead(t)' /\ (IsLeaf(n) \/ Unlinks(t, n))
    /\ \A n \in T2 : ~Unlinks(t, n)
    /\ T2 \ T \subseteq Own(t) /\ \A n \in T2 \ T : ~IsRemoved(n)
    /\ Own(t)' \subseteq T \ T2 /\ Dead(t) = {}
    /\ \A j \in Keys : j \in Contents(T2)' <=>
                           IF j = key(t) THEN there ELSE j \in Contents(T)

(* What such a step leaves alone.                                          *)
Switched(T, t, g, s, there) ==
    /\ TypeOK' /\ ControlInv' /\ HolderOK(T, t, g, s)
    /\ at'[t].pc = "unlock" /\ at'[t].curr = at[t].curr /\ at'[t].pred = at[t].pred
    /\ op(t)' = op(t) /\ UNCHANGED <<allocated, inOp, limbo, waits>>
    /\ call'[t].result = "success" /\ call[t] # NoCall
    /\ \A u \in Threads : CallKept(u) /\ key(u)' = key(u)
    /\ \A u \in Threads \ {t} : Bystander(u)
    /\ \A u \in Threads \ {t} : SameHold(u)
    /\ \A u \in Threads \ {t} :
          call[u] # NoCall /\ key(u) = key(t) => there \in call'[u].seen
    /\ \A u \in Threads, n \in Ptr, r \in Sides : Holds(u, n, r)' <=> Holds(u, n, r)

LEMMA SwitchFacts ==
    ASSUME NEW T \in SUBSET NodeIds, NEW lo \in [NodeIds -> Int],
           NEW hi \in [NodeIds -> Int], NEW V \in [Threads -> SUBSET NodeIds],
           Inv(T, lo, hi, V), NEW t \in Threads, NEW g \in NodeIds, NEW s \in Sides,
           NEW x \in NodeIds, NEW there \in BOOLEAN, Switches(t, g, s, x, there)
    PROVE  Switched(T, t, g, s, there)
<1>1. TypeOK /\ ControlInv /\ ControlOf(t) /\ LockInv(T)
  BY DEF Inv, ControlInv
<1>2. /\ at[t].pc \in {"link", "unlink"} /\ Goto(t, at[t].pc, "unlock")
      /\ Holds(t, g, s) /\ SetsChild(g, s, x) /\ Effect(t, there)
      /\ UNCHANGED <<mpc, stage, tpc, allocated, inOp, limbo, waits>>
  BY DEF Switches, loopVars, recVars
<1>3. HolderOK(T, t, g, s)
  BY <1>1, <1>2 DEF LockInv, Ptr
<1>4. call[t] # NoCall /\ op(t) \in {"insert", "remove"} /\ t \in inOp
  BY <1>1, <1>2 DEF ControlOf
<1>5. /\ call' \in [Threads -> CallSet \cup {NoCall}]
      /\ \A u \in Threads : CallKept(u) /\ (call[u] # NoCall => call'[u] # NoCall)
      /\ \A u \in Threads \ {t} :
            /\ call'[u].result = call[u].result
            /\ call[u] # NoCall /\ call[u].key = key(t) => there \in call'[u].seen
      /\ call'[t].result = "success" /\ call'[t].op = call[t].op
      /\ call'[t].key = call[t].key
  BY <1>1, <1>2, <1>4, EffectFacts
<1>6. /\ at'[t].pc = "unlock"
      /\ at' \in [Threads -> Locals] /\ at' = [at EXCEPT ![t] = at'[t]]
      /\ at'[t].curr = at[t].curr
      /\ at'[t].pred = at[t].pred /\ at'[t].ppred = at[t].ppred
      /\ at'[t].right = at[t].right /\ at'[t].pright = at[t].pright
  BY <1>1, <1>2, GotoFacts DEF TicketPC
<1>7. ASSUME NEW u \in Threads \ {t} PROVE Bystander(u)
  <2>1. at'[u] = at[u]
    BY <1>1, <1>6 DEF TypeOK
  <2> QED
    BY <1>2, <1>5, <2>1 DEF Bystander
<1>8. \A u \in Threads \ {t} : SameHold(u)
  BY <1>7, BystanderHold
<1>9. op(t)' = op(t) /\ \A u \in Threads : key(u)' = key(u)
  BY <1>5 DEF op, key, CallKept
<1>10. ControlInv'
  <2>1. ControlOf(t)'
    BY <1>1, <1>2, <1>4, <1>5, <1>6, <1>9 DEF ControlOf
  <2>2. Moves(t)
    BY <1>2, <1>4, <1>5, <1>7 DEF Moves
  <2> QED
    BY <1>1, <2>1, <2>2, MoveControl
<1>11. TypeOK'
  <2>1. /\ node' \in [NodeIds -> [key : Nat, child : [Sides -> Ptr], lock : LockWord]]
        /\ \A n \in NodeIds : node'[n].child[0] = NULL <=> node'[n].child[1] = NULL
    BY <1>1, <1>2, <1>3, ChildFacts DEF HolderOK
  <2> QED
    BY <1>1, <1>2, <1>5, <1>6, <2>1 DEF TypeOK
<1>12. ASSUME NEW n \in Ptr, NEW r \in Sides PROVE Holds(t, n, r)' <=> Holds(t, n, r)
  BY <1>2, <1>6, <1>9 DEF Holds, HeldNode, HeldSide
<1>13. \A u \in Threads, n \in Ptr, r \in Sides : Holds(u, n, r)' <=> Holds(u, n, r)
  BY <1>8, <1>12 DEF SameHold
<1> QED
  BY <1>2, <1>3, <1>4, <1>5, <1>6, <1>7, <1>8, <1>9, <1>10, <1>11, <1>13
  DEF key, Switched

HeapKept(t, g) ==
    /\ \A n \in NodeIds : Kept(n)
    /\ \A n \in NodeIds : /\ IsLeaf(n)' <=> IsLeaf(n)
                          /\ IsRemoved(n)' <=> IsRemoved(n)
                          /\ node'[n].key = node[n].key /\ node'[n].lock = node[n].lock
    /\ \A n \in NodeIds \ {g} : node'[n] = node[n]
    /\ \A u \in Threads \ {t} : HeldKept(u) /\ \A n \in Fresh2(u) : node'[n] = node[n]

LEMMA SwitchKept ==
    ASSUME NEW T \in SUBSET NodeIds, NEW lo \in [NodeIds -> Int],
           NEW hi \in [NodeIds -> Int], NEW V \in [Threads -> SUBSET NodeIds],
           Inv(T, lo, hi, V), NEW t \in Threads, NEW g \in NodeIds, NEW s \in Sides,
           NEW x \in NodeIds, NEW there \in BOOLEAN, Switches(t, g, s, x, there)
    PROVE  HeapKept(t, g)
<1>1. TypeOK /\ ControlInv /\ LockInv(T) /\ OwnInv(T) /\ \A u \in Threads : Position(V, u)
  BY DEF Inv
<1>2. /\ HolderOK(T, t, g, s) /\ at'[t].pc = "unlock"
      /\ \A u \in Threads \ {t} : SameHold(u)
      /\ \A u \in Threads, n \in Ptr, r \in Sides : Holds(u, n, r)' <=> Holds(u, n, r)
  <2>1. Switched(T, t, g, s, there)
    BY SwitchFacts
  <2> QED
    BY <2>1 DEF Switched
<1>3. /\ g \in T /\ ~IsLeaf(g) /\ ~IsRemoved(g)
      /\ \A u \in Threads : Holds(u, g, s) => u = t
  BY <1>2 DEF HolderOK
<1>4. /\ \A n \in NodeIds : /\ node'[n].key = node[n].key /\ node'[n].lock = node[n].lock
                            /\ IsLeaf(n)' <=> IsLeaf(n)
      /\ \A r \in Sides \ {s} : node'[g].child[r] = node[g].child[r]
      /\ \A n \in NodeIds \ {g} : node'[n] = node[n]
  BY <1>1, <1>3, ChildFacts DEF Switches
<1>5. \A n \in NodeIds : IsRemoved(n)' <=> IsRemoved(n)
  BY <1>4 DEF IsRemoved, TLN_REMOVED
<1>6. Holds(t, g, s) /\ g \in Ptr
  BY DEF Switches, Ptr
<1>7. ASSUME NEW n \in Ptr, NEW r \in Sides, Holds(t, n, r) PROVE n = g /\ r = s
  BY <1>6, <1>7 DEF Holds
<1>8. Unlocking(g, s)'
  BY <1>2, <1>6 DEF Unlocking
<1>9. ASSUME NEW n \in NodeIds, NEW r \in Sides, n # g \/ r # s
      PROVE  Unlocking(n, r)' <=> Unlocking(n, r)
  <2>1. n \in Ptr
    BY DEF Ptr
  <2>2. \A u \in Threads \ {t} : /\ Holds(u, n, r)' <=> Holds(u, n, r)
                                 /\ at'[u].pc = "unlock" <=> at[u].pc = "unlock"
    BY <1>2, <2>1 DEF SameHold
  <2>3. ~Holds(t, n, r) /\ ~Holds(t, n, r)'
    BY <1>2, <1>7, <1>9, <2>1
  <2> QED
    BY <2>2, <2>3 DEF Unlocking
<1>10. ASSUME NEW n \in NodeIds PROVE Kept(n)
  <2>1. ASSUME NEW r \in Sides
        PROVE  Unlocking(n, r)' \/ (node'[n].child[r] = node[n].child[r] /\ ~Unlocking(n, r))
    <3>1. CASE n = g /\ r = s
      BY <1>8, <3>1
    <3>2. CASE n # g \/ r # s
      BY <1>4, <1>9, <3>2
    <3> QED
      BY <3>1, <3>2
  <2>2. \A r \in Sides : node'[n].lock[r].version = node[n].lock[r].version
    BY <1>4
  <2> QED
    BY <1>4, <1>5, <2>1, <2>2 DEF Kept
<1>11. ASSUME NEW u \in Threads \ {t} PROVE HeldKept(u) /\ \A n \in Fresh2(u) : node'[n] = node[n]
  <2>a. PICK a : a = at[u]
    OBVIOUS
  <2>1. a \in Locals /\ Position(V, u) /\ ControlOf(u)
    BY <1>1, <2>a DEF TypeOK, ControlInv
  <2>2. ASSUME NEW n \in Fresh2(u) PROVE node'[n] = node[n]
    <3>1. n \in NodeIds /\ n # g
      BY <1>1, <1>3 DEF OwnInv, Own, TypeOK
    <3> QED
      BY <1>4, <3>1
  <2>3. ASSUME NEW n \in NodeIds, NEW r \in Sides, n # g \/ r # s
        PROVE  node'[n].child[r] = node[n].child[r]
    BY <1>4, <2>3
  <2>4. a.right \in Sides /\ a.pright \in Sides /\ a.pred \in Ptr /\ a.ppred \in Ptr
    BY <2>1 DEF Locals
  <2>5. ASSUME NEW n \in Ptr, NEW r \in Sides, Holds(u, n, r)
        PROVE  n \in NodeIds /\ (n # g \/ r # s)
    BY <1>1, <1>3, <2>5 DEF LockInv, HolderOK
  <2>6. a.pc = "link" => node'[a.pred].child[a.right] = node[a.pred].child[a.right]
    <3> SUFFICES ASSUME a.pc = "link"
                 PROVE  node'[a.pred].child[a.right] = node[a.pred].child[a.right]
      OBVIOUS
    <3>1. Holds(u, a.pred, a.right)
      BY <2>a, <2>1 DEF Holds, HeldNode, HeldSide, ControlOf
    <3> QED
      BY <2>3, <2>4, <2>5, <3>1
  <2>7. a.pc \in {"lockBoth", "unlink", "revert"} =>
            node'[a.ppred].child[a.pright] = node[a.ppred].child[a.pright]
    <3> SUFFICES ASSUME a.pc \in {"lockBoth", "unlink", "revert"}
                 PROVE  node'[a.ppred].child[a.pright] = node[a.ppred].child[a.pright]
      OBVIOUS
    <3>1. Holds(u, a.ppred, a.pright)
      BY <2>a, <2>1 DEF Holds, HeldNode, HeldSide, ControlOf
    <3> QED
      BY <2>3, <2>4, <2>5, <3>1
  <2>8. a.pc = "unlink" => node'[a.pred].child[a.right] = node[a.pred].child[a.right]
    <3> SUFFICES ASSUME a.pc = "unlink"
                 PROVE  node'[a.pred].child[a.right] = node[a.pred].child[a.right]
      OBVIOUS
    <3>1. Unlinks(u, a.pred)
      BY <2>a DEF Unlinks
    <3>2. IsRemoved(a.pred) /\ a.pred \in T
      BY <1>1, <2>4, <3>1 DEF LockInv
    <3> QED
      BY <1>3, <2>3, <2>4, <3>2
  <2> QED
    BY <2>a, <2>2, <2>6, <2>7, <2>8 DEF HeldKept
<1> QED
  BY <1>4, <1>5, <1>10, <1>11 DEF HeapKept

(* The way of an operation, once the tree has changed: what is in the tree *)
(* and responsible for its key is added.                                   *)
Extended(V, T2, lo2, hi2) ==
    [u \in Threads |-> V[u] \cup {n \in T2 : Spans(lo2, hi2, n, key(u))}]

(* What has just been linked was on nobody's way.                          *)
LEMMA NotSeenYet ==
    ASSUME NEW T \in SUBSET NodeIds, NEW lo \in [NodeIds -> Int],
           NEW hi \in [NodeIds -> Int], NEW V \in [Threads -> SUBSET NodeIds],
           Inv(T, lo, hi, V), NEW t \in Threads, Dead(t) = {},
           NEW u \in inOp, NEW n \in V[u], n \in Own(t)
    PROVE  FALSE
<1>1. WayInv(T, lo, hi, V) /\ OwnInv(T)
  BY DEF Inv
<1>2. Located(T, u, n)
  BY <1>1 DEF WayInv, WayOf, OnWay
<1>3. n \notin T /\ n \notin limbo
  BY <1>1 DEF OwnInv
<1>4. PICK v \in Threads : n \in Dead(v)
  BY <1>2, <1>3 DEF Located
<1>5. v # t /\ n \in Own(v)
  BY <1>4 DEF Own
<1> QED
  BY <1>1, <1>5 DEF OwnInv

LEMMA ChangedWay ==
    ASSUME NEW T \in SUBSET NodeIds, NEW lo \in [NodeIds -> Int],
           NEW hi \in [NodeIds -> Int], NEW V \in [Threads -> SUBSET NodeIds],
           Inv(T, lo, hi, V), NEW t \in Threads, NEW g \in NodeIds, NEW s \in Sides,
           NEW x \in NodeIds, NEW there \in BOOLEAN, Switches(t, g, s, x, there),
           NEW T2 \in SUBSET NodeIds, NEW lo2 \in [NodeIds -> Int],
           NEW hi2 \in [NodeIds -> Int], TreeChange(T, lo, hi, t, T2, lo2, hi2, there),
           NEW W \in [Threads -> SUBSET NodeIds], W = Extended(V, T2, lo2, hi2),
           \A u \in Threads : SeenOf(T2, u)',
           \A u \in Threads \ {t} : Dead(u)' = Dead(u),
           NEW u \in inOp
    PROVE  WayOf(T2, lo2, hi2, W, u)'
<1>1. TypeOK /\ ControlInv /\ LockInv(T) /\ OwnInv(T) /\ WayInv(T, lo, hi, V)
  BY DEF Inv
<1>2. Switched(T, t, g, s, there)
  BY SwitchFacts
<1>3. HeapKept(t, g)
  BY SwitchKept
<1>4. u \in Threads /\ CallKept(u) /\ key(u)' = key(u) /\ call[u] # NoCall
      /\ call'[u] # NoCall
  <2>1. u \in Threads
    BY <1>1 DEF TypeOK
  <2>2. at[u].pc \notin {"idle", "guard"} /\ call[u] # NoCall
    BY <1>1, <2>1 DEF ControlInv, ControlOf
  <2>3. u \in inOp'
    BY <1>2 DEF Switched
  <2>4. ControlInv'
    BY <1>2 DEF Switched
  <2>5. call'[u] # NoCall
    BY <2>1, <2>3, <2>4 DEF ControlInv, ControlOf
  <2> QED
    BY <1>2, <2>1, <2>2, <2>5 DEF Switched
<1>5. \A n \in T2 : Spans(lo2, hi2, n, key(u)) => n \in W[u]
  BY <1>4 DEF Extended
<1>6. V[u] \subseteq W[u] /\ \A n \in W[u] : n \in V[u] \/ (n \in T2 /\ Spans(lo2, hi2, n, key(u)))
  BY <1>4 DEF Extended
<1>7. ASSUME NEW n \in T2, Spans(lo2, hi2, n, key(u)) PROVE OnWay(T2, lo2, hi2, W, u, n)'
  <2>1. TypeOK' /\ Shape(T2, lo2, hi2)' /\ SeenOf(T2, u)' /\ call'[u] # NoCall
    BY <1>2, <1>4 DEF Switched, TreeChange
  <2>2. \A m \in T2 : Spans(lo2, hi2, m, key(u))' => m \in W[u]
    BY <1>4, <1>5 DEF Spans
  <2>3. Spans(lo2, hi2, n, key(u))'
    BY <1>4, <1>7 DEF Spans
  <2> QED
    BY <1>4, <2>1, <2>2, <2>3, TreeOnWayNext
<1>8. ASSUME NEW n \in V[u], ~(n \in T2 /\ Spans(lo2, hi2, n, key(u)))
      PROVE  OnWay(T2, lo2, hi2, W, u, n)'
  <2>1. OnWay(T, lo, hi, V, u, n) /\ n \in NodeIds
    BY <1>1, <1>4 DEF WayInv, WayOf
  <2>2. n \in T2 => n \in T
    <3>1. n \in T2 \ T => n \in Own(t) /\ Dead(t) = {}
      BY DEF TreeChange
    <3> QED
      BY <3>1, NotSeenYet
  <2>3. Located(T2, u, n)'
    <3>1. UNCHANGED <<limbo, waits>>
      BY <1>2 DEF Switched
    <3>2. CASE n \in T
      <4>1. n \in T2 \/ n \in Dead(t)'
        BY <3>2 DEF TreeChange
      <4> QED
        BY <4>1 DEF Located
    <3>3. CASE \E v \in Threads : n \in Dead(v)
      <4>1. PICK v \in Threads : n \in Dead(v)
        BY <3>3
      <4>2. v # t
        BY <4>1 DEF TreeChange
      <4>3. n \in Dead(v)'
        BY <4>1, <4>2
      <4> QED
        BY <4>3 DEF Located
    <3>4. CASE n \in limbo /\ u \in waits[n]
      BY <3>1, <3>4 DEF Located
    <3> QED
      BY <2>1, <3>2, <3>3, <3>4 DEF OnWay, Located
  <2>4. /\ IsLeaf(n)' <=> IsLeaf(n)
        /\ IsRemoved(n)' <=> IsRemoved(n)
        /\ node'[n].key = node[n].key /\ Side(key(u), n)' = Side(key(u), n)
    BY <1>3, <1>4, <2>1 DEF HeapKept, Side
  <2>5. IsLeaf(n)' /\ call'[u].result = "pending" =>
            (node'[n].key = key(u)) \in call'[u].seen
    BY <1>4, <2>1, <2>4 DEF OnWay, CallKept
  <2>6. CASE IsLeaf(n)
    BY <1>4, <2>3, <2>4, <2>5, <2>6 DEF OnWay
  <2>7. CASE ~IsLeaf(n)
    <3>1. n \notin T2
      <4> SUFFICES ASSUME n \in T2 PROVE FALSE
        OBVIOUS
      <4>1. n \in T /\ Spans(lo, hi, n, key(u))
        BY <2>1, <2>2, <2>7 DEF OnWay
      <4>2. lo2[n] <= lo[n] /\ hi[n] <= hi2[n]
        BY <2>7, <4>1 DEF TreeChange
      <4>3. lo[n] \in Int /\ hi[n] \in Int /\ lo2[n] \in Int /\ hi2[n] \in Int /\ key(u) \in Int
        <5>1. call[u] \in CallSet
          BY <1>1, <1>4 DEF TypeOK
        <5>2. key(u) \in Int
          BY <5>1, Constants DEF CallSet, key
        <5> QED
          BY <2>1, <5>2
      <4> QED
        BY <1>8, <4>1, <4>2, <4>3 DEF Spans
    <3>2. IsRemoved(n)
      <4>1. CASE n \in T
        <5>1. Unlinks(t, n)
          BY <2>7, <3>1, <4>1 DEF TreeChange
        <5> QED
          BY <1>1, <2>1, <5>1 DEF LockInv, Ptr
      <4>2. CASE n \notin T
        BY <2>1, <2>7, <4>2 DEF OnWay
      <4> QED
        BY <4>1, <4>2
    <3>3. n # g
      BY <1>2, <3>2 DEF Switched, HolderOK
    <3>4. node'[n] = node[n]
      BY <1>3, <2>1, <3>3 DEF HeapKept
    <3>5. node'[n].child[Side(key(u), n)'] \in W[u]
      BY <1>6, <2>1, <2>4, <2>7, <3>4 DEF OnWay
    <3> QED
      BY <1>4, <2>3, <2>4, <2>7, <3>1, <3>2, <3>5 DEF OnWay
  <2> QED
    BY <2>6, <2>7
<1>9. \A n \in W[u] : OnWay(T2, lo2, hi2, W, u, n)'
  BY <1>6, <1>7, <1>8
<1>10. \A n \in T2 : Spans(lo2, hi2, n, key(u))' => n \in W[u]
  BY <1>4, <1>5 DEF Spans
<1> QED
  BY <1>9, <1>10 DEF WayOf

LEMMA ChangeInv ==
    ASSUME NEW T \in SUBSET NodeIds, NEW lo \in [NodeIds -> Int],
           NEW hi \in [NodeIds -> Int], NEW V \in [Threads -> SUBSET NodeIds],
           Inv(T, lo, hi, V), NEW t \in Threads, NEW g \in NodeIds, NEW s \in Sides,
           NEW x \in NodeIds, NEW there \in BOOLEAN, Switches(t, g, s, x, there),
           NEW T2 \in SUBSET NodeIds, NEW lo2 \in [NodeIds -> Int],
           NEW hi2 \in [NodeIds -> Int], TreeChange(T, lo, hi, t, T2, lo2, hi2, there),
           NEW W, W = Extended(V, T2, lo2, hi2)
    PROVE  Inv(T2, lo2, hi2, W)' /\ W \in [Threads -> SUBSET NodeIds]
<1>1. /\ TypeOK /\ ControlInv /\ LockInv(T) /\ OwnInv(T) /\ SeenInv(T)
      /\ \A u \in Threads : Position(V, u)
  BY DEF Inv
<1>2. Switched(T, t, g, s, there)
  BY SwitchFacts
<1>3. HeapKept(t, g)
  BY SwitchKept
<1>4. /\ TypeOK' /\ ControlInv' /\ UNCHANGED <<allocated, inOp, limbo, waits>>
      /\ at'[t].pc = "unlock" /\ at'[t].curr = at[t].curr /\ at'[t].pred = at[t].pred
      /\ op(t)' = op(t)
  BY <1>2 DEF Switched
<1>5. W \in [Threads -> SUBSET NodeIds] /\ \A u \in Threads : V[u] \subseteq W[u]
  BY DEF Extended
<1>6. \A u \in Threads \ {t} :
          Bystander(u) /\ HeldKept(u) /\ (\A n \in Fresh2(u) : node'[n] = node[n])
          /\ (\A n \in V[u] : Kept(n))
  BY <1>2, <1>3 DEF Switched, HeapKept
<1>7. ASSUME NEW u \in Threads \ {t}
      PROVE  Position(W, u)' /\ Own(u)' = Own(u) /\ Dead(u)' = Dead(u)
  <2>1. /\ Bystander(u) /\ HeldKept(u) /\ Position(V, u) /\ V[u] \subseteq W[u]
        /\ \A n \in Fresh2(u) : node'[n] = node[n]
        /\ \A n \in V[u] : Kept(n)
    BY <1>1, <1>5, <1>6
  <2>2. Position(W, u)'
    BY <1>1, <1>4, <1>5, <2>1, BystanderPosition
  <2>3. Own(u)' = Own(u) /\ Dead(u)' = Dead(u)
    BY <1>1, <2>1, BystanderOwn
  <2> QED
    BY <2>2, <2>3
<1>8. Position(W, t)'
  <2>1. CASE op(t) # "remove"
    BY <1>4, <2>1 DEF Position
  <2>2. CASE op(t) = "remove"
    <3>1. at[t].pc = "unlink"
      BY <1>1, <2>2 DEF Switches, ControlInv, ControlOf
    <3>2. PICK c, d : c = at[t].curr /\ d = at[t].pred
      OBVIOUS
    <3>3. c \in V[t] /\ IsLeaf(c) /\ d \in V[t] /\ ~IsLeaf(d)
      BY <1>1, <3>1, <3>2 DEF Position, CameBy
    <3>4. c \in W[t] /\ IsLeaf(c)' /\ d \in W[t] /\ ~IsLeaf(d)'
      BY <1>3, <1>5, <3>3 DEF HeapKept
    <3> QED
      BY <1>4, <3>2, <3>4 DEF Position
  <2> QED
    BY <2>1, <2>2
<1>9. LockInv(T2)'
  <2>1. \A u \in Threads, n \in Ptr, r \in Sides : Holds(u, n, r)' <=> Holds(u, n, r)
    BY <1>2 DEF Switched
  <2>2. \A n \in NodeIds : node'[n].lock = node[n].lock /\ (IsLeaf(n)' <=> IsLeaf(n))
    BY <1>3 DEF HeapKept
  <2>3. \A u \in Threads \ {t}, n \in Ptr : Unlinks(u, n)' <=> Unlinks(u, n)
    BY <1>2 DEF Switched, SameHold, Unlinks
  <2>4. \A n \in Ptr : ~Unlinks(t, n)'
    BY <1>4 DEF Unlinks
  <2>5. \A n \in T : ~IsLeaf(n) /\ ~IsRemoved(n) => n \in T2
    BY <1>1 DEF TreeChange, LockInv, Ptr
  <2>6. \A n \in T2 : IsRemoved(n) => \E u \in Threads : Unlinks(u, n)'
    <3> SUFFICES ASSUME NEW n \in T2, IsRemoved(n)
                 PROVE  \E u \in Threads : Unlinks(u, n)'
      OBVIOUS
    <3>1. n \in T /\ ~Unlinks(t, n) /\ n \in Ptr
      BY DEF TreeChange, Ptr
    <3>2. PICK u \in Threads : Unlinks(u, n)
      BY <1>1, <3>1 DEF LockInv
    <3> QED
      BY <2>3, <3>1, <3>2
  <2>7. ASSUME NEW u \in Threads, NEW n \in Ptr, Unlinks(u, n)'
        PROVE  Unlinks(u, n) /\ n \in T2
    <3>1. u # t /\ Unlinks(u, n)
      BY <2>3, <2>4, <2>7
    <3>2. n \in T /\ \A v \in Threads : Unlinks(v, n) => v = u
      BY <1>1, <3>1 DEF LockInv
    <3>3. ~IsLeaf(n)
      BY <1>1, <3>1 DEF Unlinks, Position, CameBy
    <3>4. ~Unlinks(t, n)
      BY <3>1, <3>2
    <3> QED
      BY <3>1, <3>2, <3>3, <3>4 DEF TreeChange
  <2> QED
    BY <1>1, <2>1, <2>2, <2>5, <2>6, <2>7, TreeLocks
<1>10. OwnInv(T2)'
  <2>1. /\ T2 \ T \subseteq Own(t) /\ Own(t)' \subseteq T \ T2
    BY DEF TreeChange
  <2>2. /\ T \subseteq allocated \ limbo /\ limbo \subseteq allocated
        /\ \A u \in Threads : Own(u) \subseteq allocated \ (T \cup limbo)
        /\ \A u, v \in Threads : u # v => Own(u) \cap Own(v) = {}
    BY <1>1 DEF OwnInv
  <2>3. T2 \subseteq allocated \ limbo
    BY <2>1, <2>2
  <2>4. ASSUME NEW u \in Threads PROVE Own(u)' \subseteq allocated \ (T2 \cup limbo)
    <3>1. CASE u = t
      BY <2>1, <2>2, <3>1
    <3>2. CASE u # t
      <4>1. Own(u)' = Own(u) /\ Own(u) \cap Own(t) = {}
        BY <1>7, <2>2, <3>2
      <4> QED
        BY <2>1, <2>2, <4>1
    <3> QED
      BY <3>1, <3>2
  <2>5. ASSUME NEW u \in Threads, NEW v \in Threads, u # v
        PROVE  Own(u)' \cap Own(v)' = {}
    <3>1. CASE u = t
      <4>1. Own(v)' = Own(v)
        BY <1>7, <2>5, <3>1
      <4> QED
        BY <2>1, <2>2, <3>1, <4>1
    <3>2. CASE v = t
      <4>1. Own(u)' = Own(u)
        BY <1>7, <2>5, <3>2
      <4> QED
        BY <2>1, <2>2, <3>2, <4>1
    <3>3. CASE u # t /\ v # t
      BY <1>7, <2>2, <2>5, <3>3
    <3> QED
      BY <3>1, <3>2, <3>3
  <2> QED
    BY <1>4, <2>2, <2>3, <2>4, <2>5 DEF OwnInv
<1>11. ASSUME NEW u \in Threads PROVE SeenOf(T2, u)'
  <2> SUFFICES ASSUME call'[u] # NoCall, call'[u].result = "pending"
               PROVE  (key(u)' \in Contents(T2)') \in call'[u].seen
    BY DEF SeenOf
  <2>1. u # t
    BY <1>2 DEF Switched
  <2>2. CallKept(u) /\ key(u)' = key(u)
    BY <1>2 DEF Switched
  <2>3. call[u] # NoCall /\ call[u].result = "pending" /\ call[u].seen \subseteq call'[u].seen
    BY <2>2 DEF CallKept
  <2>4. key(u) \in Keys
    BY <1>1, <2>3 DEF TypeOK, CallSet, key
  <2>5. CASE key(u) = key(t)
    <3>1. there \in call'[u].seen
      BY <1>2, <2>1, <2>3, <2>5 DEF Switched
    <3>2. key(u) \in Contents(T2)' <=> there
      BY <2>4, <2>5 DEF TreeChange
    <3>3. (key(u) \in Contents(T2)') = there
      BY <3>2
    <3> QED
      BY <2>2, <3>1, <3>3
  <2>6. CASE key(u) # key(t)
    <3>1. (key(u) \in Contents(T)) \in call[u].seen
      BY <1>1, <2>3 DEF SeenInv, SeenOf
    <3>2. key(u) \in Contents(T2)' <=> key(u) \in Contents(T)
      BY <2>4, <2>6 DEF TreeChange
    <3>3. (key(u) \in Contents(T2)') = (key(u) \in Contents(T))
      BY <3>2
    <3> QED
      BY <2>2, <2>3, <3>1, <3>3
  <2> QED
    BY <2>5, <2>6
<1>12. WayInv(T2, lo2, hi2, W)'
  <2>1. \A u \in Threads \ {t} : Dead(u)' = Dead(u)
    BY <1>7
  <2>2. ASSUME NEW u \in inOp PROVE WayOf(T2, lo2, hi2, W, u)'
    BY <1>5, <1>11, <2>1, ChangedWay
  <2> QED
    BY <1>4, <2>2 DEF WayInv
<1>13. SeenInv(T2)'
  BY <1>11 DEF SeenInv
<1>14. Shape(T2, lo2, hi2)'
  BY DEF TreeChange
<1>15. \A u \in Threads : Position(W, u)'
  BY <1>7, <1>8
<1> QED
  BY <1>4, <1>5, <1>9, <1>10, <1>12, <1>13, <1>14, <1>15 DEF Inv

LEMMA NotRemoved ==
    ASSUME NEW n, node[n].lock = Unlocked
    PROVE  ~IsRemoved(n)
<1>1. Half \in Nat /\ Half > 5 /\ 0 \in Sides
  BY Constants DEF Sides
<1>2. Unlocked[0].ticket = 0
  BY <1>1 DEF Unlocked
<1>3. IsRemoved(n) => node[n].lock[0].ticket = Half - 1
  BY <1>1, RemovedWord
<1> QED
  BY <1>1, <1>2, <1>3

(* The child on the side of a key is responsible for it.                   *)
LEMMA SpansChild ==
    ASSUME TypeOK, NEW T \in SUBSET NodeIds, NEW lo \in [NodeIds -> Int],
           NEW hi \in [NodeIds -> Int], Shape(T, lo, hi), NEW n \in T, ~IsLeaf(n),
           NEW k \in Int, Spans(lo, hi, n, k), NEW c, ChildIs(n, Side(k, n), c)
    PROVE  c \in T /\ Spans(lo, hi, c, k)
<1>1. node[n].key \in Int /\ lo[n] \in Int /\ hi[n] \in Int
  BY DEF TypeOK
<1>2. Routes(T, lo, hi, n)
  BY DEF Shape
<1>3. CASE k < node[n].key
  BY <1>1, <1>2, <1>3 DEF Routes, Spans, Side, ChildIs
<1>4. CASE ~(k < node[n].key)
  BY <1>1, <1>2, <1>4 DEF Routes, Spans, Side, ChildIs
<1> QED
  BY <1>3, <1>4

LEMMA LinkInv ==
    ASSUME NEW T \in SUBSET NodeIds, NEW lo \in [NodeIds -> Int],
           NEW hi \in [NodeIds -> Int], NEW V \in [Threads -> SUBSET NodeIds],
           Inv(T, lo, hi, V), NEW t \in Threads, Link(t)
    PROVE  /\ key(t) \notin Contents(T)
           /\ \E T2 \in SUBSET NodeIds, lo2, hi2 \in [NodeIds -> Int],
                 W \in [Threads -> SUBSET NodeIds] :
                 Inv(T2, lo2, hi2, W)' /\ Contents(T2)' = Contents(T) \cup {key(t)}
<1>a. PICK p : p = at[t].pred
  OBVIOUS
<1>b. PICK q : q = at[t].right
  OBVIOUS
<1>c. PICK c : c = at[t].curr
  OBVIOUS
<1>r. PICK r : r = at[t].nr
  OBVIOUS
<1>f. PICK f : f = NewLeaf(t)
  OBVIOUS
<1>k. PICK k : k = key(t)
  OBVIOUS
<1>1. /\ TypeOK /\ ControlInv /\ ControlOf(t) /\ Position(V, t) /\ LockInv(T)
      /\ OwnInv(T) /\ Shape(T, lo, hi) /\ WayInv(T, lo, hi, V)
  BY DEF Inv, ControlInv
<1>2. at[t].pc = "link" /\ SetsChild(p, q, r)
  BY <1>a, <1>b, <1>r DEF Link, Goto, SetsChild
<1>3. op(t) = "insert" /\ t \in inOp /\ call[t] # NoCall
  BY <1>1, <1>2 DEF ControlOf
<1>4. q \in Sides /\ p \in Ptr
  BY <1>1, <1>a, <1>b DEF TypeOK, Locals
<1>5. Holds(t, p, q) /\ HolderOK(T, t, p, q)
  <2>1. Holds(t, p, q)
    BY <1>a, <1>b, <1>2, <1>3 DEF Holds, HeldNode, HeldSide
  <2> QED
    BY <1>1, <1>4, <2>1 DEF LockInv
<1>6. p \in T /\ ~IsLeaf(p)
  BY <1>5 DEF HolderOK
<1>7. /\ c \in V[t] /\ IsLeaf(c) /\ node[c].key # k
      /\ p \in V[t] /\ q = Side(k, p) /\ ChildIs(p, q, c)
      /\ r \in NodeIds /\ f \in NodeIds
      /\ node[f] = Leaf(k) /\ node[r] = NewInternal(k, c, f)
  BY <1>1, <1>2, <1>3, <1>a, <1>b, <1>c, <1>r, <1>f, <1>k DEF Position, CameBy, ChildIs
<1>8. k \in Keys /\ k \in Int
  <2>1. call[t] \in CallSet
    BY <1>1, <1>3 DEF TypeOK
  <2> QED
    BY <2>1, <1>k, Constants DEF CallSet, key
<1>9. Spans(lo, hi, p, k)
  BY <1>1, <1>3, <1>6, <1>7, <1>k DEF WayInv, WayOf, OnWay
<1>10. c \in T /\ Spans(lo, hi, c, k)
  BY <1>1, <1>6, <1>7, <1>8, <1>9, SpansChild
<1>11. k \notin Contents(T)
  BY <1>1, <1>7, <1>8, <1>10, LeafDecides
<1>12. Own(t) = {r, f} /\ Dead(t) = {}
  BY <1>r, <1>f, <1>2 DEF Own, Fresh2, Dead
<1>13. r \notin T /\ f \notin T
  BY <1>1, <1>12 DEF OwnInv
<1>14. /\ r # f /\ node[f].lock = Unlocked /\ node[r].lock = Unlocked
  <2>1. node[f].child[0] = NULL /\ node[f].lock = Unlocked
    BY <1>7 DEF Leaf, Sides
  <2>2. node[r].child[0] \in {c, f} /\ node[r].lock = Unlocked
    BY <1>7 DEF NewInternal, Internal, Sides
  <2>3. c # NULL /\ f # NULL
    BY <1>7, <1>10, Constants
  <2> QED
    BY <2>1, <2>2, <2>3
<1>15. PICK lo2, hi2 : Splits(lo, hi, c, r, lo2, hi2)
  BY DEF Splits
<1>t. PICK T2 : T2 = T \cup {r, f}
  OBVIOUS
<1>16. /\ Shape(T2, lo2, hi2)'
       /\ Contents(T2)' = Contents(T) \cup {k}
       /\ \A n \in T \ {c} : lo2[n] = lo[n] /\ hi2[n] = hi[n]
       /\ lo2 \in [NodeIds -> Int] /\ hi2 \in [NodeIds -> Int]
  <2>1. LacksKey(c, k) /\ Built(r, f, c, k)
    BY <1>7, <1>14 DEF LacksKey, Built
  <2>2. r \in NodeIds \ T /\ f \in NodeIds \ T
    BY <1>7, <1>13
  <2>3. Linked(T, lo, hi, c, k, r, f, lo2, hi2)
    BY <1>1, <1>2, <1>4, <1>6, <1>7, <1>8, <1>10, <1>15, <2>1, <2>2, LinkShape
  <2> QED
    BY <1>t, <2>3 DEF Linked
<1>17. Switches(t, p, q, r, TRUE)
  BY <1>2, <1>5 DEF Switches, Link
<1>18. Switched(T, t, p, q, TRUE)
  BY <1>4, <1>6, <1>7, <1>17, SwitchFacts
<1>19. TreeChange(T, lo, hi, t, T2, lo2, hi2, TRUE)
  <2>1. Own(t)' = {}
    BY <1>3, <1>18 DEF Switched, Own, Fresh2, Dead
  <2>2. \A n \in T \cap T2 : ~IsLeaf(n) => lo2[n] <= lo[n] /\ hi[n] <= hi2[n]
    <3> SUFFICES ASSUME NEW n \in T, ~IsLeaf(n)
                 PROVE  lo2[n] <= lo[n] /\ hi[n] <= hi2[n]
      OBVIOUS
    <3>1. n # c /\ n \in NodeIds
      BY <1>7
    <3>2. lo2[n] = lo[n] /\ hi2[n] = hi[n] /\ lo[n] \in Int /\ hi[n] \in Int
      BY <1>16, <3>1
    <3> QED
      BY <3>2
  <2>3. \A n : ~Unlinks(t, n)
    BY <1>2 DEF Unlinks
  <2>4. \A n \in T2 \ T : ~IsRemoved(n)
    BY <1>t, <1>14, NotRemoved
  <2>5. T \ T2 = {} /\ T2 \ T \subseteq {r, f}
    BY <1>t
  <2>6. \A j \in Keys : j \in Contents(T2)' <=> IF j = key(t) THEN TRUE ELSE j \in Contents(T)
    BY <1>k, <1>16
  <2> QED
    BY <1>12, <1>16, <2>1, <2>2, <2>3, <2>4, <2>5, <2>6 DEF TreeChange
<1>w. PICK W : W = Extended(V, T2, lo2, hi2)
  OBVIOUS
<1>20. Inv(T2, lo2, hi2, W)' /\ W \in [Threads -> SUBSET NodeIds] /\ T2 \in SUBSET NodeIds
  <2>1. T2 \in SUBSET NodeIds
    BY <1>t, <1>7
  <2> QED
    BY <1>w, <1>4, <1>6, <1>7, <1>16, <1>17, <1>19, <2>1, ChangeInv
<1> QED
  BY <1>k, <1>11, <1>16, <1>20

LEMMA UnlinkInv ==
    ASSUME NEW T \in SUBSET NodeIds, NEW lo \in [NodeIds -> Int],
           NEW hi \in [NodeIds -> Int], NEW V \in [Threads -> SUBSET NodeIds],
           Inv(T, lo, hi, V), NEW t \in Threads, Unlink(t)
    PROVE  /\ key(t) \in Contents(T)
           /\ \E T2 \in SUBSET NodeIds, lo2, hi2 \in [NodeIds -> Int],
                 W \in [Threads -> SUBSET NodeIds] :
                 Inv(T2, lo2, hi2, W)' /\ Contents(T2)' = Contents(T) \ {key(t)}
<1>g. PICK g : g = at[t].ppred
  OBVIOUS
<1>h. PICK h : h = at[t].pright
  OBVIOUS
<1>a. PICK p : p = at[t].pred
  OBVIOUS
<1>b. PICK s : s = at[t].right
  OBVIOUS
<1>c. PICK c : c = at[t].curr
  OBVIOUS
<1>k. PICK k : k = key(t)
  OBVIOUS
<1>o. PICK o : o = 1 - s
  OBVIOUS
<1>x. PICK x : x = node[p].child[o]
  OBVIOUS
<1>1. /\ TypeOK /\ ControlInv /\ ControlOf(t) /\ Position(V, t) /\ LockInv(T)
      /\ OwnInv(T) /\ Shape(T, lo, hi) /\ WayInv(T, lo, hi, V)
  BY DEF Inv, ControlInv
<1>2. at[t].pc = "unlink" /\ SetsChild(g, h, x)
  BY <1>g, <1>h, <1>a, <1>b, <1>o, <1>x DEF Unlink, Goto, SetsChild
<1>3. op(t) = "remove" /\ t \in inOp /\ call[t] # NoCall
  BY <1>1, <1>2 DEF ControlOf
<1>4. h \in Sides /\ g \in Ptr /\ p \in Ptr /\ s \in Sides
  BY <1>1, <1>g, <1>h, <1>a, <1>b DEF TypeOK, Locals
<1>5. Holds(t, g, h) /\ HolderOK(T, t, g, h) /\ Unlinks(t, p)
  <2>1. Holds(t, g, h) /\ Unlinks(t, p)
    BY <1>g, <1>h, <1>a, <1>2, <1>3 DEF Holds, HeldNode, HeldSide, Unlinks
  <2> QED
    BY <1>1, <1>4, <2>1 DEF LockInv
<1>6. g \in T /\ ~IsLeaf(g)
  BY <1>5 DEF HolderOK
<1>7. p \in T /\ IsRemoved(p)
  BY <1>1, <1>4, <1>5 DEF LockInv
<1>8. /\ c \in V[t] /\ IsLeaf(c) /\ node[c].key = k
      /\ p \in V[t] /\ ~IsLeaf(p) /\ s = Side(k, p) /\ ChildIs(p, s, c)
      /\ ChildIs(g, h, p) /\ p # root
  BY <1>1, <1>2, <1>3, <1>g, <1>h, <1>a, <1>b, <1>c, <1>k DEF Position, CameBy, ChildIs
<1>9. k \in Keys /\ k \in Int
  <2>1. call[t] \in CallSet
    BY <1>1, <1>3 DEF TypeOK
  <2> QED
    BY <2>1, <1>k, Constants DEF CallSet, key
<1>10. c \in T
  <2>1. Spans(lo, hi, p, k)
    BY <1>1, <1>3, <1>7, <1>8, <1>k DEF WayInv, WayOf, OnWay
  <2> QED
    BY <1>1, <1>7, <1>8, <1>9, <2>1, SpansChild
<1>11. k \in Contents(T)
  BY <1>8, <1>9, <1>10 DEF Contents
<1>12. o \in Sides /\ o # s /\ ChildIs(p, o, x) /\ x \in NodeIds
  <2>1. o \in Sides /\ o # s /\ o \in {0, 1}
    BY <1>4, <1>o DEF Sides
  <2>2. x \in T
    BY <1>1, <1>7, <1>8, <1>x, <2>1 DEF Shape, Routes
  <2> QED
    BY <1>x, <2>1, <2>2 DEF ChildIs
<1>13. PICK lo2, hi2 : Widens(lo, hi, p, s, lo2, hi2)
  BY DEF Widens
<1>t. PICK T2 : T2 = T \ {p, c}
  OBVIOUS
<1>14. /\ Shape(T2, lo2, hi2)'
       /\ Contents(T2)' = Contents(T) \ {k}
       /\ \A n \in T2 : lo2[n] <= lo[n] /\ hi[n] <= hi2[n]
       /\ lo2 \in [NodeIds -> Int] /\ hi2 \in [NodeIds -> Int]
  <2>1. HoldsKey(c)
    BY <1>8, <1>9 DEF HoldsKey
  <2>2. Unlinked(T, lo, hi, p, c, lo2, hi2)
    BY <1>1, <1>2, <1>4, <1>6, <1>7, <1>8, <1>12, <1>13, <2>1, UnlinkShape
  <2> QED
    BY <1>t, <1>8, <2>2 DEF Unlinked
<1>15. Switches(t, g, h, x, FALSE)
  BY <1>2, <1>5 DEF Switches, Unlink
<1>16. Switched(T, t, g, h, FALSE)
  BY <1>4, <1>6, <1>12, <1>15, SwitchFacts
<1>17. TreeChange(T, lo, hi, t, T2, lo2, hi2, FALSE)
  <2>1. Own(t)' = {c, p} /\ Dead(t)' = {c, p}
    BY <1>a, <1>c, <1>3, <1>16 DEF Switched, Own, Fresh2, Dead
  <2>2. Own(t) = {} /\ Dead(t) = {}
    BY <1>2 DEF Own, Fresh2, Dead
  <2>3. \A n : Unlinks(t, n) <=> n = p
    BY <1>2, <1>a DEF Unlinks
  <2>4. T \ T2 = {p, c} /\ T2 \ T = {} /\ p \notin T2
    BY <1>t, <1>7, <1>10
  <2>5. \A j \in Keys : j \in Contents(T2)' <=> IF j = key(t) THEN FALSE ELSE j \in Contents(T)
    BY <1>k, <1>14
  <2> QED
    BY <1>8, <1>14, <2>1, <2>2, <2>3, <2>4, <2>5 DEF TreeChange
<1>w. PICK W : W = Extended(V, T2, lo2, hi2)
  OBVIOUS
<1>18. Inv(T2, lo2, hi2, W)' /\ W \in [Threads -> SUBSET NodeIds] /\ T2 \in SUBSET NodeIds
  <2>1. T2 \in SUBSET NodeIds
    BY <1>t
  <2> QED
    BY <1>w, <1>4, <1>6, <1>12, <1>14, <1>15, <1>17, <2>1, ChangeInv
<1> QED
  BY <1>k, <1>11, <1>14, <1>18

-----------------------------------------------------------------------------
(* Freeing                                                                 *)

(* Node x is put back into the state of unused memory.                     *)
Clears(x) == node' = [node EXCEPT ![x] = Leaf(KEY_MIN)]

LEMMA ClearFacts ==
    ASSUME TypeOK, NEW x \in NodeIds, Clears(x)
    PROVE  /\ node' \in [NodeIds -> [key : Nat, child : [Sides -> Ptr], lock : LockWord]]
           /\ \A n \in NodeIds : node'[n].child[0] = NULL <=> node'[n].child[1] = NULL
           /\ node'[x].lock = Unlocked
           /\ \A n \in NodeIds \ {x} : node'[n] = node[n]
<1> DEFINE N == [key : Nat, child : [Sides -> Ptr], lock : LockWord]
<1>1. node \in [NodeIds -> N]
  BY DEF TypeOK
<1>2. Unlocked \in LockWord /\ NULL \in Ptr /\ KEY_MIN \in Nat
  BY Constants DEF Unlocked, LockWord, Ptr
<1>y. PICK y : y = Leaf(KEY_MIN)
  OBVIOUS
<1>3. y \in N /\ y.lock = Unlocked /\ y.child[0] = NULL /\ y.child[1] = NULL
  BY <1>2, <1>y DEF Leaf, Sides
<1>4. /\ node' \in [NodeIds -> N] /\ node'[x] = y
      /\ \A n \in NodeIds \ {x} : node'[n] = node[n]
  <2>1. node' = [node EXCEPT ![x] = y]
    BY <1>y DEF Clears
  <2> HIDE DEF N
  <2> QED
    BY <1>1, <1>3, <2>1
<1>5. \A n \in NodeIds : node'[n].child[0] = NULL <=> node'[n].child[1] = NULL
  <2>1. \A n \in NodeIds : node[n].child[0] = NULL <=> node[n].child[1] = NULL
    BY DEF TypeOK
  <2> QED
    BY <1>3, <1>4, <2>1
<1> QED
  BY <1>3, <1>4, <1>5

LEMMA FreeInv ==
    ASSUME NEW T \in SUBSET NodeIds, NEW lo \in [NodeIds -> Int],
           NEW hi \in [NodeIds -> Int], NEW V \in [Threads -> SUBSET NodeIds],
           Inv(T, lo, hi, V), FreeNode
    PROVE  Inv(T, lo, hi, V)'
<1>1. /\ TypeOK /\ ControlInv /\ LockInv(T) /\ OwnInv(T) /\ WayInv(T, lo, hi, V)
  BY DEF Inv
<1>2. PICK x \in limbo : /\ Clears(x) /\ allocated' = allocated \ {x}
                         /\ UNCHANGED <<benchVars, at>> /\ Rec!Free({x})
  BY DEF FreeNode, Clears
<1>3. /\ limbo' = limbo \ {x} /\ UNCHANGED <<inOp, waits>> /\ waits[x] = {}
      /\ UNCHANGED <<call, mpc, stage, tpc>> /\ at' = at
  BY <1>2 DEF Rec!Free, Rec!GraceOver, benchVars
<1>4. x \in NodeIds /\ x \notin T /\ \A u \in Threads : x \notin Own(u)
  BY <1>1 DEF TypeOK, OwnInv
<1>5. ASSUME NEW u \in inOp, NEW n \in V[u] PROVE n # x
  <2>1. Located(T, u, n)
    BY <1>1 DEF WayInv, WayOf, OnWay
  <2>2. \A v \in Threads : x \notin Dead(v)
    BY <1>4 DEF Own
  <2> QED
    BY <1>3, <1>4, <2>1, <2>2 DEF Located
<1>6. /\ node' \in [NodeIds -> [key : Nat, child : [Sides -> Ptr], lock : LockWord]]
      /\ \A n \in NodeIds : node'[n].child[0] = NULL <=> node'[n].child[1] = NULL
      /\ node'[x].lock = Unlocked
      /\ \A n \in NodeIds \ {x} : node'[n] = node[n]
  BY <1>1, <1>2, <1>4, ClearFacts
<1>7. TypeOK'
  <2>1. allocated' \subseteq NodeIds /\ limbo' \subseteq NodeIds
    BY <1>1, <1>2, <1>3 DEF TypeOK
  <2> QED
    BY <1>1, <1>3, <1>6, <2>1 DEF TypeOK
<1>8. \A u \in Threads : Bystander(u)
  BY <1>3 DEF Bystander, CallKept
<1>9. ControlInv'
  <2>1. ASSUME NEW u \in Threads PROVE ControlOf(u)'
    BY <1>1, <1>8, BystanderControl DEF ControlInv
  <2>2. ASSUME NEW u \in Threads PROVE LoopOf(u)'
    BY <1>1, <1>3 DEF ControlInv, LoopOf, Workers, Current
  <2> QED
    BY <2>1, <2>2 DEF ControlInv
<1>10. \A u \in Threads : SameHold(u)
  BY <1>8, BystanderHold
<1>11. ASSUME NEW n \in NodeIds \ {x} PROVE Stays(n)
  <2>1. \A s \in Sides : Unlocking(n, s)' <=> Unlocking(n, s)
    BY <1>10, HoldsUnlocking
  <2>2. (IsLeaf(n)' <=> IsLeaf(n)) /\ (IsRemoved(n)' <=> IsRemoved(n)) /\ node'[n] = node[n]
    BY <1>6 DEF IsLeaf, IsRemoved, TLN_REMOVED
  <2> QED
    BY <2>1, <2>2 DEF Stays, Kept
<1>12. Frame(T, V, Threads)
  <2>1. \A u \in inOp : \A n \in V[u] : Stays(n)
    BY <1>1, <1>5, <1>11 DEF TypeOK
  <2>2. \A n \in T : Stays(n)
    BY <1>4, <1>11
  <2>3. ASSUME NEW u \in Threads, NEW n \in Fresh2(u) PROVE node'[n] = node[n]
    <3>1. n \in NodeIds \ {x}
      BY <1>1, <1>4 DEF OwnInv, Own, TypeOK
    <3> QED
      BY <1>6, <3>1
  <2>4. \A n \in limbo : \A u \in inOp' : u \in waits[n] => n \in limbo' /\ u \in waits'[n]
    BY <1>3
  <2> QED
    BY <1>8, <2>1, <2>2, <2>3, <2>4 DEF Frame
<1>13. /\ Shape(T, lo, hi)'
       /\ \A u \in Threads : Position(V, u)' /\ Own(u)' = Own(u)
       /\ \A u \in inOp' : u \in inOp /\ CallKept(u) => WayOf(T, lo, hi, V, u)'
       /\ \A u \in Threads : CallKept(u) => SeenOf(T, u)'
  BY <1>7, <1>12, FrameStep
<1>14. \A u \in Threads : CallKept(u)
  BY <1>8 DEF Bystander
<1>15. WayInv(T, lo, hi, V)'
  BY <1>1, <1>3, <1>13, <1>14 DEF WayInv, TypeOK
<1>16. SeenInv(T)'
  BY <1>13, <1>14 DEF SeenInv
<1>17. OwnInv(T)'
  BY <1>1, <1>2, <1>3, <1>4, <1>13 DEF OwnInv
<1>18. LockInv(T)'
  <2>1. \A u \in Threads, n \in Ptr, s \in Sides : Holds(u, n, s)' <=> Holds(u, n, s)
    BY <1>10 DEF SameHold
  <2>2. \A n \in NodeIds \ {x} : /\ IsRemoved(n)' <=> IsRemoved(n)
                                 /\ IsLeaf(n)' <=> IsLeaf(n)
    BY <1>6 DEF IsRemoved, TLN_REMOVED, IsLeaf
  <2>3. ASSUME NEW u \in Threads, NEW n \in Ptr, NEW s \in Sides, Holds(u, n, s)'
        PROVE  HolderOK(T, u, n, s)'
    <3>1. HolderOK(T, u, n, s)
      BY <1>1, <2>1, <2>3 DEF LockInv
    <3>2. n \in NodeIds \ {x}
      BY <1>4, <3>1 DEF HolderOK
    <3>3. node'[n] = node[n]
      BY <1>6, <3>2
    <3>4. \A v \in Threads : Holds(v, n, s)' => v = u
      BY <2>1, <3>1 DEF HolderOK
    <3> QED
      BY <2>2, <3>1, <3>2, <3>3, <3>4 DEF HolderOK
  <2>4. ASSUME NEW n \in NodeIds, NEW s \in Sides PROVE FreeOrHeld(n, s)'
    <3>1. CASE n = x
      BY <1>6, <3>1 DEF FreeOrHeld, Unlocked
    <3>2. CASE n # x
      <4>1. FreeOrHeld(n, s) /\ n \in Ptr
        BY <1>1 DEF LockInv, Ptr
      <4>2. node'[n] = node[n]
        BY <1>6, <3>2
      <4> QED
        BY <2>1, <2>2, <3>2, <4>1, <4>2 DEF FreeOrHeld
    <3> QED
      BY <3>1, <3>2
  <2>5. \A u \in Threads, n \in Ptr : Unlinks(u, n)' <=> Unlinks(u, n)
    BY <1>10 DEF SameHold, Unlinks
  <2>6. \A n \in T : IsRemoved(n)' => \E u \in Threads : Unlinks(u, n)'
    BY <1>1, <1>4, <2>2, <2>5 DEF LockInv, Ptr
  <2>7. ASSUME NEW u \in Threads, NEW n \in Ptr, Unlinks(u, n)'
        PROVE  n \in T /\ IsRemoved(n)' /\ \A v \in Threads : Unlinks(v, n)' => v = u
    BY <1>1, <1>4, <2>2, <2>5, <2>7 DEF LockInv
  <2> QED
    BY <2>3, <2>4, <2>6, <2>7 DEF LockInv
<1> QED
  BY <1>7, <1>9, <1>13, <1>15, <1>16, <1>17, <1>18 DEF Inv

-----------------------------------------------------------------------------
(* The invariant                                                           *)

(* The keys each sentinel is responsible for.                              *)
InitLo == [n \in NodeIds |-> IF n = 1 THEN KEY_MAX ELSE KEY_MIN]
InitHi == [n \in NodeIds |-> IF n = 0 THEN KEY_MAX ELSE KEY_MAX + 1]

LEMMA InitFacts ==
    ASSUME Init
    PROVE  /\ TypeOK
           /\ node[0] = Leaf(KEY_MIN) /\ node[1] = Leaf(KEY_MAX)
           /\ node[root] = Internal(KEY_MAX, 0, 1)
           /\ \A n \in NodeIds : node[n].lock = Unlocked
           /\ \A t \in Threads : at[t].pc = "idle" /\ at[t] = Idle
<1>1. /\ Unlocked \in LockWord /\ 0 \in NodeIds /\ 1 \in NodeIds
  BY Constants DEF Unlocked, LockWord
<1>2. Idle \in Locals /\ Idle.pc = "idle"
  <2>1. "idle" \in TicketPC /\ NULL \in Ptr /\ 0 \in Sides
    BY DEF TicketPC, Ptr, Sides
  <2> HIDE DEF NULL
  <2> QED
    BY <1>1, <2>1 DEF Idle, Locals
<1>3. at \in [Threads -> Locals] /\ \A t \in Threads : at[t].pc = "idle" /\ at[t] = Idle
  BY <1>2 DEF Init
<1>4. /\ node \in [NodeIds -> {Leaf(KEY_MIN), Leaf(KEY_MAX), Internal(KEY_MAX, 0, 1)}]
      /\ node[0] = Leaf(KEY_MIN) /\ node[1] = Leaf(KEY_MAX)
      /\ node[root] = Internal(KEY_MAX, 0, 1)
  BY Constants DEF Init, root
<1>5. ASSUME NEW k \in Nat
      PROVE  /\ Leaf(k) \in [key : Nat, child : [Sides -> Ptr], lock : LockWord]
             /\ Leaf(k).lock = Unlocked
             /\ Leaf(k).child[0] = NULL /\ Leaf(k).child[1] = NULL
  <2>1. [s \in Sides |-> NULL] \in [Sides -> Ptr]
    BY DEF Ptr
  <2> QED
    BY <1>1, <1>5, <2>1 DEF Leaf, Sides
<1>6. ASSUME NEW k \in Nat
      PROVE  /\ Internal(k, 0, 1) \in [key : Nat, child : [Sides -> Ptr], lock : LockWord]
             /\ Internal(k, 0, 1).lock = Unlocked
             /\ Internal(k, 0, 1).child[0] = 0 /\ Internal(k, 0, 1).child[1] = 1
  <2>1. [s \in Sides |-> IF s = 0 THEN 0 ELSE 1] \in [Sides -> Ptr]
    BY <1>1 DEF Ptr
  <2> QED
    BY <1>1, <1>6, <2>1 DEF Internal, Sides
<1> DEFINE NodeSet == [key : Nat, child : [Sides -> Ptr], lock : LockWord]
<1>k. \A x \in {Leaf(KEY_MIN), Leaf(KEY_MAX), Internal(KEY_MAX, 0, 1)} :
             x \in NodeSet /\ x.lock = Unlocked /\ (x.child[0] = NULL <=> x.child[1] = NULL)
  <2>1. KEY_MIN \in Nat /\ KEY_MAX \in Nat /\ 0 # NULL /\ 1 # NULL
    BY Constants DEF NULL
  <2> HIDE DEF NodeSet
  <2>2. /\ Leaf(KEY_MIN) \in NodeSet /\ Leaf(KEY_MIN).lock = Unlocked
        /\ Leaf(KEY_MIN).child[0] = NULL /\ Leaf(KEY_MIN).child[1] = NULL
    BY <1>5, <2>1 DEF NodeSet
  <2>3. /\ Leaf(KEY_MAX) \in NodeSet /\ Leaf(KEY_MAX).lock = Unlocked
        /\ Leaf(KEY_MAX).child[0] = NULL /\ Leaf(KEY_MAX).child[1] = NULL
    BY <1>5, <2>1 DEF NodeSet
  <2>4. /\ Internal(KEY_MAX, 0, 1) \in NodeSet /\ Internal(KEY_MAX, 0, 1).lock = Unlocked
        /\ Internal(KEY_MAX, 0, 1).child[0] = 0 /\ Internal(KEY_MAX, 0, 1).child[1] = 1
    BY <1>6, <2>1 DEF NodeSet
  <2> QED
    BY <2>1, <2>2, <2>3, <2>4
<1>7. /\ node \in [NodeIds -> NodeSet]
      /\ \A n \in NodeIds : node[n].lock = Unlocked
  <2> HIDE DEF NodeSet
  <2> QED
    BY <1>4, <1>k
<1>8. \A n \in NodeIds : node[n].child[0] = NULL <=> node[n].child[1] = NULL
  <2> HIDE DEF NodeSet
  <2> QED
    BY <1>4, <1>k
<1>9. /\ call \in [Threads -> CallSet \cup {NoCall}] /\ stage \in 1 .. 3
      /\ tpc \in [Threads -> ThreadPC]
  BY DEF Init, BenchInit, ThreadPC
<1>10. /\ allocated \subseteq NodeIds /\ limbo \subseteq NodeIds /\ inOp \subseteq Threads
       /\ waits \in [NodeIds -> SUBSET Threads]
  BY Constants DEF Init, Rec!Init
<1> QED
  BY <1>3, <1>4, <1>7, <1>8, <1>9, <1>10 DEF TypeOK

LEMMA InitInv ==
    ASSUME Init
    PROVE  IInv /\ present = {}
<1> DEFINE T == {0, 1, root}
           V == [t \in Threads |-> {}]
<1>1. /\ T \in SUBSET NodeIds /\ InitLo \in [NodeIds -> Int]
      /\ InitHi \in [NodeIds -> Int] /\ V \in [Threads -> SUBSET NodeIds]
  BY Constants DEF InitLo, InitHi
<1>2. /\ TypeOK
      /\ node[0] = Leaf(KEY_MIN) /\ node[1] = Leaf(KEY_MAX)
      /\ node[root] = Internal(KEY_MAX, 0, 1)
      /\ \A n \in NodeIds : node[n].lock = Unlocked
      /\ \A t \in Threads : at[t].pc = "idle" /\ at[t] = Idle
  BY InitFacts
<1>3. /\ allocated = T /\ limbo = {} /\ inOp = {}
      /\ \A t \in Threads : call[t] = NoCall /\ tpc[t] = "none"
  BY DEF Init, Rec!Init, BenchInit
<1>4. ControlInv
  BY <1>2, <1>3 DEF ControlInv, ControlOf, LoopOf
<1>5. /\ node[0].key = KEY_MIN /\ node[0].child[0] = NULL
      /\ node[1].key = KEY_MAX /\ node[1].child[0] = NULL
      /\ node[root].key = KEY_MAX
      /\ node[root].child[0] = 0 /\ node[root].child[1] = 1
  BY <1>2 DEF Leaf, Internal, Sides
<1>6. IsLeaf(0) /\ IsLeaf(1) /\ ~IsLeaf(root)
  BY <1>5 DEF IsLeaf, NULL
<1>7. /\ InitLo[0] = KEY_MIN /\ InitLo[1] = KEY_MAX /\ InitLo[root] = KEY_MIN
      /\ InitHi[0] = KEY_MAX /\ InitHi[1] = KEY_MAX + 1 /\ InitHi[root] = KEY_MAX + 1
  BY Constants DEF InitLo, InitHi
<1>8. KEY_MIN \in Int /\ KEY_MAX \in Int /\ KEY_MIN < KEY_MAX
  BY Constants, BenchAssumption, TicketAssumption
<1>9. Shape(T, InitLo, InitHi)
  <2>1. Sentinels(T, InitLo, InitHi)
    BY <1>5, <1>6, <1>7 DEF Sentinels
  <2>2. /\ Routes(T, InitLo, InitHi, 0) /\ Routes(T, InitLo, InitHi, 1)
        /\ Routes(T, InitLo, InitHi, root)
    BY <1>5, <1>6, <1>7, <1>8 DEF Routes, Spans
  <2>3. /\ Apart(InitLo, InitHi, 0, 1) /\ Apart(InitLo, InitHi, 1, 0)
        /\ Under(InitLo, InitHi, 0, root) /\ Under(InitLo, InitHi, 1, root)
    BY <1>5, <1>6, <1>7, <1>8 DEF Apart, Under
  <2> QED
    BY <2>1, <2>2, <2>3 DEF Shape
<1>10. \A n \in NodeIds : ~IsRemoved(n)
  <2>1. Unlocked # TLN_REMOVED
    BY Constants DEF Unlocked, TLN_REMOVED, Sides
  <2> QED
    BY <1>2, <2>1 DEF IsRemoved
<1>11. LockInv(T)
  <2>1. \A t \in Threads, n \in Ptr, s \in Sides : ~Holds(t, n, s)
    BY <1>2 DEF Holds
  <2>2. \A n \in NodeIds, s \in Sides : FreeOrHeld(n, s)
    BY <1>2 DEF FreeOrHeld, Unlocked
  <2>3. \A t \in Threads, n \in Ptr : ~Unlinks(t, n)
    BY <1>2 DEF Unlinks
  <2> QED
    BY <1>1, <1>10, <2>1, <2>2, <2>3 DEF LockInv
<1>12. OwnInv(T)
  <2>1. \A t \in Threads : Own(t) = {}
    BY <1>2 DEF Own, Fresh2, Dead
  <2> QED
    BY <1>3, <2>1 DEF OwnInv
<1>13. WayInv(T, InitLo, InitHi, V) /\ SeenInv(T)
  BY <1>3 DEF WayInv, SeenInv, SeenOf
<1>14. \A t \in Threads : Position(V, t)
  BY <1>2 DEF Position
<1> HIDE DEF T, V
<1>15. Inv(T, InitLo, InitHi, V)
  BY <1>2, <1>4, <1>9, <1>11, <1>12, <1>13, <1>14 DEF Inv
<1>16. present = {}
  <2>1. present = Contents(T)
    BY <1>1, <1>15, PresentIs DEF Inv
  <2>2. \A n \in T : IsLeaf(n) => node[n].key \notin Keys
    BY <1>5, <1>6, Constants DEF T
  <2> QED
    BY <2>1, <2>2 DEF Contents
<1> QED
  BY <1>1, <1>15, <1>16 DEF IInv

(* The dictionary stays as it is when the nodes of the tree do.            *)
NodesKept(T) ==
    \A n \in T : node'[n].key = node[n].key /\ node'[n].child = node[n].child

LEMMA SamePresent ==
    ASSUME NEW T \in SUBSET NodeIds, NEW lo \in [NodeIds -> Int],
           NEW hi \in [NodeIds -> Int], NEW V \in [Threads -> SUBSET NodeIds],
           Inv(T, lo, hi, V), Inv(T, lo, hi, V)', NodesKept(T)
    PROVE  present' = present
<1>1. present = Contents(T)
  BY PresentIs DEF Inv
<1>2. present' = Contents(T)'
  BY PresentIsNext DEF Inv
<1>3. Contents(T)' = Contents(T)
  BY DEF Contents, IsLeaf, NodesKept
<1> QED
  BY <1>1, <1>2, <1>3

LEMMA LockOnly ==
    ASSUME TypeOK, NEW x, NEW w, node' = [node EXCEPT ![x].lock = w],
           NEW T \in SUBSET NodeIds
    PROVE  NodesKept(T)
<1>1. node \in [NodeIds -> [key : Nat, child : [Sides -> Ptr], lock : LockWord]]
  BY DEF TypeOK
<1> QED
  BY <1>1 DEF NodesKept

(* The steps of an operation that lock and unlock.                         *)
LockingStep(t) == LockParent(t) \/ LockBoth(t) \/ Revert(t) \/ Unlock(t)

LEMMA LockingKeeps ==
    ASSUME NEW T \in SUBSET NodeIds, NEW lo \in [NodeIds -> Int],
           NEW hi \in [NodeIds -> Int], NEW V \in [Threads -> SUBSET NodeIds],
           Inv(T, lo, hi, V), NoWrap, NEW t \in Threads, LockingStep(t)
    PROVE  Inv(T, lo, hi, V)' /\ NodesKept(T) /\ UNCHANGED benchVars
<1>1. Inv(T, lo, hi, V)'
  BY LockParentInv, LockBothInv, RevertInv, UnlockInv DEF LockingStep
<1>2. UNCHANGED benchVars
  BY DEF LockingStep, LockParent, LockBoth, Revert, Unlock
<1>3. node' = node \/ \E x, w : node' = [node EXCEPT ![x].lock = w]
  BY DEF LockingStep, LockParent, LockBoth, Revert, Unlock
<1>4. TypeOK
  BY DEF Inv
<1> QED
  BY <1>1, <1>2, <1>3, <1>4, LockOnly DEF NodesKept

LEMMA LockPredKeeps ==
    ASSUME NEW T \in SUBSET NodeIds, NEW lo \in [NodeIds -> Int],
           NEW hi \in [NodeIds -> Int], NEW V \in [Threads -> SUBSET NodeIds],
           Inv(T, lo, hi, V), NoWrap, NEW t \in Threads, LockPred(t)
    PROVE  Inv(T, lo, hi, V)' /\ NodesKept(T) /\ UNCHANGED benchVars
<1>1. Inv(T, lo, hi, V)' /\ TypeOK /\ OwnInv(T)
  BY LockPredInv DEF Inv
<1>2. UNCHANGED benchVars
  BY DEF LockPred
<1>3. CASE node' = node
  BY <1>1, <1>2, <1>3 DEF NodesKept
<1>4. CASE node' # node
  <2>a. PICK f : f = Fresh(allocated)
    OBVIOUS
  <2>b. PICK r : r = Fresh(allocated \cup {f})
    OBVIOUS
  <2>1. Cardinality(NodeIds \ allocated) >= 2
    BY DEF LockPred
  <2>2. f \notin allocated /\ r \notin allocated
    BY <1>1, <2>a, <2>b, <2>1, FreshNodes
  <2>c. PICK p : p = at[t].pred
    OBVIOUS
  <2>d. PICK w : w = Locked(node[p].lock, at[t].right)
    OBVIOUS
  <2>3. Builds(p, w, at[t].curr, key(t), f, r)
    BY <1>4, <2>a, <2>b, <2>c, <2>d DEF LockPred, Builds
  <2>4. T \subseteq allocated
    BY <1>1 DEF OwnInv
  <2>5. node \in [NodeIds -> [key : Nat, child : [Sides -> Ptr], lock : LockWord]]
    BY <1>1 DEF TypeOK
  <2>6. NodesKept(T)
    BY <2>2, <2>3, <2>4, <2>5 DEF NodesKept, Builds
  <2> QED
    BY <1>1, <1>2, <2>6
<1> QED
  BY <1>3, <1>4

LEMMA FreeKeeps ==
    ASSUME NEW T \in SUBSET NodeIds, NEW lo \in [NodeIds -> Int],
           NEW hi \in [NodeIds -> Int], NEW V \in [Threads -> SUBSET NodeIds],
           Inv(T, lo, hi, V), FreeNode
    PROVE  Inv(T, lo, hi, V)' /\ NodesKept(T) /\ UNCHANGED benchVars
<1>1. Inv(T, lo, hi, V)' /\ TypeOK /\ OwnInv(T)
  BY FreeInv DEF Inv
<1>2. PICK x \in limbo : /\ node' = [node EXCEPT ![x] = Leaf(KEY_MIN)]
                         /\ UNCHANGED benchVars
  BY DEF FreeNode
<1>3. \A n \in T : n # x
  BY <1>1, <1>2 DEF OwnInv
<1>4. node \in [NodeIds -> [key : Nat, child : [Sides -> Ptr], lock : LockWord]]
  BY <1>1 DEF TypeOK
<1>5. NodesKept(T)
  BY <1>2, <1>3, <1>4 DEF NodesKept
<1> QED
  BY <1>1, <1>2, <1>5

(* The steps that change neither the dictionary nor an operation's result. *)
Hidden(t) ==
    \/ Loop(t) \/ GetGuard(t) \/ ReadVersion(t) \/ LockPred(t)
    \/ LockingStep(t) \/ RetireBoth(t) \/ DropGuard(t)
Silent == MainStep \/ FreeNode \/ Finished \/ \E t \in Threads : Hidden(t)

LEMMA NextCases ==
    ASSUME [Next]_vars
    PROVE  \/ Silent \/ UNCHANGED vars
           \/ \E t \in Threads : \/ Operation(t) \/ Descend(t) \/ Link(t)
                                 \/ Unlink(t) \/ Return(t)
  BY DEF Next, ThreadStep, Silent, Hidden, LockingStep

(* What a silent step says of the dictionary and of the calls.             *)
Unnoticed == present' = present /\ call' = call

LEMMA SameNodes ==
    ASSUME UNCHANGED node
    PROVE  present' = present
  BY DEF present, LeafKeys, Below, IsLeaf

LEMMA HiddenKeeps ==
    ASSUME NEW T \in SUBSET NodeIds, NEW lo \in [NodeIds -> Int],
           NEW hi \in [NodeIds -> Int], NEW V \in [Threads -> SUBSET NodeIds],
           Inv(T, lo, hi, V), NoWrap, NEW t \in Threads, Hidden(t)
    PROVE  /\ \E W \in [Threads -> SUBSET NodeIds] : Inv(T, lo, hi, W)'
           /\ Unnoticed
<1>1. CASE Loop(t)
  <2>1. UNCHANGED node /\ call' = call
    BY <1>1 DEF Loop, Pre, SeeStart, IsStopped, Post, Leave, treeVars
  <2> QED
    BY <1>1, <2>1, LoopInv, SameNodes DEF Unnoticed
<1>2. CASE GetGuard(t)
  <2>1. UNCHANGED node /\ call' = call
    BY <1>2 DEF GetGuard, benchVars
  <2> QED
    BY <1>2, <2>1, GetGuardInv, SameNodes DEF Unnoticed
<1>3. CASE ReadVersion(t)
  <2>1. UNCHANGED node /\ call' = call
    BY <1>3 DEF ReadVersion, benchVars
  <2> QED
    BY <1>3, <2>1, ReadVersionStep, SameNodes DEF Unnoticed
<1>4. CASE LockPred(t)
  <2>1. Inv(T, lo, hi, V)' /\ NodesKept(T) /\ UNCHANGED benchVars
    BY <1>4, LockPredKeeps
  <2> QED
    BY <2>1, SamePresent DEF Unnoticed, benchVars
<1>5. CASE LockingStep(t)
  <2>1. Inv(T, lo, hi, V)' /\ NodesKept(T) /\ UNCHANGED benchVars
    BY <1>5, LockingKeeps
  <2> QED
    BY <2>1, SamePresent DEF Unnoticed, benchVars
<1>6. CASE RetireBoth(t)
  <2>1. UNCHANGED node /\ call' = call
    BY <1>6 DEF RetireBoth, Retire, benchVars
  <2> QED
    BY <1>6, <2>1, RetireInv, SameNodes DEF Unnoticed
<1>7. CASE DropGuard(t)
  <2>1. UNCHANGED node /\ call' = call
    BY <1>7 DEF DropGuard, benchVars
  <2> QED
    BY <1>7, <2>1, DropGuardInv, SameNodes DEF Unnoticed
<1> QED
  BY <1>1, <1>2, <1>3, <1>4, <1>5, <1>6, <1>7 DEF Hidden

LEMMA SilentKeeps ==
    ASSUME NEW T \in SUBSET NodeIds, NEW lo \in [NodeIds -> Int],
           NEW hi \in [NodeIds -> Int], NEW V \in [Threads -> SUBSET NodeIds],
           Inv(T, lo, hi, V), NoWrap, Silent \/ UNCHANGED vars
    PROVE  /\ \E W \in [Threads -> SUBSET NodeIds] : Inv(T, lo, hi, W)'
           /\ Unnoticed
<1>1. CASE MainStep
  <2>1. UNCHANGED node /\ call' = call
    BY <1>1 DEF MainStep, Main, SkipStage, CreateThreads, StartThreads,
                JoinThreads, treeVars
  <2> QED
    BY <1>1, <2>1, MainInv, SameNodes DEF Unnoticed
<1>2. CASE FreeNode
  <2>1. Inv(T, lo, hi, V)' /\ NodesKept(T) /\ UNCHANGED benchVars
    BY <1>2, FreeKeeps
  <2> QED
    BY <2>1, SamePresent DEF Unnoticed, benchVars
<1>3. CASE UNCHANGED vars
  <2>1. UNCHANGED node /\ call' = call
    BY <1>3 DEF vars, benchVars, treeVars
  <2> QED
    BY <1>3, <2>1, StutterInv, SameNodes DEF Unnoticed
<1>4. ASSUME NEW t \in Threads, Hidden(t)
      PROVE  /\ \E W \in [Threads -> SUBSET NodeIds] : Inv(T, lo, hi, W)'
             /\ Unnoticed
  BY <1>4, HiddenKeeps
<1> QED
  BY <1>1, <1>2, <1>3, <1>4 DEF Silent, Finished

(* The invariant is inductive.                                             *)
LEMMA NextInv ==
    ASSUME IInv, NoWrap, [Next]_vars
    PROVE  IInv'
<1>1. PICK T \in SUBSET NodeIds, lo, hi \in [NodeIds -> Int],
           V \in [Threads -> SUBSET NodeIds] : Inv(T, lo, hi, V)
  BY DEF IInv
<1>2. CASE Silent \/ UNCHANGED vars
  BY <1>1, <1>2, SilentKeeps DEF IInv
<1>3. ASSUME NEW t \in Threads, Operation(t) PROVE IInv'
  BY <1>1, <1>3, OperationInv DEF IInv
<1>4. ASSUME NEW t \in Threads, Descend(t) PROVE IInv'
  BY <1>1, <1>4, DescendStep DEF IInv
<1>5. ASSUME NEW t \in Threads, Link(t) PROVE IInv'
  BY <1>1, <1>5, LinkInv DEF IInv
<1>6. ASSUME NEW t \in Threads, Unlink(t) PROVE IInv'
  BY <1>1, <1>6, UnlinkInv DEF IInv
<1>7. ASSUME NEW t \in Threads, Return(t) PROVE IInv'
  BY <1>1, <1>7, ReturnInv DEF IInv
<1> QED
  BY <1>2, <1>3, <1>4, <1>5, <1>6, <1>7, NextCases

(* As long as no version of a lock wraps around, every reachable state of  *)
(* bst_tk_insert, bst_tk_delete and bst_tk_find, under any interleaving    *)
(* with the other threads and with the reclaimer, has a tree, the key      *)
(* interval of each of its nodes and the nodes each thread may still see,  *)
(* as Inv describes them.                                                  *)
THEOREM InductiveInvariant == Spec /\ []NoWrap => []IInv
<1>1. Init => IInv
  BY InitInv
<1>2. IInv /\ NoWrap /\ [Next]_vars => IInv'
  BY NextInv
<1> QED
  BY <1>1, <1>2, PTL DEF Spec

(* What an operation is about to dereference is on its way, or locked.     *)
LEMMA TouchesAllocated ==
    ASSUME NEW T \in SUBSET NodeIds, NEW lo \in [NodeIds -> Int],
           NEW hi \in [NodeIds -> Int], NEW V \in [Threads -> SUBSET NodeIds],
           Inv(T, lo, hi, V), NEW t \in Threads
    PROVE  Touches(t) \subseteq allocated
<1>a. PICK a : a = at[t]
  OBVIOUS
<1>1. /\ TypeOK /\ ControlOf(t) /\ Position(V, t) /\ LockInv(T) /\ OwnInv(T)
  BY DEF Inv, ControlInv
<1>2. T \subseteq allocated /\ T \subseteq NodeIds
  BY <1>1 DEF OwnInv
<1>3. \A n : t \in inOp /\ n \in V[t] => n \in allocated
  BY WayAllocated
<1>4. CASE a.pc \in {"version", "child"}
  <2>1. t \in inOp /\ a.curr \in V[t]
    BY <1>a, <1>1, <1>4 DEF ControlOf, Position
  <2>2. Touches(t) = {a.curr}
    BY <1>a, <1>4 DEF Touches
  <2> QED
    BY <1>3, <2>1, <2>2
<1>5. CASE a.pc \in {"lock", "link"}
  <2>1. t \in inOp /\ a.curr \in V[t] /\ a.pred \in V[t]
    BY <1>a, <1>1, <1>5 DEF ControlOf, Position, CameBy
  <2>2. Touches(t) = {a.curr, a.pred}
    BY <1>a, <1>5 DEF Touches
  <2> QED
    BY <1>3, <2>1, <2>2
<1>6. CASE a.pc \in {"lockParent", "lockBoth", "unlink"}
  <2>1. t \in inOp /\ op(t) = "remove"
    BY <1>a, <1>1, <1>6 DEF ControlOf
  <2>2. a.curr \in V[t] /\ a.pred \in V[t] /\ a.ppred \in V[t]
    BY <1>a, <1>1, <1>6, <2>1 DEF Position, CameBy
  <2>3. Touches(t) = {a.curr, a.pred, a.ppred}
    BY <1>a, <1>6 DEF Touches
  <2> QED
    BY <1>3, <2>1, <2>2, <2>3
<1>7. CASE a.pc \in {"revert", "unlock"}
  <2>1. a.pc = "revert" => op(t) # "insert"
    BY <1>a, <1>1 DEF ControlOf
  <2>2. Touches(t) = {HeldNode(t)}
    BY <1>a, <1>7, <2>1 DEF Touches, HeldNode
  <2>3. HeldNode(t) \in Ptr /\ HeldSide(t) \in Sides
    BY <1>1 DEF TypeOK, Locals, HeldNode, HeldSide
  <2>4. Holds(t, HeldNode(t), HeldSide(t))
    BY <1>a, <1>7 DEF Holds
  <2>5. HeldNode(t) \in T
    BY <1>1, <2>3, <2>4 DEF LockInv, HolderOK
  <2> QED
    BY <1>2, <2>2, <2>5
<1>8. CASE a.pc \in {"retireCurr", "retirePred"}
  <2>1. t \in inOp /\ op(t) = "remove"
    BY <1>a, <1>1, <1>8 DEF ControlOf
  <2>2. a.curr \in V[t] /\ a.pred \in V[t]
    BY <1>a, <1>1, <1>8, <2>1 DEF Position
  <2>3. Touches(t) = {a.curr, a.pred}
    BY <1>a, <1>8 DEF Touches
  <2> QED
    BY <1>3, <2>1, <2>2, <2>3
<1>9. CASE a.pc \in {"idle", "guard", "end", "retry"}
  <2>1. Touches(t) = {}
    BY <1>a, <1>9 DEF Touches
  <2> QED
    BY <2>1
<1>10. a.pc \in TicketPC
  BY <1>a, <1>1 DEF TypeOK, Locals
<1> QED
  BY <1>4, <1>5, <1>6, <1>7, <1>8, <1>9, <1>10 DEF TicketPC

(* No operation dereferences a node that was freed, or the NULL in pred    *)
(* and ppred: bst_tk_insert, bst_tk_delete and bst_tk_find, walking        *)
(* without locks over nodes that others unlink, retire and free, are kept  *)
(* safe by their guard and by the versions they remember.                  *)
THEOREM NothingFreedIsTouched == Spec /\ []NoWrap => []NoFreedAccess
<1>1. IInv => NoFreedAccess
  <2> SUFFICES ASSUME IInv PROVE NoFreedAccess
    OBVIOUS
  <2>1. PICK T \in SUBSET NodeIds, lo, hi \in [NodeIds -> Int],
             V \in [Threads -> SUBSET NodeIds] : Inv(T, lo, hi, V)
    BY DEF IInv
  <2> QED
    BY <2>1, TouchesAllocated DEF NoFreedAccess
<1> QED
  BY <1>1, InductiveInvariant, PTL

(* At every moment the tree under the root is a search tree, with every    *)
(* key in one leaf and without a retired or freed node: what the           *)
(* benchmark's validateStructure expects when all threads are through.     *)
THEOREM TreeStaysOrdered == Spec /\ []NoWrap => []TreeOK
<1>1. IInv => TreeOK
  <2> SUFFICES ASSUME IInv PROVE TreeOK
    OBVIOUS
  <2>1. PICK T \in SUBSET NodeIds, lo, hi \in [NodeIds -> Int],
             V \in [Threads -> SUBSET NodeIds] : Inv(T, lo, hi, V)
    BY DEF IInv
  <2>2. TypeOK /\ Shape(T, lo, hi) /\ OwnInv(T)
    BY <2>1 DEF Inv
  <2> QED
    BY <2>2, ShapeTreeOK
<1> QED
  BY <1>1, InductiveInvariant, PTL

-----------------------------------------------------------------------------
(* The tree implements the dictionary                                      *)

(* The dictionary's view of a call.                                        *)
LEMMA ViewOfCall ==
    ASSUME NEW c \in CallSet
    PROVE  /\ PointCall(c) # NoCall /\ c # NoCall
           /\ PointCall(c).op = c.op /\ PointCall(c).key = c.key
           /\ PointCall(c).seen = c.seen /\ PointCall(c).result = c.result
<1>1. c.op # "none"
  BY DEF CallSet
<1>2. PointCall(c).op # NoCall.op /\ c.op # NoCall.op
  BY <1>1 DEF PointCall, NoCall
<1> QED
  BY <1>2 DEF PointCall

(* It depends on the call alone.                                           *)
LEMMA ViewFrame ==
    ASSUME NEW t \in Threads, call'[t] = call[t]
    PROVE  pointCall'[t] = pointCall[t]
  BY DEF pointCall

LEMMA ViewPending ==
    ASSUME TypeOK, NEW t \in Threads, call[t] # NoCall
    PROVE  /\ call[t] \in CallSet
           /\ pointCall[t] = PointCall(call[t]) /\ pointCall[t] # NoCall
           /\ pointCall[t].op = op(t) /\ pointCall[t].key = key(t)
           /\ pointCall[t].seen = call[t].seen
           /\ pointCall[t].result = call[t].result
<1>1. call[t] \in CallSet
  BY DEF TypeOK
<1>2. pointCall[t] = PointCall(call[t])
  BY DEF pointCall
<1> QED
  BY <1>1, <1>2, ViewOfCall DEF op, key

(* An operation is called.                                                 *)
LEMMA CallStep ==
    ASSUME NEW T \in SUBSET NodeIds, NEW lo \in [NodeIds -> Int],
           NEW hi \in [NodeIds -> Int], NEW V \in [Threads -> SUBSET NodeIds],
           Inv(T, lo, hi, V), NEW t \in Threads, Operation(t)
    PROVE  Dict!Next
<1>1. TypeOK /\ ControlOf(t) /\ LoopOf(t)
  BY DEF Inv, ControlInv
<1>2. UNCHANGED node /\ tpc[t] = "step"
  BY DEF Operation, StepCall, To
<1>3. PICK o \in Current.ops, k \in Keys, h \in Keys :
          call' = [call EXCEPT ![t] = NewCall(o, k, h, k \in present)]
  BY DEF Operation, StepCall
<1>4. o \in {"insert", "remove", "get"}
  BY <1>1, TicketAssumption DEF TypeOK, Current
<1> DEFINE there == k \in present
           c == NewCall(o, k, h, there)
<1> HIDE DEF there
<1>5. /\ c.op = o
      /\ PointCall(c) = [op |-> o, key |-> k, seen |-> {there}, result |-> "pending"]
  BY DEF NewCall, PointCall
<1> HIDE DEF c
<1>6. /\ call[t] = NoCall /\ call'[t] = c
      /\ \A u \in Threads \ {t} : call'[u] = call[u]
  BY <1>1, <1>2, <1>3 DEF LoopOf, TypeOK, c, there
<1>7. present' = present
  BY <1>2, SameNodes
<1>8. pointCall[t] = NoCall /\ c # NoCall
  BY <1>4, <1>5, <1>6 DEF pointCall, NoCall
<1>9. \A u \in Threads \ {t} : pointCall'[u] = pointCall[u]
  BY <1>6, ViewFrame
<1>10. pointCall'[t] = PointCall(c)
  BY <1>6, <1>8 DEF pointCall
<1>11. pointCall' = [pointCall EXCEPT ![t] = PointCall(c)]
  BY <1>9, <1>10 DEF pointCall
<1>12. pointCall' = [pointCall EXCEPT
          ![t] = [op |-> o, key |-> k, seen |-> {there}, result |-> "pending"]]
  BY <1>5, <1>11
<1>13. Dict!Call(t, o, k)
  BY <1>7, <1>8, <1>12, Zenon DEF Dict!Call, there
<1> QED
  BY <1>4, <1>13 DEF Dict!Next

(* The result of a call and nothing else of it is decided.                 *)
LEMMA ViewDecided ==
    ASSUME TypeOK, NEW t \in Threads, call[t] # NoCall,
           NEW r \in {"success", "failure"}, call'[t] = [call[t] EXCEPT !.result = r]
    PROVE  pointCall'[t] = [pointCall[t] EXCEPT !.result = r]
<1>1. call[t] \in CallSet /\ pointCall[t] = PointCall(call[t])
  BY ViewPending
<1>2. /\ call'[t].op = call[t].op /\ call'[t].key = call[t].key
      /\ call'[t].seen = call[t].seen /\ call'[t].result = r
  BY <1>1 DEF CallSet
<1>3. PointCall(call'[t]) = [PointCall(call[t]) EXCEPT !.result = r]
  BY <1>2 DEF PointCall
<1>4. call'[t] # NoCall
  <2>1. call'[t].op # "none"
    BY <1>1, <1>2 DEF CallSet
  <2> QED
    BY <2>1 DEF NoCall
<1> QED
  BY <1>1, <1>3, <1>4 DEF pointCall

(* An operation that finds what it does not want to change is answered as  *)
(* was right at a moment since its call, however long ago the nodes it     *)
(* walked over have left the tree.                                         *)
LEMMA AnswerStep ==
    ASSUME NEW T \in SUBSET NodeIds, NEW lo \in [NodeIds -> Int],
           NEW hi \in [NodeIds -> Int], NEW V \in [Threads -> SUBSET NodeIds],
           Inv(T, lo, hi, V), NEW t \in Threads, Descend(t)
    PROVE  Dict!Next \/ UNCHANGED <<present, pointCall>>
<1>1. TypeOK /\ UNCHANGED node /\ at[t].pc = "child"
  BY DEF Inv, Descend
<1>2. present' = present
  BY <1>1, SameNodes
<1>n. PICK next : next = node[at[t].curr].child[Side(key(t), at[t].curr)]
  OBVIOUS
<1>3. CASE UNCHANGED call
  BY <1>2, <1>3 DEF pointCall
<1>4. CASE call' # call
  <2>1. /\ call[t] # NoCall /\ call[t].result = "pending" /\ call[t] \in CallSet
        /\ IsLeaf(next) => (node[next].key = key(t)) \in call[t].seen
    BY <1>1, <1>n, NextOnWay
  <2>h. PICK hit \in BOOLEAN : hit = (node[next].key = key(t))
    OBVIOUS
  <2>2. /\ IsLeaf(next)
        /\ op(t) = "get" \/ (op(t) = "insert" <=> hit)
        /\ Decide(t, IF op(t) = "get" /\ hit THEN "success" ELSE "failure")
    BY <1>n, <1>4, <2>h DEF Descend, Side
  <2>3. hit \in call[t].seen
    BY <2>1, <2>2, <2>h
  <2>r. PICK r \in {"success", "failure"} :
            r = IF op(t) = "get" /\ hit THEN "success" ELSE "failure"
    OBVIOUS
  <2>4. Decide(t, r)
    BY <2>2, <2>r
  <2>5. call'[t] = [call[t] EXCEPT !.result = r]
        /\ \A u \in Threads \ {t} : call'[u] = call[u]
    BY <1>1, <2>4 DEF Decide, TypeOK
  <2>6. pointCall'[t] = [pointCall[t] EXCEPT !.result = r]
    BY <1>1, <2>1, <2>5, ViewDecided
  <2>7. \A u \in Threads \ {t} : pointCall'[u] = pointCall[u]
    BY <2>5, ViewFrame
  <2>8. pointCall' = [pointCall EXCEPT ![t].result = r]
    <3>1. /\ pointCall = [u \in Threads |-> pointCall[u]]
          /\ pointCall' = [u \in Threads |-> pointCall'[u]]
      BY DEF pointCall
    <3> QED
      BY <2>6, <2>7, <3>1
  <2>9. /\ pointCall[t] # NoCall /\ pointCall[t].op = op(t)
        /\ pointCall[t].seen = call[t].seen /\ pointCall[t].result = "pending"
    BY <1>1, <2>1, ViewPending
  <2>10. op(t) \in {"insert", "remove", "get"}
    BY <2>1 DEF CallSet, op
  <2>11. Dict!Answer(t)
    <3>1. CASE op(t) = "insert"
      BY <1>2, <2>2, <2>3, <2>r, <2>8, <2>9, <3>1 DEF Dict!Answer
    <3>2. CASE op(t) = "remove"
      BY <1>2, <2>2, <2>3, <2>r, <2>8, <2>9, <3>2 DEF Dict!Answer
    <3>3. CASE op(t) = "get"
      <4>1. r = Dict!Found(hit)
        BY <2>r, <3>3 DEF Dict!Found
      <4> QED
        BY <1>2, <2>3, <2>8, <2>9, <3>3, <4>1 DEF Dict!Answer
    <3> QED
      BY <2>10, <3>1, <3>2, <3>3
  <2> QED
    BY <2>9, <2>11 DEF Dict!Next
<1> QED
  BY <1>3, <1>4

(* The calls that are under way notice the effect of t's.                  *)
LEMMA ChangeStep ==
    ASSUME TypeOK, NEW t \in Threads, call[t] # NoCall, NEW there \in BOOLEAN,
           Effect(t, there)
    PROVE  Dict!Change(t, there)
<1>1. call \in [Threads -> CallSet \cup {NoCall}]
  BY DEF TypeOK
<1>2. pointCall[t].key = key(t)
  BY ViewPending
<1>3. pointCall'[t] = [pointCall[t] EXCEPT !.result = "success"]
  <2>1. call'[t] = [call[t] EXCEPT !.result = "success"]
    BY DEF Effect
  <2> QED
    BY <2>1, ViewDecided
<1>4. ASSUME NEW u \in Threads \ {t}
      PROVE  pointCall'[u] =
                IF pointCall[u] # NoCall /\ pointCall[u].key = pointCall[t].key
                THEN [pointCall[u] EXCEPT !.seen = @ \cup {there}]
                ELSE pointCall[u]
  <2>1. CASE call[u] = NoCall
    <3>1. call'[u] = call[u] /\ pointCall[u] = NoCall
      BY <2>1 DEF Effect, pointCall
    <3> QED
      BY <3>1, ViewFrame
  <2>2. CASE call[u] # NoCall /\ call[u].key # key(t)
    <3>1. call'[u] = call[u]
      BY <2>2 DEF Effect, key
    <3>2. pointCall[u].key = call[u].key
      BY <2>2, ViewPending DEF key
    <3>3. pointCall'[u] = pointCall[u]
      BY <3>1, ViewFrame
    <3> QED
      BY <1>2, <2>2, <3>2, <3>3
  <2>3. CASE call[u] # NoCall /\ call[u].key = key(t)
    <3>1. call'[u] = [call[u] EXCEPT !.seen = @ \cup {there}]
      BY <2>3 DEF Effect, key
    <3>2. /\ call[u] \in CallSet /\ pointCall[u] = PointCall(call[u])
          /\ pointCall[u] # NoCall /\ pointCall[u].key = call[u].key
          /\ pointCall[u].seen = call[u].seen
      BY <2>3, ViewPending DEF key
    <3> DEFINE grown == call[u].seen \cup {there}
    <3>3. /\ call'[u].op = call[u].op /\ call'[u].key = call[u].key
          /\ call'[u].seen = grown /\ call'[u].result = call[u].result
      BY <3>1, <3>2 DEF CallSet
    <3>4. pointCall[u].seen \cup {there} = grown
      BY <3>2
    <3> HIDE DEF grown
    <3>5. call'[u] # NoCall
      <4>1. call'[u].op # "none"
        BY <3>2, <3>3 DEF CallSet
      <4> QED
        BY <4>1 DEF NoCall
    <3>6. pointCall'[u] = [op |-> call[u].op, key |-> call[u].key,
                           seen |-> grown, result |-> call[u].result]
      BY <3>3, <3>5 DEF PointCall, pointCall
    <3>7. [PointCall(call[u]) EXCEPT !.seen = grown]
             = [op |-> call[u].op, key |-> call[u].key,
                seen |-> grown, result |-> call[u].result]
      BY DEF PointCall
    <3> QED
      BY <1>2, <2>3, <3>2, <3>4, <3>6, <3>7
  <2> QED
    BY <2>1, <2>2, <2>3
<1> QED
  BY <1>3, <1>4 DEF Dict!Change, pointCall

(* The link is the moment an insertion takes effect.                       *)
LEMMA LinkStep ==
    ASSUME NEW T \in SUBSET NodeIds, NEW lo \in [NodeIds -> Int],
           NEW hi \in [NodeIds -> Int], NEW V \in [Threads -> SUBSET NodeIds],
           Inv(T, lo, hi, V), NEW t \in Threads, Link(t)
    PROVE  /\ key(t) \notin present /\ present' = present \cup {key(t)}
           /\ Dict!Next
<1>1. TypeOK /\ ControlOf(t) /\ present = Contents(T)
  BY PresentIs DEF Inv, ControlInv
<1>2. PICK T2 \in SUBSET NodeIds, lo2, hi2 \in [NodeIds -> Int],
           W \in [Threads -> SUBSET NodeIds] :
           Inv(T2, lo2, hi2, W)' /\ Contents(T2)' = Contents(T) \cup {key(t)}
  BY LinkInv
<1>3. present' = Contents(T2)'
  BY <1>2, PresentIsNext DEF Inv
<1>4. key(t) \notin present /\ present' = present \cup {key(t)}
  BY <1>1, <1>2, <1>3, LinkInv
<1>5. at[t].pc = "link" /\ Effect(t, TRUE)
  BY DEF Link, Goto
<1>6. call[t] # NoCall /\ op(t) = "insert" /\ call[t].result = "pending"
  BY <1>1, <1>5 DEF ControlOf
<1>7. /\ pointCall[t] # NoCall /\ pointCall[t].op = "insert"
      /\ pointCall[t].key = key(t) /\ pointCall[t].result = "pending"
  BY <1>1, <1>6, ViewPending
<1>8. Dict!Change(t, TRUE)
  BY <1>1, <1>5, <1>6, ChangeStep
<1>9. Dict!Insert(t)
  BY <1>4, <1>7, <1>8 DEF Dict!Insert
<1> QED
  BY <1>4, <1>7, <1>9 DEF Dict!Next

(* The unlink is the moment a removal takes effect.                        *)
LEMMA UnlinkStep ==
    ASSUME NEW T \in SUBSET NodeIds, NEW lo \in [NodeIds -> Int],
           NEW hi \in [NodeIds -> Int], NEW V \in [Threads -> SUBSET NodeIds],
           Inv(T, lo, hi, V), NEW t \in Threads, Unlink(t)
    PROVE  /\ key(t) \in present /\ present' = present \ {key(t)}
           /\ Dict!Next
<1>1. TypeOK /\ ControlOf(t) /\ present = Contents(T)
  BY PresentIs DEF Inv, ControlInv
<1>2. PICK T2 \in SUBSET NodeIds, lo2, hi2 \in [NodeIds -> Int],
           W \in [Threads -> SUBSET NodeIds] :
           Inv(T2, lo2, hi2, W)' /\ Contents(T2)' = Contents(T) \ {key(t)}
  BY UnlinkInv
<1>3. present' = Contents(T2)'
  BY <1>2, PresentIsNext DEF Inv
<1>4. key(t) \in present /\ present' = present \ {key(t)}
  BY <1>1, <1>2, <1>3, UnlinkInv
<1>5. at[t].pc = "unlink" /\ Effect(t, FALSE)
  BY DEF Unlink, Goto
<1>6. call[t] # NoCall /\ op(t) = "remove" /\ call[t].result = "pending"
  BY <1>1, <1>5 DEF ControlOf
<1>7. /\ pointCall[t] # NoCall /\ pointCall[t].op = "remove"
      /\ pointCall[t].key = key(t) /\ pointCall[t].result = "pending"
  BY <1>1, <1>6, ViewPending
<1>8. Dict!Change(t, FALSE)
  BY <1>1, <1>5, <1>6, ChangeStep
<1>9. Dict!Remove(t)
  BY <1>4, <1>7, <1>8 DEF Dict!Remove
<1> QED
  BY <1>4, <1>7, <1>9 DEF Dict!Next

(* The return.                                                             *)
LEMMA ReturnStep ==
    ASSUME NEW T \in SUBSET NodeIds, NEW lo \in [NodeIds -> Int],
           NEW hi \in [NodeIds -> Int], NEW V \in [Threads -> SUBSET NodeIds],
           Inv(T, lo, hi, V), NEW t \in Threads, Return(t)
    PROVE  Dict!Next
<1>1. /\ call' = [call EXCEPT ![t] = NoCall] /\ call[t].result # "pending"
      /\ tpc[t] = "call" /\ UNCHANGED node
  BY DEF Return, StepReturn, To, treeVars
<1>2. TypeOK /\ LoopOf(t)
  BY DEF Inv, ControlInv
<1>3. call[t] # NoCall /\ present' = present
  BY <1>1, <1>2, SameNodes DEF LoopOf
<1>4. call'[t] = NoCall /\ \A u \in Threads \ {t} : call'[u] = call[u]
  BY <1>1, <1>2 DEF TypeOK
<1>5. pointCall'[t] = NoCall /\ \A u \in Threads \ {t} : pointCall'[u] = pointCall[u]
  BY <1>4, ViewFrame DEF pointCall
<1>6. pointCall' = [pointCall EXCEPT ![t] = NoCall]
  BY <1>5 DEF pointCall
<1>7. pointCall[t] # NoCall /\ pointCall[t].result # "pending"
  BY <1>1, <1>2, <1>3, ViewPending
<1>8. Dict!Return(t)
  BY <1>3, <1>6, <1>7 DEF Dict!Return
<1> QED
  BY <1>8 DEF Dict!Next

(* BST-TK is a dictionary: bst_tk_insert, bst_tk_delete and bst_tk_find    *)
(* behave as if each took effect in one step between its call and its      *)
(* return, the insertion when it links its nodes, the removal when it      *)
(* unlinks the leaf, and every other operation at a moment when its answer *)
(* was right.                                                              *)
THEOREM DictionaryRefinement == Spec /\ []NoWrap => DictionarySpec
<1>1. Init => Dict!Init
  <2> SUFFICES ASSUME Init PROVE Dict!Init
    OBVIOUS
  <2>1. present = {}
    BY InitInv
  <2>2. pointCall = [t \in Threads |-> NoCall]
    BY DEF Init, BenchInit, pointCall, NoCall
  <2> QED
    BY <2>1, <2>2 DEF Dict!Init
<1>2. IInv /\ NoWrap /\ [Next]_vars => [Dict!Next]_<<present, pointCall>>
  <2> SUFFICES ASSUME IInv, NoWrap, [Next]_vars
               PROVE  Dict!Next \/ UNCHANGED <<present, pointCall>>
    OBVIOUS
  <2>1. PICK T \in SUBSET NodeIds, lo, hi \in [NodeIds -> Int],
             V \in [Threads -> SUBSET NodeIds] : Inv(T, lo, hi, V)
    BY DEF IInv
  <2>2. CASE Silent \/ UNCHANGED vars
    <3>1. present' = present /\ call' = call
      BY <2>1, <2>2, SilentKeeps DEF Unnoticed
    <3> QED
      BY <3>1 DEF pointCall
  <2>3. ASSUME NEW t \in Threads, Operation(t) PROVE Dict!Next
    BY <2>1, <2>3, CallStep
  <2>4. ASSUME NEW t \in Threads, Descend(t)
        PROVE  Dict!Next \/ UNCHANGED <<present, pointCall>>
    BY <2>1, <2>4, AnswerStep
  <2>5. ASSUME NEW t \in Threads, Link(t) PROVE Dict!Next
    BY <2>1, <2>5, LinkStep
  <2>6. ASSUME NEW t \in Threads, Unlink(t) PROVE Dict!Next
    BY <2>1, <2>6, UnlinkStep
  <2>7. ASSUME NEW t \in Threads, Return(t) PROVE Dict!Next
    BY <2>1, <2>7, ReturnStep
  <2> QED
    BY <2>2, <2>3, <2>4, <2>5, <2>6, <2>7, NextCases
<1> QED
  BY <1>1, <1>2, InductiveInvariant, PTL DEF Spec, DictionarySpec, Dict!Spec

-----------------------------------------------------------------------------
(* Sums                                                                    *)

LEMMA SetInduction ==
    ASSUME NEW T, 0 \in T, \A m \in T : m \in Nat => m + 1 \in T
    PROVE  \A n \in Nat : n \in T
<1> SUFFICES ASSUME NEW n \in Nat, n \notin T PROVE FALSE
  OBVIOUS
<1> DEFINE missing == Nat \ T
<1>1. Min(missing) \in missing /\ \A y \in missing : Min(missing) <= y
  BY LeastElement
<1>x. PICK x \in missing : \A y \in missing : x <= y
  BY <1>1
<1>2. x \in Nat /\ x # 0 /\ x \notin T
  OBVIOUS
<1>3. x - 1 \in Nat /\ (x - 1) + 1 = x
  BY <1>2
<1>4. x - 1 \in T
  BY <1>x, <1>3
<1> QED
  BY <1>2, <1>3, <1>4

(* Sums over a finite set, as SumSet computes them: an element is   *)
(* taken out and what it weighs is added to the sum of the rest.           *)

IsSum(h, S, w) ==
    h = [s \in SUBSET S |-> IF s = {} THEN 0
                            ELSE w[s] + h[s \ {CHOOSE x \in s : TRUE}]]

(* There is such a sum, for every finite set.                             *)
LEMMA SumExists ==
    ASSUME NEW S, IsFiniteSet(S), NEW w
    PROVE  \E h : IsSum(h, S, w)
<1> DEFINE rest(s) == s \ {CHOOSE x \in s : TRUE}
           D(k) == {s \in SUBSET S : Cardinality(s) <= k}
           F(h, s) == IF s = {} THEN 0 ELSE w[s] + h[rest(s)]
           Upto(h, k) == h = [s \in D(k) |-> F(h, s)]
           T == {k \in Nat : \E h : Upto(h, k)}
<1>1. \A s \in SUBSET S : IsFiniteSet(s) /\ Cardinality(s) \in Nat
                           /\ Cardinality(s) <= Cardinality(S)
  BY FS_Subset, FS_CardinalityType
<1>2. \A s \in SUBSET S : s # {} =>
         /\ rest(s) \in SUBSET S /\ Cardinality(rest(s)) = Cardinality(s) - 1
         /\ Cardinality(s) # 0
  <2> SUFFICES ASSUME NEW s \in SUBSET S, s # {}
               PROVE  /\ rest(s) \in SUBSET S /\ Cardinality(rest(s)) = Cardinality(s) - 1
                      /\ Cardinality(s) # 0
    OBVIOUS
  <2>1. (CHOOSE x \in s : TRUE) \in s
    OBVIOUS
  <2>2. IsFiniteSet(s) /\ Cardinality(s) \in Nat
    BY <1>1
  <2> QED
    BY <2>1, <2>2, FS_RemoveElement, FS_EmptySet
<1> HIDE DEF rest
<1>3. 0 \in T
  <2> DEFINE h == [s \in D(0) |-> 0]
  <2>1. \A s \in D(0) : s = {}
    BY <1>1, <1>2
  <2>2. Upto(h, 0)
    BY <2>1
  <2> QED
    BY <2>2
<1>4. ASSUME NEW k \in T PROVE k + 1 \in T
  <2>1. k \in Nat /\ k + 1 \in Nat
    OBVIOUS
  <2>2. PICK h : Upto(h, k)
    OBVIOUS
  <2> DEFINE g == [s \in D(k + 1) |-> F(h, s)]
  <2>3. \A s \in D(k) : s \in D(k + 1)
    BY <1>1, <2>1
  <2>4. \A s \in D(k) : g[s] = h[s]
    BY <2>2, <2>3
  <2>5. \A s \in D(k + 1) : F(h, s) = F(g, s)
    <3> TAKE s \in D(k + 1)
    <3>1. CASE s = {}
      BY <3>1
    <3>2. CASE s # {}
      <4>1. rest(s) \in D(k)
        BY <1>1, <1>2, <2>1, <3>2
      <4> HIDE DEF g, D
      <4> QED
        BY <2>4, <4>1
    <3> QED
      BY <3>1, <3>2
  <2>6. \A s \in D(k + 1) : g[s] = F(g, s)
    <3>1. \A s \in D(k + 1) : g[s] = F(h, s)
      OBVIOUS
    <3> HIDE DEF g, F
    <3> QED
      BY <2>5, <3>1
  <2>7. g = [s \in D(k + 1) |-> g[s]]
    OBVIOUS
  <2>8. g = [s \in D(k + 1) |-> F(g, s)]
    <3> HIDE DEF g, F, D
    <3> QED
      BY <2>6, <2>7
  <2> HIDE DEF g
  <2> QED
    BY <2>1, <2>8
<1>5. \A k \in Nat : k \in T
  <2> HIDE DEF T
  <2> QED
    BY <1>3, <1>4, SetInduction
<1>6. Cardinality(S) \in Nat /\ D(Cardinality(S)) = SUBSET S
  BY <1>1, FS_CardinalityType
<1>7. PICK h : Upto(h, Cardinality(S))
  BY <1>5, <1>6
<1>8. h = [s \in SUBSET S |-> F(h, s)]
  <2> HIDE DEF D, F
  <2> QED
    BY <1>6, <1>7
<1> QED
  BY <1>8 DEF rest, IsSum

(* The order in which a sum takes out the elements does not matter.        *)
AddsUp(h, S, u) ==
    /\ \A x \in S : u[x] \in Nat
    /\ \A s \in SUBSET S :
          h[s] = IF s = {} THEN 0
                 ELSE u[CHOOSE x \in s : TRUE] + h[s \ {CHOOSE x \in s : TRUE}]

AddsUpInAnyOrder(h, S, u) ==
    \A s \in SUBSET S : h[s] \in Nat /\ \A x \in s : h[s] = u[x] + h[s \ {x}]

LEMMA SumStep ==
    ASSUME NEW S, IsFiniteSet(S), NEW u, NEW h, AddsUp(h, S, u)
    PROVE  AddsUpInAnyOrder(h, S, u)
<1> DEFINE first(s) == CHOOSE x \in s : TRUE
           Good(s) == h[s] \in Nat /\ \A x \in s : h[s] = u[x] + h[s \ {x}]
           T == {k \in Nat : \A s \in SUBSET S : Cardinality(s) <= k => Good(s)}
<1>0. \A x \in S : u[x] \in Nat
  BY DEF AddsUp
<1>1. \A s \in SUBSET S : IsFiniteSet(s) /\ Cardinality(s) \in Nat
  BY FS_Subset, FS_CardinalityType
<1>2. \A s \in SUBSET S : \A x \in s :
         /\ s \ {x} \in SUBSET S /\ Cardinality(s \ {x}) = Cardinality(s) - 1
         /\ Cardinality(s) # 0
  <2> TAKE s \in SUBSET S
  <2> TAKE x \in s
  <2>1. IsFiniteSet(s) /\ Cardinality(s) \in Nat
    BY <1>1
  <2> QED
    BY <2>1, FS_RemoveElement, FS_EmptySet
<1>3. /\ \A s \in SUBSET S : s # {} => first(s) \in s
      /\ \A s \in SUBSET S : s # {} => h[s] = u[first(s)] + h[s \ {first(s)}]
      /\ \A s \in SUBSET S : s = {} => h[s] = 0
  <2>1. \A s \in SUBSET S : s # {} => first(s) \in s
    OBVIOUS
  <2>2. \A s \in SUBSET S : h[s] = IF s = {} THEN 0 ELSE u[first(s)] + h[s \ {first(s)}]
    BY DEF AddsUp
  <2> HIDE DEF first
  <2> QED
    BY <2>1, <2>2
<1> HIDE DEF first
<1>4. 0 \in T
  <2> SUFFICES ASSUME NEW s \in SUBSET S, Cardinality(s) <= 0 PROVE Good(s)
    OBVIOUS
  <2>1. s = {}
    <3> SUFFICES ASSUME NEW x \in s PROVE FALSE
      OBVIOUS
    <3>1. Cardinality(s) \in Nat /\ Cardinality(s) # 0
      BY <1>1, <1>2
    <3> QED
      BY <3>1
  <2>2. h[s] = 0
    BY <1>3, <2>1
  <2> QED
    BY <2>1, <2>2
<1>5. ASSUME NEW k \in T PROVE k + 1 \in T
  <2> SUFFICES ASSUME NEW s \in SUBSET S, Cardinality(s) <= k + 1 PROVE Good(s)
    <3> HIDE DEF Good
    <3> QED
      OBVIOUS
  <2>1. k \in Nat /\ \A t \in SUBSET S : Cardinality(t) <= k => Good(t)
    <3> HIDE DEF Good
    <3> QED
      OBVIOUS
  <2>2. CASE s = {}
    <3>1. h[s] = 0
      BY <1>3, <2>2
    <3> QED
      BY <2>2, <3>1
  <2>3. CASE s # {}
    <3> DEFINE c == first(s)
    <3>1. c \in s /\ h[s] = u[c] + h[s \ {c}] /\ u[c] \in Nat
      BY <1>0, <1>3, <2>3
    <3> HIDE DEF c
    <3>2. \A x \in s : s \ {x} \in SUBSET S /\ Good(s \ {x})
      <4> TAKE x \in s
      <4>1. s \ {x} \in SUBSET S /\ Cardinality(s \ {x}) <= k
        BY <1>1, <1>2, <2>1
      <4> HIDE DEF Good, T
      <4> QED
        BY <2>1, <4>1
    <3>3. h[s \ {c}] \in Nat
      BY <3>1, <3>2
    <3>4. h[s] \in Nat
      BY <3>1, <3>3
    <3>5. ASSUME NEW x \in s, x # c PROVE h[s] = u[x] + h[s \ {x}]
      <4> DEFINE both == s \ {x, c}
      <4>1. x \in s \ {c} /\ c \in s \ {x} /\ (s \ {c}) \ {x} = both /\ (s \ {x}) \ {c} = both
        BY <3>1, <3>5
      <4>2. h[s \ {c}] = u[x] + h[(s \ {c}) \ {x}]
        BY <3>1, <3>2, <4>1
      <4>3. h[s \ {x}] = u[c] + h[(s \ {x}) \ {c}]
        BY <3>2, <4>1
      <4>4. h[both] \in Nat
        <5>1. both \in SUBSET S /\ Cardinality(both) <= k
          <6>1. s \ {x} \in SUBSET S /\ Cardinality(s \ {x}) <= k
            BY <1>1, <1>2, <2>1
          <6>2. /\ (s \ {x}) \ {c} \in SUBSET S
                /\ Cardinality((s \ {x}) \ {c}) = Cardinality(s \ {x}) - 1
            BY <1>2, <4>1, <6>1
          <6>3. Cardinality(s \ {x}) \in Nat
            BY <1>1, <6>1
          <6> HIDE DEF both
          <6>4. both \in SUBSET S /\ Cardinality(both) = Cardinality(s \ {x}) - 1
            BY <4>1, <6>2
          <6>5. Cardinality(s \ {x}) - 1 <= k
            BY <2>1, <6>1, <6>3
          <6> QED
            BY <6>4, <6>5
        <5>2. Good(both)
          <6> HIDE DEF Good, T, both
          <6> QED
            BY <2>1, <5>1
        <5> QED
          BY <5>2
      <4> HIDE DEF both
      <4>5. h[s \ {c}] = u[x] + h[both] /\ h[s \ {x}] = u[c] + h[both]
        BY <4>1, <4>2, <4>3
      <4>6. u[x] \in Nat
        BY <1>0
      <4> QED
        BY <3>1, <4>4, <4>5, <4>6
    <3> QED
      BY <3>1, <3>4, <3>5
  <2> QED
    BY <2>2, <2>3
<1>6. \A k \in Nat : k \in T
  <2> HIDE DEF T
  <2> QED
    BY <1>4, <1>5, SetInduction
<1> SUFFICES ASSUME NEW s \in SUBSET S
             PROVE  h[s] \in Nat /\ \A x \in s : h[s] = u[x] + h[s \ {x}]
  BY DEF AddsUpInAnyOrder
<1>7. Cardinality(s) \in Nat
  BY <1>1
<1>8. Cardinality(s) \in T
  <2> HIDE DEF T
  <2> QED
    BY <1>6, <1>7
<1>9. Good(s)
  <2>1. Cardinality(s) <= Cardinality(s)
    BY <1>7
  <2> HIDE DEF Good
  <2> QED
    BY <1>8, <2>1
<1> QED
  BY <1>9

(* Equal summands give equal sums.                                         *)
LEMMA EqualSums ==
    ASSUME NEW S, IsFiniteSet(S), NEW f, NEW g, NEW h, NEW k,
           AddsUp(h, S, f), AddsUp(k, S, g),
           NEW T \in SUBSET S, \A x \in T : f[x] = g[x]
    PROVE  h[T] = k[T]
<1> DEFINE first(s) == CHOOSE x \in s : TRUE
           N == {n \in Nat : \A s \in SUBSET T : Cardinality(s) = n => h[s] = k[s]}
<1>1. \A s \in SUBSET T : IsFiniteSet(s) /\ Cardinality(s) \in Nat /\ s \in SUBSET S
  BY FS_Subset, FS_CardinalityType
<1>2. \A s \in SUBSET T : s # {} =>
         /\ first(s) \in T /\ s \ {first(s)} \in SUBSET T
         /\ Cardinality(s \ {first(s)}) = Cardinality(s) - 1
         /\ Cardinality(s) # 0
  <2> SUFFICES ASSUME NEW s \in SUBSET T, s # {}
               PROVE  /\ first(s) \in T /\ s \ {first(s)} \in SUBSET T
                      /\ Cardinality(s \ {first(s)}) = Cardinality(s) - 1
                      /\ Cardinality(s) # 0
    OBVIOUS
  <2>1. first(s) \in s
    OBVIOUS
  <2>2. IsFiniteSet(s) /\ Cardinality(s) \in Nat
    BY <1>1
  <2> QED
    BY <2>1, <2>2, FS_RemoveElement, FS_EmptySet
<1>3. \A s \in SUBSET T :
         /\ h[s] = IF s = {} THEN 0 ELSE f[first(s)] + h[s \ {first(s)}]
         /\ k[s] = IF s = {} THEN 0 ELSE g[first(s)] + k[s \ {first(s)}]
  BY <1>1 DEF AddsUp
<1> HIDE DEF first
<1>4. 0 \in N
  <2> SUFFICES ASSUME NEW s \in SUBSET T, Cardinality(s) = 0 PROVE h[s] = k[s]
    OBVIOUS
  <2>1. s = {}
    BY <1>2
  <2> QED
    BY <1>3, <2>1
<1>5. ASSUME NEW n \in N PROVE n + 1 \in N
  <2> SUFFICES ASSUME NEW s \in SUBSET T, Cardinality(s) = n + 1 PROVE h[s] = k[s]
    OBVIOUS
  <2>1. CASE s = {}
    BY <1>3, <2>1
  <2>2. CASE s # {}
    <3>1. s \ {first(s)} \in SUBSET T /\ Cardinality(s \ {first(s)}) = n
      BY <1>2, <2>2
    <3>2. h[s \ {first(s)}] = k[s \ {first(s)}] /\ f[first(s)] = g[first(s)]
      BY <1>2, <2>2, <3>1
    <3> QED
      BY <1>3, <2>2, <3>2
  <2> QED
    BY <2>1, <2>2
<1>6. \A n \in Nat : n \in N
  <2> HIDE DEF N
  <2> QED
    BY <1>4, <1>5, SetInduction
<1>7. T \in SUBSET T /\ Cardinality(T) \in Nat
  BY <1>1
<1>8. Cardinality(T) \in N
  <2> HIDE DEF N
  <2> QED
    BY <1>6, <1>7
<1> QED
  BY <1>7, <1>8

(* The sum of a set of keys.                                               *)
KeySum(S) == SumSet(S)

LEMMA KeysFinite == IsFiniteSet(Keys)
<1>1. Keys \subseteq 0 .. KEY_MAX
  BY Constants
<1>2. IsFiniteSet(0 .. KEY_MAX)
  BY Constants, FS_Interval
<1> QED
  BY <1>1, <1>2, FS_Subset

LEMMA KeySumIs ==
    ASSUME NEW h, NEW u, u = [x \in Keys |-> x], AddsUp(h, Keys, u),
           NEW S \in SUBSET Keys
    PROVE  KeySum(S) = h[S]
<1> DEFINE G(g) == [s \in SUBSET S |->
                      IF s = {} THEN 0
                      ELSE (CHOOSE x \in s : TRUE) + g[s \ {CHOOSE x \in s : TRUE}]]
           k == CHOOSE g : g = G(g)
           h0 == [s \in SUBSET S |-> h[s]]
<1>1. KeySum(S) = k[S]
  BY DEF KeySum, SumSet, FoldSet, MapThenFoldSet
<1>2. \A x \in Keys : u[x] = x /\ x \in Nat
  BY Constants
<1>3. ASSUME NEW s \in SUBSET S, s # {}
      PROVE  /\ (CHOOSE x \in s : TRUE) \in s /\ (CHOOSE x \in s : TRUE) \in Keys
             /\ s \ {CHOOSE x \in s : TRUE} \in SUBSET S
  <2>1. (CHOOSE x \in s : TRUE) \in s
    BY <1>3
  <2> QED
    BY <2>1
<1>4. ASSUME NEW s \in SUBSET S
      PROVE  h0[s] = IF s = {} THEN 0
                     ELSE (CHOOSE x \in s : TRUE) + h0[s \ {CHOOSE x \in s : TRUE}]
  <2>1. s \in SUBSET Keys
    OBVIOUS
  <2>2. h[s] = IF s = {} THEN 0
               ELSE u[CHOOSE x \in s : TRUE] + h[s \ {CHOOSE x \in s : TRUE}]
    BY <2>1 DEF AddsUp
  <2> QED
    BY <1>2, <1>3, <2>2
<1>5. h0 = G(h0)
  <2>1. h0 = [s \in SUBSET S |-> h0[s]]
    OBVIOUS
  <2> HIDE DEF h0
  <2> QED
    BY <1>4, <2>1
<1>6. k = G(k)
  <2> HIDE DEF G
  <2> QED
    BY <1>5
<1> HIDE DEF k
<1>7. AddsUp(k, S, u)
  <2>1. \A s \in SUBSET S :
            k[s] = IF s = {} THEN 0
                   ELSE (CHOOSE x \in s : TRUE) + k[s \ {CHOOSE x \in s : TRUE}]
    BY <1>6
  <2>2. \A s \in SUBSET S :
            k[s] = IF s = {} THEN 0
                   ELSE u[CHOOSE x \in s : TRUE] + k[s \ {CHOOSE x \in s : TRUE}]
    BY <1>2, <1>3, <2>1
  <2> QED
    BY <1>2, <2>2 DEF AddsUp
<1>8. AddsUp(h, S, u)
  <2>1. \A s \in SUBSET S : s \in SUBSET Keys
    OBVIOUS
  <2> QED
    BY <1>2, <2>1 DEF AddsUp
<1>9. IsFiniteSet(S) /\ S \in SUBSET S
  BY KeysFinite, FS_Subset
<1>10. k[S] = h[S]
  BY <1>7, <1>8, <1>9, EqualSums
<1> QED
  BY <1>1, <1>10

(* A key more, or less, in the set is that much more, or less, in its sum. *)
LEMMA KeySumStep ==
    /\ KeySum({}) = 0
    /\ \A S \in SUBSET Keys :
          /\ KeySum(S) \in Int
          /\ \A k \in Keys : k \notin S => KeySum(S \cup {k}) = KeySum(S) + k
          /\ \A k \in Keys : k \in S => KeySum(S \ {k}) = KeySum(S) - k
<1>u. PICK u : u = [x \in Keys |-> x]
  OBVIOUS
<1>w. PICK w : w = [s \in SUBSET Keys |-> u[CHOOSE x \in s : TRUE]]
  OBVIOUS
<1>1. \A x \in Keys : u[x] = x /\ x \in Nat
  BY <1>u, Constants
<1>2. PICK h : IsSum(h, Keys, w)
  BY KeysFinite, SumExists
<1>3. AddsUp(h, Keys, u)
  <2>1. \A s \in SUBSET Keys : w[s] = u[CHOOSE x \in s : TRUE]
    BY <1>w
  <2>2. \A s \in SUBSET Keys :
           h[s] = IF s = {} THEN 0 ELSE w[s] + h[s \ {CHOOSE x \in s : TRUE}]
    BY <1>2 DEF IsSum
  <2> QED
    BY <1>1, <2>1, <2>2 DEF AddsUp
<1>4. AddsUpInAnyOrder(h, Keys, u)
  BY <1>3, KeysFinite, SumStep
<1>5. \A S \in SUBSET Keys : KeySum(S) = h[S]
  BY <1>3, <1>u, KeySumIs
<1>6. KeySum({}) = 0
  <2>1. {} \in SUBSET Keys
    OBVIOUS
  <2>2. h[{}] = 0
    BY <1>3, <2>1 DEF AddsUp
  <2> QED
    BY <1>5, <2>1, <2>2
<1>7. ASSUME NEW S \in SUBSET Keys PROVE KeySum(S) \in Int
  BY <1>4, <1>5 DEF AddsUpInAnyOrder
<1>8. ASSUME NEW S \in SUBSET Keys, NEW k \in S
      PROVE  k \in Nat /\ KeySum(S) = k + KeySum(S \ {k})
  <2>1. h[S] = u[k] + h[S \ {k}] /\ S \ {k} \in SUBSET Keys /\ u[k] = k
    BY <1>1, <1>4 DEF AddsUpInAnyOrder
  <2> QED
    BY <1>1, <1>5, <2>1
<1>9. ASSUME NEW S \in SUBSET Keys, NEW k \in Keys, k \notin S
      PROVE  KeySum(S \cup {k}) = KeySum(S) + k
  <2>1. S \cup {k} \in SUBSET Keys /\ k \in S \cup {k} /\ (S \cup {k}) \ {k} = S
    BY <1>9
  <2>2. KeySum(S) \in Int
    BY <1>7
  <2>3. PICK X : X = S \cup {k}
    OBVIOUS
  <2>4. k \in Nat /\ KeySum(X) = k + KeySum(X \ {k})
    BY <1>8, <2>1, <2>3
  <2>5. X \ {k} = S
    BY <2>1, <2>3
  <2> QED
    BY <2>2, <2>3, <2>4, <2>5
<1>10. ASSUME NEW S \in SUBSET Keys, NEW k \in Keys, k \in S
       PROVE  KeySum(S \ {k}) = KeySum(S) - k
  <2>1. S \ {k} \in SUBSET Keys
    OBVIOUS
  <2>2. KeySum(S) \in Int /\ KeySum(S \ {k}) \in Int
    BY <1>7, <2>1
  <2> QED
    BY <1>8, <1>10, <2>2
<1> QED
  BY <1>6, <1>7, <1>9, <1>10

-----------------------------------------------------------------------------
(* The benchmark's check of the keys                                       *)

(* c[n]: what the results the first n threads have got, and not yet added  *)
(* to their checksums, amount to.                                          *)
Tally(c) ==
    /\ c \in [0 .. MaxThreads -> Int]
    /\ c[0] = 0
    /\ \A t \in Threads : c[t + 1] = c[t] + Delta(call[t])

KeySumInv ==
    /\ key_checksum \in Int /\ curKeySum \in Int
    /\ \E c : Tally(c) /\ curKeySum + key_checksum + c[MaxThreads] = KeySum(present)

LEMMA DeltaFacts ==
    /\ Delta(NoCall) = 0
    /\ \A c \in CallSet :
          /\ Delta(c) \in Int
          /\ c.result # "success" => Delta(c) = 0
          /\ c.op = "get" => Delta(c) = 0
          /\ c.op = "insert" /\ c.result = "success" => Delta(c) = c.key
          /\ c.op = "remove" /\ c.result = "success" => Delta(c) = 0 - c.key
<1>1. Delta(NoCall) = 0
  BY DEF Delta, NoCall
<1>2. ASSUME NEW c \in CallSet
      PROVE  /\ Delta(c) \in Int
             /\ c.result # "success" => Delta(c) = 0
             /\ c.op = "get" => Delta(c) = 0
             /\ c.op = "insert" /\ c.result = "success" => Delta(c) = c.key
             /\ c.op = "remove" /\ c.result = "success" => Delta(c) = 0 - c.key
  <2>1. c.key \in Int
    BY Constants DEF CallSet
  <2> QED
    BY <2>1 DEF Delta
<1> QED
  BY <1>1, <1>2

(* The delta of one call changes by d.                                     *)
DeltaMoves(t, d) ==
    /\ Delta(call'[t]) = Delta(call[t]) + d
    /\ \A u \in Threads \ {t} : Delta(call'[u]) = Delta(call[u])

LEMMA TallyMoves ==
    ASSUME TypeOK, NEW c, Tally(c), NEW t \in Threads, NEW d \in Int, DeltaMoves(t, d)
    PROVE  \E e : Tally(e)' /\ e[MaxThreads] = c[MaxThreads] + d
<1> DEFINE e == [i \in 0 .. MaxThreads |-> IF i > t THEN c[i] + d ELSE c[i]]
<1>1. /\ c \in [0 .. MaxThreads -> Int] /\ c[0] = 0
      /\ \A s \in Threads : c[s + 1] = c[s] + Delta(call[s])
  BY DEF Tally
<1>2. /\ t \in Nat /\ MaxThreads \in 0 .. MaxThreads /\ MaxThreads > t
      /\ 0 \in 0 .. MaxThreads
      /\ \A s \in Threads : /\ s \in 0 .. MaxThreads /\ s + 1 \in 0 .. MaxThreads
                            /\ s \in Nat
  BY BenchAssumption DEF Threads
<1>3. \A s \in Threads : Delta(call[s]) \in Int
  BY DeltaFacts DEF TypeOK
<1>4. \A i \in 0 .. MaxThreads : e[i] = IF i > t THEN c[i] + d ELSE c[i]
  OBVIOUS
<1>5. e \in [0 .. MaxThreads -> Int]
  BY <1>1
<1> HIDE DEF e
<1>6. e[0] = 0 /\ e[MaxThreads] = c[MaxThreads] + d
  BY <1>1, <1>2, <1>4
<1>7. ASSUME NEW s \in Threads PROVE e[s + 1] = e[s] + Delta(call'[s])
  <2>1. /\ e[s] = IF s > t THEN c[s] + d ELSE c[s]
        /\ e[s + 1] = IF s + 1 > t THEN c[s + 1] + d ELSE c[s + 1]
    BY <1>2, <1>4
  <2>2. c[s + 1] = c[s] + Delta(call[s]) /\ c[s] \in Int /\ Delta(call[s]) \in Int
    BY <1>1, <1>2, <1>3
  <2>3. s \in Int /\ t \in Int
    BY <1>2
  <2>4. CASE s = t
    <3>1. Delta(call'[s]) = Delta(call[s]) + d
      BY <2>4 DEF DeltaMoves
    <3> QED
      BY <2>1, <2>2, <2>3, <2>4, <3>1
  <2>5. CASE s # t
    <3>1. Delta(call'[s]) = Delta(call[s])
      BY <2>5 DEF DeltaMoves
    <3>2. s > t <=> s + 1 > t
      BY <2>3, <2>5
    <3> QED
      BY <2>1, <2>2, <3>1, <3>2
  <2> QED
    BY <2>4, <2>5
<1>8. Tally(e)'
  BY <1>5, <1>6, <1>7 DEF Tally
<1> QED
  BY <1>6, <1>8

(* What moves from a result into a checksum, or from a result into the     *)
(* tree, is not lost.                                                      *)
Balanced(g, d) ==
    /\ KeySum(present') = KeySum(present) + g
    /\ key_checksum' \in Int /\ curKeySum' \in Int
    /\ curKeySum' + key_checksum' = curKeySum + key_checksum + g - d

LEMMA KeySumMoves ==
    ASSUME TypeOK, KeySumInv, NEW t \in Threads, NEW d \in Int, NEW g \in Int,
           DeltaMoves(t, d), Balanced(g, d)
    PROVE  KeySumInv'
<1>1. key_checksum \in Int /\ curKeySum \in Int
  BY DEF KeySumInv
<1>2. PICK c : Tally(c) /\ curKeySum + key_checksum + c[MaxThreads] = KeySum(present)
  BY DEF KeySumInv
<1>3. c[MaxThreads] \in Int
  BY <1>2, BenchAssumption DEF Tally
<1>4. PICK e : Tally(e)' /\ e[MaxThreads] = c[MaxThreads] + d
  BY <1>2, TallyMoves
<1>5. curKeySum' + key_checksum' + e[MaxThreads] = KeySum(present')
  <2>1. PICK a : a = curKeySum + key_checksum
    OBVIOUS
  <2>2. PICK b : b = curKeySum' + key_checksum'
    OBVIOUS
  <2>3. PICK m : m = c[MaxThreads]
    OBVIOUS
  <2>4. a \in Int /\ b \in Int /\ m \in Int /\ b = a + g - d
    <3>1. a \in Int /\ m \in Int
      BY <1>1, <1>3, <2>1, <2>3
    <3>2. key_checksum' \in Int /\ curKeySum' \in Int
      BY DEF Balanced
    <3>3. b \in Int
      BY <2>2, <3>2
    <3>4. b = a + g - d
      BY <2>1, <2>2 DEF Balanced
    <3> QED
      BY <3>1, <3>3, <3>4
  <2>5. KeySum(present) = a + m
    BY <1>2, <2>1, <2>3
  <2>6. KeySum(present') = a + m + g
    BY <2>5 DEF Balanced
  <2>7. b + (m + d) = a + m + g
    BY <2>4
  <2> QED
    BY <1>4, <2>2, <2>3, <2>6, <2>7
<1>6. KeySum(present)' = KeySum(present')
  BY DEF KeySum
<1> QED
  BY <1>4, <1>5, <1>6 DEF KeySumInv, Balanced

(* The dictionary, the calls and the sum of the checksums stay.            *)
LEMMA KeySumStays ==
    ASSUME KeySumInv, present' = present, call' = call,
           key_checksum' \in Int, curKeySum' \in Int,
           curKeySum' + key_checksum' = curKeySum + key_checksum
    PROVE  KeySumInv'
<1>1. PICK c : Tally(c) /\ curKeySum + key_checksum + c[MaxThreads] = KeySum(present)
  BY DEF KeySumInv
<1>2. Tally(c)'
  BY <1>1 DEF Tally
<1>3. KeySum(present)' = KeySum(present)
  BY DEF KeySum
<1> QED
  BY <1>1, <1>2, <1>3 DEF KeySumInv

LEMMA SilentChecksums ==
    ASSUME TypeOK, KeySumInv, Silent \/ UNCHANGED vars
    PROVE  /\ key_checksum' \in Int /\ curKeySum' \in Int
           /\ curKeySum' + key_checksum' = curKeySum + key_checksum
<1>1. key_checksum \in Int /\ curKeySum \in Int
  BY DEF KeySumInv
<1>2. CASE JoinThreads
  BY <1>1, <1>2 DEF JoinThreads, AllEnded
<1>3. CASE UNCHANGED <<key_checksum, curKeySum>>
  BY <1>1, <1>3
<1>4. MainStep => JoinThreads \/ UNCHANGED <<key_checksum, curKeySum>>
  BY DEF MainStep, Main, SkipStage, CreateThreads, StartThreads
<1>5. FreeNode \/ Finished \/ UNCHANGED vars => UNCHANGED <<key_checksum, curKeySum>>
  BY DEF FreeNode, Finished, vars, benchVars
<1>6. ASSUME NEW t \in Threads, Hidden(t) PROVE UNCHANGED <<key_checksum, curKeySum>>
  <2>1. CASE Loop(t)
    BY <2>1 DEF Loop, Pre, SeeStart, IsStopped, Post, Leave
  <2>2. CASE GetGuard(t) \/ ReadVersion(t) \/ LockPred(t) \/ RetireBoth(t) \/ DropGuard(t)
    BY <2>2 DEF GetGuard, ReadVersion, LockPred, RetireBoth, DropGuard, benchVars
  <2>3. CASE LockingStep(t)
    BY <2>3 DEF LockingStep, LockParent, LockBoth, Revert, Unlock, benchVars
  <2> QED
    BY <1>6, <2>1, <2>2, <2>3 DEF Hidden
<1> QED
  BY <1>2, <1>3, <1>4, <1>5, <1>6 DEF Silent

LEMMA KeySumType == KeySum(present) \in Int
<1>1. present \in SUBSET Keys
  BY DEF present
<1> QED
  BY <1>1, KeySumStep

(* The call, and an operation that is answered, add nothing.               *)
LEMMA KeySumQuiet ==
    ASSUME TypeOK, KeySumInv, NEW t \in Threads, UNCHANGED <<node, key_checksum, curKeySum>>,
           DeltaMoves(t, 0)
    PROVE  KeySumInv'
<1>1. present' = present
  BY SameNodes
<1>2. KeySum(present') = KeySum(present) + 0
  BY <1>1, KeySumType
<1>3. key_checksum \in Int /\ curKeySum \in Int
  BY DEF KeySumInv
<1>4. Balanced(0, 0)
  BY <1>2, <1>3 DEF Balanced
<1> QED
  BY <1>4, KeySumMoves

LEMMA OperationKeySum ==
    ASSUME NEW T \in SUBSET NodeIds, NEW lo \in [NodeIds -> Int],
           NEW hi \in [NodeIds -> Int], NEW V \in [Threads -> SUBSET NodeIds],
           Inv(T, lo, hi, V), KeySumInv, NEW t \in Threads, Operation(t)
    PROVE  KeySumInv'
<1>1. TypeOK /\ LoopOf(t) /\ UNCHANGED <<node, key_checksum, curKeySum>> /\ tpc[t] = "step"
  BY DEF Inv, ControlInv, Operation, StepCall, To
<1>2. PICK o, k, h, there : call' = [call EXCEPT ![t] = NewCall(o, k, h, there)]
  BY DEF Operation, StepCall
<1>3. /\ call[t] = NoCall /\ call'[t] = NewCall(o, k, h, there)
      /\ \A u \in Threads \ {t} : call'[u] = call[u]
  BY <1>1, <1>2 DEF LoopOf, TypeOK
<1>4. Delta(call'[t]) = 0
  BY <1>3 DEF NewCall, Delta
<1>5. DeltaMoves(t, 0)
  BY <1>3, <1>4, DeltaFacts DEF DeltaMoves
<1> QED
  BY <1>1, <1>5, KeySumQuiet

LEMMA DescendKeySum ==
    ASSUME NEW T \in SUBSET NodeIds, NEW lo \in [NodeIds -> Int],
           NEW hi \in [NodeIds -> Int], NEW V \in [Threads -> SUBSET NodeIds],
           Inv(T, lo, hi, V), KeySumInv, NEW t \in Threads, Descend(t)
    PROVE  KeySumInv'
<1>1. TypeOK /\ ControlOf(t) /\ UNCHANGED <<node, key_checksum, curKeySum>>
      /\ at[t].pc = "child"
  BY DEF Inv, ControlInv, Descend, loopVars
<1>2. /\ call[t] # NoCall /\ call[t].result = "pending"
      /\ call[t] \in CallSet /\ Delta(call[t]) = 0
  BY <1>1, DeltaFacts DEF ControlOf, TypeOK
<1>3. CASE UNCHANGED call
  <2>1. DeltaMoves(t, 0)
    BY <1>2, <1>3 DEF DeltaMoves
  <2> QED
    BY <1>1, <2>1, KeySumQuiet
<1>4. CASE call' # call
  <2>1. PICK r \in {"success", "failure"} : Decide(t, r) /\ (r = "success" => op(t) = "get")
    BY <1>4 DEF Descend
  <2>2. /\ call' \in [Threads -> CallSet \cup {NoCall}]
        /\ \A u \in Threads \ {t} : call'[u] = call[u]
        /\ call'[t].op = call[t].op /\ call'[t] # NoCall /\ call'[t].result = r
    BY <1>1, <1>2, <2>1, DecideFacts DEF TypeOK
  <2>3. call'[t] \in CallSet
    BY <2>2
  <2>4. Delta(call'[t]) = 0
    BY <2>1, <2>2, <2>3, DeltaFacts DEF op
  <2>5. DeltaMoves(t, 0)
    BY <1>2, <2>2, <2>4 DEF DeltaMoves
  <2> QED
    BY <1>1, <2>5, KeySumQuiet
<1> QED
  BY <1>3, <1>4

(* Linking or unlinking gives t the key as its result and changes nobody   *)
(* else's.                                                                 *)
LEMMA EffectDelta ==
    ASSUME TypeOK, NEW t \in Threads, call[t] # NoCall, call[t].result = "pending",
           NEW there \in BOOLEAN, Effect(t, there)
    PROVE  /\ op(t) = "insert" => DeltaMoves(t, key(t))
           /\ op(t) = "remove" => DeltaMoves(t, 0 - key(t))
<1>1. /\ call' \in [Threads -> CallSet \cup {NoCall}]
      /\ \A u \in Threads : CallKept(u) /\ (call[u] # NoCall => call'[u] # NoCall)
      /\ \A u \in Threads \ {t} : call'[u].result = call[u].result
      /\ call'[t].result = "success" /\ call'[t].op = call[t].op
      /\ call'[t].key = call[t].key
  BY EffectFacts
<1>2. call \in [Threads -> CallSet \cup {NoCall}]
  BY DEF TypeOK
<1>3. call[t] \in CallSet /\ call'[t] \in CallSet /\ key(t) \in Int
  <2>1. call[t] \in CallSet /\ call'[t] \in CallSet
    BY <1>1, <1>2
  <2> QED
    BY <2>1, Constants DEF CallSet, key
<1>4. /\ Delta(call[t]) = 0
      /\ op(t) = "insert" => Delta(call'[t]) = key(t)
      /\ op(t) = "remove" => Delta(call'[t]) = 0 - key(t)
  BY <1>1, <1>3, DeltaFacts DEF op, key
<1>5. ASSUME NEW u \in Threads \ {t} PROVE Delta(call'[u]) = Delta(call[u])
  <2>1. CASE call[u] = NoCall
    <3>1. call'[u] = NoCall
      BY <1>1, <2>1 DEF CallKept
    <3> QED
      BY <2>1, <3>1
  <2>2. CASE call[u] # NoCall
    <3>1. call[u] \in CallSet /\ call'[u] \in CallSet
      BY <1>1, <1>2, <2>2
    <3>2. /\ call'[u].op = call[u].op /\ call'[u].key = call[u].key
          /\ call'[u].result = call[u].result
      BY <1>1 DEF CallKept
    <3> QED
      BY <3>2 DEF Delta
  <2> QED
    BY <2>1, <2>2
<1> QED
  BY <1>3, <1>4, <1>5 DEF DeltaMoves

LEMMA ChangeKeySum ==
    ASSUME NEW T \in SUBSET NodeIds, NEW lo \in [NodeIds -> Int],
           NEW hi \in [NodeIds -> Int], NEW V \in [Threads -> SUBSET NodeIds],
           Inv(T, lo, hi, V), KeySumInv, NEW t \in Threads, Link(t) \/ Unlink(t)
    PROVE  KeySumInv'
<1>1. TypeOK /\ ControlOf(t)
  BY DEF Inv, ControlInv
<1>2. at[t].pc \in {"link", "unlink"} /\ UNCHANGED <<key_checksum, curKeySum>>
  BY DEF Link, Unlink, Goto, loopVars
<1>3. call[t] # NoCall /\ call[t].result = "pending"
  BY <1>1, <1>2 DEF ControlOf
<1>4. PICK k : k = key(t)
  OBVIOUS
<1>5. k \in Keys /\ k \in Int
  <2>1. call[t] \in CallSet
    BY <1>1, <1>3 DEF TypeOK
  <2> QED
    BY <1>4, <2>1, Constants DEF CallSet, key
<1>6. key_checksum \in Int /\ curKeySum \in Int
  BY DEF KeySumInv
<1>7. present \in SUBSET Keys /\ KeySum(present) \in Int
  BY KeySumType DEF present
<1>8. CASE Link(t)
  <2>1. k \notin present /\ present' = present \cup {k}
    BY <1>4, <1>8, LinkStep
  <2>2. KeySum(present') = KeySum(present) + k
    BY <1>5, <1>7, <2>1, KeySumStep
  <2>3. op(t) = "insert" /\ Effect(t, TRUE)
    BY <1>1, <1>8 DEF Link, Goto, ControlOf
  <2>4. DeltaMoves(t, k)
    BY <1>1, <1>3, <1>4, <2>3, EffectDelta
  <2>5. Balanced(k, k)
    BY <1>2, <1>5, <1>6, <2>2 DEF Balanced
  <2> QED
    BY <1>1, <1>5, <2>4, <2>5, KeySumMoves
<1>9. CASE Unlink(t)
  <2>1. k \in present /\ present' = present \ {k}
    BY <1>4, <1>9, UnlinkStep
  <2>2. KeySum(present') = KeySum(present) + (0 - k)
    <3>1. KeySum(present') = KeySum(present) - k
      BY <1>5, <1>7, <2>1, KeySumStep
    <3> QED
      BY <1>5, <1>7, <3>1
  <2>3. op(t) = "remove" /\ Effect(t, FALSE)
    BY <1>1, <1>9 DEF Unlink, Goto, ControlOf
  <2>m. PICK m \in Int : m = 0 - k
    BY <1>5
  <2>4. DeltaMoves(t, m)
    BY <1>1, <1>3, <1>4, <2>3, <2>m, EffectDelta
  <2>5. Balanced(m, m)
    BY <1>2, <1>6, <2>2, <2>m DEF Balanced
  <2> QED
    BY <1>1, <2>4, <2>5, KeySumMoves
<1> QED
  BY <1>8, <1>9

(* The thread takes the key over from the result into its checksum.        *)
LEMMA ReturnKeySum ==
    ASSUME NEW T \in SUBSET NodeIds, NEW lo \in [NodeIds -> Int],
           NEW hi \in [NodeIds -> Int], NEW V \in [Threads -> SUBSET NodeIds],
           Inv(T, lo, hi, V), KeySumInv, NEW t \in Threads, Return(t)
    PROVE  KeySumInv'
<1>1. TypeOK
  BY DEF Inv
<1>d. PICK d : d = Delta(call[t])
  OBVIOUS
<1>2. /\ UNCHANGED <<node, curKeySum>> /\ key_checksum' = key_checksum + d
      /\ call' = [call EXCEPT ![t] = NoCall]
  BY <1>d DEF Return, StepReturn, treeVars
<1>3. d \in Int
  BY <1>1, <1>d, DeltaFacts DEF TypeOK
<1>4. call'[t] = NoCall /\ \A u \in Threads \ {t} : call'[u] = call[u]
  BY <1>1, <1>2 DEF TypeOK
<1>m. PICK m \in Int : m = 0 - d
  BY <1>3
<1>5. DeltaMoves(t, m)
  <2>1. Delta(call'[t]) = 0 /\ Delta(call[t]) + m = 0
    BY <1>d, <1>m, <1>3, <1>4, DeltaFacts
  <2> QED
    BY <1>4, <2>1 DEF DeltaMoves
<1>6. Balanced(0, m)
  <2>1. present' = present
    BY <1>2, SameNodes
  <2>2. KeySum(present') = KeySum(present) + 0
    BY <2>1, KeySumType
  <2>3. key_checksum \in Int /\ curKeySum \in Int
    BY DEF KeySumInv
  <2>4. key_checksum' \in Int /\ curKeySum' \in Int
        /\ curKeySum' + key_checksum' = curKeySum + key_checksum + 0 - m
    BY <1>2, <1>3, <1>m, <2>3
  <2> QED
    BY <2>2, <2>4 DEF Balanced
<1> QED
  BY <1>1, <1>5, <1>6, KeySumMoves

LEMMA InitKeySum ==
    ASSUME Init
    PROVE  KeySumInv
<1> DEFINE c == [i \in 0 .. MaxThreads |-> 0]
<1>1. /\ key_checksum = 0 /\ curKeySum = 0
      /\ \A t \in Threads : call[t] = NoCall
  BY DEF Init, BenchInit
<1>2. \A t \in Threads : t \in 0 .. MaxThreads /\ t + 1 \in 0 .. MaxThreads
  BY BenchAssumption DEF Threads
<1>3. \A i \in 0 .. MaxThreads : c[i] = 0
  OBVIOUS
<1>4. c \in [0 .. MaxThreads -> Int]
  OBVIOUS
<1>5. 0 \in 0 .. MaxThreads /\ MaxThreads \in 0 .. MaxThreads
  BY BenchAssumption
<1> HIDE DEF c
<1>6. Tally(c)
  BY <1>1, <1>2, <1>3, <1>4, <1>5, DeltaFacts DEF Tally
<1>7. present = {} /\ KeySum(present) = 0
  <2>1. present = {}
    BY InitInv
  <2> QED
    BY <2>1, KeySumStep
<1> QED
  BY <1>1, <1>3, <1>5, <1>6, <1>7 DEF KeySumInv

(* At the end no thread has a result it has not added.                     *)
LEMMA NothingOpen ==
    ASSUME NEW c, Tally(c), \A t \in Threads : call[t] = NoCall
    PROVE  c[MaxThreads] = 0
<1> DEFINE N == {n \in Nat : n <= MaxThreads => c[n] = 0}
<1>1. 0 \in N
  BY DEF Tally
<1>2. ASSUME NEW n \in N, n \in Nat PROVE n + 1 \in N
  <2> SUFFICES ASSUME n + 1 <= MaxThreads PROVE c[n + 1] = 0
    BY <1>2
  <2>1. n \in Threads /\ c[n] = 0
    BY <1>2, BenchAssumption DEF Threads
  <2> QED
    BY <2>1, DeltaFacts DEF Tally
<1> HIDE DEF N
<1>3. \A n \in Nat : n \in N
  BY <1>1, <1>2, SetInduction
<1>4. MaxThreads \in N /\ MaxThreads \in Nat
  BY <1>3, BenchAssumption
<1> QED
  BY <1>4 DEF N

(* What the threads have inserted and removed, added up over the stages,   *)
(* is what the tree holds when main reports: the key sum that print_output *)
(* prints, and compares with the tree's under USE_TREE_STATS, is right.    *)
THEOREM KeySumsMatch == Spec /\ []NoWrap => []KeySumOK
<1>1. Init => KeySumInv
  BY InitKeySum
<1>2. IInv /\ NoWrap /\ KeySumInv /\ [Next]_vars => KeySumInv'
  <2> SUFFICES ASSUME IInv, NoWrap, KeySumInv, [Next]_vars PROVE KeySumInv'
    OBVIOUS
  <2>1. PICK T \in SUBSET NodeIds, lo, hi \in [NodeIds -> Int],
             V \in [Threads -> SUBSET NodeIds] : Inv(T, lo, hi, V)
    BY DEF IInv
  <2>2. CASE Silent \/ UNCHANGED vars
    <3>1. present' = present /\ call' = call
      BY <2>1, <2>2, SilentKeeps DEF Unnoticed
    <3>2. TypeOK
      BY <2>1 DEF Inv
    <3> QED
      BY <2>2, <3>1, <3>2, SilentChecksums, KeySumStays
  <2>3. ASSUME NEW t \in Threads, Operation(t) PROVE KeySumInv'
    BY <2>1, <2>3, OperationKeySum
  <2>4. ASSUME NEW t \in Threads, Descend(t) PROVE KeySumInv'
    BY <2>1, <2>4, DescendKeySum
  <2>5. ASSUME NEW t \in Threads, Link(t) \/ Unlink(t) PROVE KeySumInv'
    BY <2>1, <2>5, ChangeKeySum
  <2>6. ASSUME NEW t \in Threads, Return(t) PROVE KeySumInv'
    BY <2>1, <2>6, ReturnKeySum
  <2> QED
    BY <2>2, <2>3, <2>4, <2>5, <2>6, NextCases
<1>3. IInv /\ KeySumInv => KeySumOK
  <2> SUFFICES ASSUME IInv, KeySumInv, mpc = "report"
               PROVE  key_checksum + curKeySum = KeySum(present)
    BY Zenon DEF KeySumOK, KeySumMatches, KeySum
  <2>1. PICK c : Tally(c) /\ curKeySum + key_checksum + c[MaxThreads] = KeySum(present)
    BY DEF KeySumInv
  <2>2. \A t \in Threads : call[t] = NoCall
    BY DEF IInv, Inv, ControlInv, LoopOf
  <2>3. c[MaxThreads] = 0
    BY <2>1, <2>2, NothingOpen
  <2>4. key_checksum \in Int /\ curKeySum \in Int
    BY DEF KeySumInv
  <2> QED
    BY <2>1, <2>3, <2>4
<1> QED
  BY <1>1, <1>2, <1>3, InductiveInvariant, PTL DEF Spec

-----------------------------------------------------------------------------
(* When versions cannot wrap                                               *)
(*                                                                         *)
(* A version grows when a removal or an insertion that has succeeded gives *)
(* its lock back, and a thread succeeds at most once for each time its     *)
(* operCount goes down.  The versions are therefore bounded by the         *)
(* operations of the stages.                                               *)

Total == Stages[1].limit + Stages[2].limit + Stages[3].limit

(* The operations of the stages that have not started.                     *)
Later(s) == CASE s = 1 -> Stages[2].limit + Stages[3].limit
              [] s = 2 -> Stages[3].limit
              [] OTHER -> 0
Rest == Later(stage) + (IF mpc \in {"create", "wait"} THEN Current.limit ELSE 0)

(* How often t may still give back a lock in this stage.                   *)
More(t) == IF operCount[t] > 0 THEN operCount[t] ELSE 0
Due(t) ==
    \/ tpc[t] = "step"
    \/ tpc[t] = "call" /\ (call[t].result # "success" \/ at[t].pc = "unlock")
Left(t) == More(t) + (IF Due(t) THEN 1 ELSE 0)

(* c[n] bounds it for the first n threads together.                        *)
Spend(c) ==
    /\ c \in [0 .. MaxThreads -> Nat]
    /\ \A t \in Threads : c[t + 1] >= c[t] + Left(t)
Bounded(v) == \A n \in NodeIds, s \in Sides : node[n].lock[s].version <= v

Decided == \A t \in Threads : at[t].pc = "unlock" => call[t].result = "success"
StartInv ==
    /\ mpc \in {"create", "wait", "join", "report"} /\ start \in BOOLEAN
    /\ operCount \in [Threads -> Int]
    /\ mpc \in {"create", "wait"} =>
          ~start /\ \A t \in Threads : operCount[t] = 0 /\ tpc[t] \in {"none", "pre", "ready"}
BudgetInv ==
    /\ StartInv /\ Decided
    /\ \E v \in Nat : \E c :
          Bounded(v) /\ Spend(c) /\ v + c[MaxThreads] + Rest <= Total

LEMMA LeftType ==
    ASSUME operCount \in [Threads -> Int], NEW t \in Threads
    PROVE  Left(t) \in Nat
  BY DEF Left, More

LEMMA LimitFacts ==
    /\ \A s \in 1 .. 3 : Stages[s].limit \in Nat /\ Later(s) \in Nat
    /\ \A s \in 1 .. 2 : Later(s) = Stages[s + 1].limit + Later(s + 1)
    /\ Later(3) = 0 /\ Total = Stages[1].limit + Later(1) /\ Total \in Nat
<1>1. \A s \in 1 .. 3 : Stages[s].limit \in Nat
  BY BenchAssumption
<1>2. 1 \in 1 .. 3 /\ 2 \in 1 .. 3 /\ 3 \in 1 .. 3
  OBVIOUS
<1>3. /\ Later(1) = Stages[2].limit + Stages[3].limit
      /\ Later(2) = Stages[3].limit /\ Later(3) = 0
  BY DEF Later
<1>4. Stages[1].limit \in Nat /\ Stages[2].limit \in Nat /\ Stages[3].limit \in Nat
  BY <1>1, <1>2
<1>5. \A s \in 1 .. 3 : Later(s) \in Nat
  <2>1. \A s \in 1 .. 3 : s = 1 \/ s = 2 \/ s = 3
    OBVIOUS
  <2> QED
    BY <1>3, <1>4, <2>1
<1>6. \A s \in 1 .. 2 : Later(s) = Stages[s + 1].limit + Later(s + 1)
  <2>1. \A s \in 1 .. 2 : s = 1 \/ s = 2
    OBVIOUS
  <2> QED
    BY <1>3, <1>4, <2>1
<1>7. Total = Stages[1].limit + Later(1) /\ Total \in Nat
  BY <1>3, <1>4 DEF Total
<1> QED
  BY <1>1, <1>3, <1>5, <1>6, <1>7

(* What the other threads have left is not touched by a step of t.         *)
Aside(t) == \A u \in Threads \ {t} :
    /\ operCount'[u] = operCount[u] /\ tpc'[u] = tpc[u]
    /\ at'[u].pc = at[u].pc /\ call'[u].result = call[u].result

LEMMA AsideLeft ==
    ASSUME NEW t \in Threads, Aside(t)
    PROVE  \A u \in Threads \ {t} : Left(u)' = Left(u)
  BY DEF Aside, Left, More, Due

LEMMA SpendStays ==
    ASSUME NEW c, Spend(c), operCount \in [Threads -> Int], operCount' \in [Threads -> Int],
           \A u \in Threads : Left(u)' <= Left(u)
    PROVE  Spend(c)'
<1>1. \A t \in Threads : t \in 0 .. MaxThreads /\ t + 1 \in 0 .. MaxThreads
  BY BenchAssumption DEF Threads
<1>2. \A t \in Threads : Left(t) \in Nat /\ Left(t)' \in Nat
  BY LeftType DEF Left, More
<1>3. c \in [0 .. MaxThreads -> Nat] /\ \A t \in Threads : c[t + 1] >= c[t] + Left(t)
  BY DEF Spend
<1>4. ASSUME NEW t \in Threads PROVE c[t + 1] >= c[t] + Left(t)'
  <2>1. c[t] \in Nat /\ c[t + 1] \in Nat /\ c[t + 1] >= c[t] + Left(t)
    BY <1>1, <1>3
  <2>2. Left(t) \in Nat /\ Left(t)' \in Nat /\ Left(t)' <= Left(t)
    BY <1>2
  <2> QED
    BY <2>1, <2>2
<1> QED
  BY <1>3, <1>4 DEF Spend

(* One lock is given back.                                                 *)
LEMMA SpendFalls ==
    ASSUME NEW c, Spend(c), operCount \in [Threads -> Int], operCount' \in [Threads -> Int],
           NEW t \in Threads, Left(t)' + 1 <= Left(t),
           \A u \in Threads \ {t} : Left(u)' = Left(u)
    PROVE  \E e : Spend(e)' /\ e[MaxThreads] + 1 = c[MaxThreads]
<1> DEFINE e == [i \in 0 .. MaxThreads |-> IF i > t THEN c[i] - 1 ELSE c[i]]
<1>1. /\ t \in Nat /\ MaxThreads \in 0 .. MaxThreads /\ MaxThreads > t
      /\ \A u \in Threads : u \in 0 .. MaxThreads /\ u + 1 \in 0 .. MaxThreads /\ u \in Nat
  BY BenchAssumption DEF Threads
<1>2. \A u \in Threads : Left(u) \in Nat /\ Left(u)' \in Nat
  BY LeftType DEF Left, More
<1>3. c \in [0 .. MaxThreads -> Nat] /\ \A u \in Threads : c[u + 1] >= c[u] + Left(u)
  BY DEF Spend
<1>4. \A i \in 0 .. MaxThreads : i > t => c[i] >= 1
  <2> DEFINE N == {n \in Nat : t + 1 + n <= MaxThreads => c[t + 1 + n] >= 1}
  <2>1. 0 \in N
    <3>1. c[t + 1] >= c[t] + Left(t) /\ c[t] \in Nat /\ c[t + 1] \in Nat
      BY <1>1, <1>3
    <3>2. Left(t) \in Nat /\ Left(t)' \in Nat /\ Left(t)' + 1 <= Left(t)
      BY <1>2
    <3>3. t + 1 + 0 = t + 1
      BY <1>1
    <3> QED
      BY <3>1, <3>2, <3>3
  <2>2. ASSUME NEW n \in N, n \in Nat PROVE n + 1 \in N
    <3> SUFFICES ASSUME t + 1 + (n + 1) <= MaxThreads PROVE c[t + 1 + (n + 1)] >= 1
      BY <2>2
    <3>1. PICK u : u = t + 1 + n
      OBVIOUS
    <3>2. u \in Threads /\ t + 1 + (n + 1) = u + 1 /\ u <= MaxThreads
      BY <1>1, <2>2, <3>1, BenchAssumption DEF Threads
    <3>3. c[u] >= 1
      BY <2>2, <3>1, <3>2
    <3>4. c[u + 1] >= c[u] + Left(u) /\ c[u] \in Nat /\ c[u + 1] \in Nat /\ Left(u) \in Nat
      BY <1>1, <1>2, <1>3, <3>2
    <3> QED
      BY <3>2, <3>3, <3>4
  <2> HIDE DEF N
  <2>3. \A n \in Nat : n \in N
    BY <2>1, <2>2, SetInduction
  <2>4. ASSUME NEW i \in 0 .. MaxThreads, i > t PROVE c[i] >= 1
    <3>1. i - t - 1 \in Nat /\ t + 1 + (i - t - 1) = i /\ i <= MaxThreads
      BY <1>1, <2>4
    <3>2. i - t - 1 \in N
      BY <2>3, <3>1
    <3> QED
      BY <3>1, <3>2 DEF N
  <2> QED
    BY <2>4
<1>5. \A i \in 0 .. MaxThreads : e[i] = IF i > t THEN c[i] - 1 ELSE c[i]
  OBVIOUS
<1>6. e \in [0 .. MaxThreads -> Nat]
  BY <1>3, <1>4
<1> HIDE DEF e
<1>7. ASSUME NEW u \in Threads PROVE e[u + 1] >= e[u] + Left(u)'
  <2>1. /\ e[u] = IF u > t THEN c[u] - 1 ELSE c[u]
        /\ e[u + 1] = IF u + 1 > t THEN c[u + 1] - 1 ELSE c[u + 1]
    BY <1>1, <1>5
  <2>2. /\ c[u] \in Nat /\ c[u + 1] \in Nat /\ c[u + 1] >= c[u] + Left(u)
        /\ Left(u) \in Nat /\ Left(u)' \in Nat /\ u \in Nat
    BY <1>1, <1>2, <1>3
  <2>3. CASE u = t
    <3>1. Left(u)' + 1 <= Left(u)
      BY <2>3
    <3> QED
      BY <1>1, <2>1, <2>2, <2>3, <3>1
  <2>4. CASE u # t
    <3>1. Left(u)' = Left(u)
      BY <2>4
    <3>2. u > t <=> u + 1 > t
      BY <1>1, <2>2, <2>4
    <3> QED
      BY <2>1, <2>2, <3>1, <3>2
  <2> QED
    BY <2>3, <2>4
<1>8. e[MaxThreads] + 1 = c[MaxThreads]
  <2>1. e[MaxThreads] = c[MaxThreads] - 1
    BY <1>1, <1>5
  <2>2. c[MaxThreads] \in Nat
    BY <1>1, <1>3
  <2> QED
    BY <2>1, <2>2
<1> QED
  BY <1>6, <1>7, <1>8 DEF Spend

NoneGrows == \A n \in NodeIds, s \in Sides :
    node'[n].lock[s].version <= node[n].lock[s].version

LEMMA Versions ==
    ASSUME NEW w \in LockWord, NEW r \in Sides, NEW s \in Sides
    PROVE  /\ Locked(w, r)[s].version = w[s].version
           /\ tl_revert(w, r)[s].version = w[s].version
           /\ tl_unlock(w, r)[s].version <= w[s].version + 1
           /\ Unlocked[s].version = 0 /\ TLN_REMOVED[s].version = 0
           /\ w[s].version \in Nat
<1>1. Half \in Nat /\ Half > 0
  BY DEF Half
<1>2. w \in [Sides -> [version : 0 .. Half - 1, ticket : 0 .. Half - 1]]
  BY DEF LockWord
<1> USE <1>1, <1>2
<1>3. Locked(w, r)[s].version = w[s].version
  BY DEF Locked
<1>4. tl_revert(w, r)[s].version = w[s].version
  BY DEF tl_revert
<1>5. w[s].version \in 0 .. Half - 1
  OBVIOUS
<1>6. tl_unlock(w, r)[s].version <= w[s].version + 1
  <2> HIDE DEF Half
  <2>1. tl_unlock(w, r)[s].version = IF s = r THEN (w[s].version + 1) % Half
                                              ELSE w[s].version
    BY DEF tl_unlock
  <2>2. w[s].version + 1 \in 0 .. Half
    BY <1>5
  <2>3. (w[s].version + 1) % Half <= w[s].version + 1
    BY <1>5, <2>2
  <2> QED
    BY <1>5, <2>1, <2>3
<1>7. Unlocked[s].version = 0 /\ TLN_REMOVED[s].version = 0
  BY DEF Unlocked, TLN_REMOVED
<1> QED
  BY <1>3, <1>4, <1>5, <1>6, <1>7

(* Only giving a lock back lets a version grow.                            *)
LEMMA VersionsStay ==
    ASSUME TypeOK, NEW t \in Threads,
           \/ LockPred(t) \/ Link(t) \/ LockParent(t) \/ LockBoth(t) \/ Revert(t)
           \/ Unlink(t)
    PROVE  NoneGrows
<1>1. /\ \A n \in NodeIds : node[n].lock \in LockWord
      /\ node \in [NodeIds -> [key : Nat, child : [Sides -> Ptr], lock : LockWord]]
  BY DEF TypeOK
<1>2. at[t].right \in Sides /\ at[t].pright \in Sides
  BY DEF TypeOK, Locals
<1>3. \A n \in NodeIds, s \in Sides : node[n].lock[s].version \in Nat
  BY <1>1, Versions
<1>4. CASE LockPred(t)
  <2>1. CASE UNCHANGED node
    BY <1>3, <2>1 DEF NoneGrows
  <2>2. ASSUME NEW nn, NEW nr, NEW p,
               node' = [node EXCEPT ![nn] = Leaf(key(t)),
                                    ![nr] = NewInternal(key(t), at[t].curr, nn),
                                    ![p].lock = Locked(node[p].lock, at[t].right)]
        PROVE  NoneGrows
    <3> SUFFICES ASSUME NEW n \in NodeIds, NEW s \in Sides
                 PROVE  node'[n].lock[s].version <= node[n].lock[s].version
      BY DEF NoneGrows
    <3>1. Leaf(key(t)).lock = Unlocked /\ NewInternal(key(t), at[t].curr, nn).lock = Unlocked
      BY DEF Leaf, NewInternal, Internal
    <3>2. /\ n = p => node'[n].lock = Locked(node[n].lock, at[t].right)
          /\ n # p => node'[n].lock = node[n].lock \/ node'[n].lock = Unlocked
      BY <1>1, <2>2, <3>1
    <3> QED
      BY <1>1, <1>2, <1>3, <3>2, Versions
  <2> DEFINE Grown(nn, nr, p) ==
               node' = [node EXCEPT ![nn] = Leaf(key(t)),
                                    ![nr] = NewInternal(key(t), at[t].curr, nn),
                                    ![p].lock = Locked(node[p].lock, at[t].right)]
  <2>3. \/ UNCHANGED node
        \/ Grown(Fresh(allocated), Fresh(allocated \cup {Fresh(allocated)}), at[t].pred)
    BY <1>4, Zenon DEF LockPred
  <2>4. \A nn, nr, p : Grown(nn, nr, p) => NoneGrows
    BY <2>2
  <2> HIDE DEF Grown
  <2> QED
    BY <2>1, <2>3, <2>4, Zenon
<1>5. CASE Link(t) \/ Unlink(t)
  <2>1. \A n \in NodeIds : node'[n].lock = node[n].lock
    <3>1. ASSUME NEW p, NEW r, NEW x, node' = [node EXCEPT ![p].child[r] = x]
          PROVE  \A n \in NodeIds : node'[n].lock = node[n].lock
      BY <1>1, <3>1
    <3>2. CASE Link(t)
      BY <3>1, <3>2, Zenon DEF Link
    <3>3. CASE Unlink(t)
      BY <3>1, <3>3, Zenon DEF Unlink
    <3> QED
      BY <1>5, <3>2, <3>3
  <2> QED
    BY <1>3, <2>1 DEF NoneGrows
<1>6. CASE LockParent(t)
  <2>1. \A n \in NodeIds : \/ node'[n].lock = node[n].lock
                           \/ node'[n].lock = Locked(node[n].lock, at[t].pright)
    BY <1>1, <1>6 DEF LockParent
  <2>2. \A n \in NodeIds, s \in Sides :
           Locked(node[n].lock, at[t].pright)[s].version = node[n].lock[s].version
    BY <1>1, <1>2, Versions
  <2> QED
    BY <1>3, <2>1, <2>2 DEF NoneGrows
<1>7. CASE LockBoth(t)
  <2>1. \A n \in NodeIds : node'[n].lock = node[n].lock \/ node'[n].lock = TLN_REMOVED
    BY <1>1, <1>7 DEF LockBoth, Removed
  <2> QED
    BY <1>1, <1>3, <2>1, Versions DEF NoneGrows
<1>8. CASE Revert(t)
  <2>1. \A n \in NodeIds : \/ node'[n].lock = node[n].lock
                           \/ node'[n].lock = tl_revert(node[n].lock, at[t].pright)
    BY <1>1, <1>8 DEF Revert
  <2>2. \A n \in NodeIds, s \in Sides :
           tl_revert(node[n].lock, at[t].pright)[s].version = node[n].lock[s].version
    BY <1>1, <1>2, Versions
  <2> QED
    BY <1>3, <2>1, <2>2 DEF NoneGrows
<1> QED
  BY <1>4, <1>5, <1>6, <1>7, <1>8

LEMMA FreeNodeVersions ==
    ASSUME TypeOK, FreeNode
    PROVE  NoneGrows
<1>1. /\ \A n \in NodeIds : node[n].lock \in LockWord
      /\ node \in [NodeIds -> [key : Nat, child : [Sides -> Ptr], lock : LockWord]]
  BY DEF TypeOK
<1>2. Leaf(KEY_MIN).lock = Unlocked
  BY DEF Leaf
<1>3. \A n \in NodeIds : node'[n].lock = node[n].lock \/ node'[n].lock = Unlocked
  BY <1>1, <1>2 DEF FreeNode
<1> QED
  BY <1>1, <1>3, Versions DEF NoneGrows

LEMMA SameVersions ==
    ASSUME TypeOK, UNCHANGED node
    PROVE  NoneGrows
<1>1. \A n \in NodeIds : node[n].lock \in LockWord
  BY DEF TypeOK
<1> QED
  BY <1>1, Versions DEF NoneGrows

LEMMA UnlockVersions ==
    ASSUME TypeOK, NEW t \in Threads, Unlock(t)
    PROVE  \A n \in NodeIds, s \in Sides :
              node'[n].lock[s].version <= node[n].lock[s].version + 1
<1>1. /\ \A n \in NodeIds : node[n].lock \in LockWord
      /\ node \in [NodeIds -> [key : Nat, child : [Sides -> Ptr], lock : LockWord]]
  BY DEF TypeOK
<1>2. at[t].right \in Sides /\ at[t].pright \in Sides
  BY DEF TypeOK, Locals
<1>3. \A n \in NodeIds : \/ node'[n].lock = node[n].lock
                         \/ node'[n].lock = tl_unlock(node[n].lock, at[t].right)
                         \/ node'[n].lock = tl_unlock(node[n].lock, at[t].pright)
  BY <1>1 DEF Unlock
<1>4. \A n \in NodeIds, s \in Sides : node[n].lock[s].version \in Nat
  BY <1>1, Versions
<1>5. \A n \in NodeIds, s, r \in Sides :
         tl_unlock(node[n].lock, r)[s].version <= node[n].lock[s].version + 1
  BY <1>1, Versions
<1>6. SUFFICES ASSUME NEW n \in NodeIds, NEW s \in Sides
               PROVE  node'[n].lock[s].version <= node[n].lock[s].version + 1
  OBVIOUS
<1>7. node[n].lock[s].version <= node[n].lock[s].version + 1
  BY <1>4
<1>8. CASE node'[n].lock = node[n].lock
  BY <1>7, <1>8
<1>9. CASE node'[n].lock = tl_unlock(node[n].lock, at[t].right)
  BY <1>2, <1>5, <1>9
<1>10. CASE node'[n].lock = tl_unlock(node[n].lock, at[t].pright)
  BY <1>2, <1>5, <1>10
<1> QED
  BY <1>3, <1>8, <1>9, <1>10

(* No thread has more left than before.                                    *)
Thrifty == StartInv' /\ Decided' /\ \A u \in Threads : Left(u)' <= Left(u)

LEMMA ThriftyStep ==
    ASSUME StartInv, Decided, NEW t \in Threads, Aside(t), StartInv',
           at'[t].pc = "unlock" => call'[t].result = "success",
           Left(t)' <= Left(t)
    PROVE  Thrifty
<1>1. \A u \in Threads \ {t} : Left(u)' = Left(u) /\ Left(u) \in Nat
  BY AsideLeft, LeftType DEF StartInv
<1>2. \A u \in Threads : Left(u)' <= Left(u)
  BY <1>1
<1>3. Decided'
  BY DEF Decided, Aside
<1> QED
  BY <1>2, <1>3 DEF Thrifty

LEMMA SameStart ==
    ASSUME StartInv, UNCHANGED <<mpc, start, operCount, tpc>>
    PROVE  StartInv'
  BY DEF StartInv

LEMMA GotoPlaces ==
    ASSUME TypeOK, NEW t \in Threads, NEW from, NEW to, Goto(t, from, to)
    PROVE  /\ at[t].pc = from /\ at'[t].pc = to
           /\ \A u \in Threads \ {t} : at'[u].pc = at[u].pc
<1>1. at \in [Threads -> Locals] /\ at' = [at EXCEPT ![t].pc = to] /\ at[t].pc = from
  BY DEF TypeOK, Goto
<1>2. at'[t] = [at[t] EXCEPT !.pc = to] /\ at[t] \in Locals
  BY <1>1
<1> QED
  BY <1>1, <1>2 DEF Locals

(* The steps of an operation that neither call, decide nor give back.      *)
LEMMA WalkThrifty ==
    ASSUME TypeOK, StartInv, Decided, NEW t \in Threads,
           \/ GetGuard(t) \/ ReadVersion(t) \/ LockPred(t) \/ LockParent(t)
           \/ LockBoth(t) \/ Revert(t) \/ RetireBoth(t) \/ DropGuard(t)
    PROVE  Thrifty
<1>1. at \in [Threads -> Locals]
  BY DEF TypeOK
<1>2. UNCHANGED <<mpc, start, operCount, tpc, call>>
  BY DEF GetGuard, ReadVersion, LockPred, LockParent, LockBoth, Revert, RetireBoth,
         DropGuard, benchVars
<1>3. /\ \A u \in Threads \ {t} : at'[u].pc = at[u].pc
      /\ at[t].pc # "unlock" /\ at'[t].pc # "unlock"
  <2>0. \A from, to : Goto(t, from, to) =>
           /\ at[t].pc = from /\ at'[t].pc = to
           /\ \A u \in Threads \ {t} : at'[u].pc = at[u].pc
    BY GotoPlaces
  <2>1. CASE GetGuard(t)
    BY <1>1, <2>1 DEF GetGuard
  <2>2. CASE ReadVersion(t)
    BY <1>1, <2>2 DEF ReadVersion
  <2>3. CASE LockPred(t)
    <3>1. CASE Goto(t, "lock", "retry")
      BY <2>0, <3>1
    <3>2. ASSUME NEW r, at' = [at EXCEPT ![t].pc = "link", ![t].nr = r]
          PROVE  at'[t].pc = "link" /\ \A u \in Threads \ {t} : at'[u].pc = at[u].pc
      <4>1. at'[t] = [at[t] EXCEPT !.pc = "link", !.nr = r] /\ at[t] \in Locals
        BY <1>1, <3>2
      <4> QED
        BY <1>1, <3>2, <4>1 DEF Locals
    <3>3. at[t].pc = "lock" /\ (Goto(t, "lock", "retry")
             \/ \E r : at' = [at EXCEPT ![t].pc = "link", ![t].nr = r])
      BY <2>3, Zenon DEF LockPred
    <3> QED
      BY <3>1, <3>2, <3>3
  <2>4. CASE LockParent(t) \/ LockBoth(t)
    <3>1. \/ Goto(t, "lockParent", "lockBoth") \/ Goto(t, "lockParent", "retry")
          \/ Goto(t, "lockBoth", "unlink") \/ Goto(t, "lockBoth", "revert")
      BY <2>4, Zenon DEF LockParent, LockBoth
    <3> QED
      BY <2>0, <3>1
  <2>5. CASE Revert(t) \/ RetireBoth(t)
    <3>1. \/ Goto(t, "revert", "retry") \/ Goto(t, "retireCurr", "retirePred")
          \/ Goto(t, "retirePred", "end")
      BY <2>5, Zenon DEF Revert, RetireBoth
    <3> QED
      BY <2>0, <3>1
  <2>6. CASE DropGuard(t)
    <3>1. CASE Goto(t, "retry", "guard")
      BY <2>0, <3>1
    <3>2. CASE at[t].pc = "end" /\ at' = [at EXCEPT ![t] = Idle]
      BY <1>1, <3>2 DEF Idle
    <3> QED
      BY <2>6, <3>1, <3>2 DEF DropGuard
  <2> QED
    BY <2>1, <2>2, <2>3, <2>4, <2>5, <2>6
<1>4. Aside(t) /\ StartInv'
  BY <1>2, <1>3, SameStart DEF Aside
<1>5. Left(t)' = Left(t) /\ Left(t) \in Nat
  BY <1>2, <1>3, LeftType DEF Left, More, Due, StartInv
<1>6. Left(t)' <= Left(t)
  BY <1>5
<1> QED
  BY <1>3, <1>4, <1>6, ThriftyStep

LEMMA UnlockSpends ==
    ASSUME TypeOK, ControlInv, StartInv, Decided, NEW t \in Threads, Unlock(t)
    PROVE  StartInv' /\ Decided' /\ Aside(t) /\ Left(t)' + 1 <= Left(t)
<1>1. at \in [Threads -> Locals]
  BY DEF TypeOK
<1>2. UNCHANGED <<mpc, start, operCount, tpc, call>>
  BY DEF Unlock, benchVars
<1>3. /\ \A u \in Threads \ {t} : at'[u].pc = at[u].pc
      /\ at[t].pc = "unlock" /\ at'[t].pc # "unlock"
  <2>1. Goto(t, "unlock", "end") \/ Goto(t, "unlock", "retireCurr")
    BY Zenon DEF Unlock
  <2> QED
    BY <2>1, GotoPlaces
<1>4. tpc[t] = "call" /\ call[t].result = "success"
  BY <1>3 DEF ControlInv, ControlOf, LoopOf, Decided
<1>5. Aside(t) /\ StartInv'
  BY <1>2, <1>3, SameStart DEF Aside
<1>6. Decided'
  BY <1>2, <1>3 DEF Decided
<1>7. Due(t) /\ ~Due(t)' /\ More(t)' = More(t)
  BY <1>2, <1>3, <1>4 DEF Due, More
<1>8. More(t) \in Nat
  BY DEF More, StartInv
<1>9. Left(t)' + 1 <= Left(t)
  BY <1>7, <1>8 DEF Left
<1> QED
  BY <1>5, <1>6, <1>9

LEMMA OperationThrifty ==
    ASSUME TypeOK, ControlInv, StartInv, Decided, NEW t \in Threads, Operation(t)
    PROVE  Thrifty
<1>1. at \in [Threads -> Locals] /\ tpc \in [Threads -> ThreadPC]
  BY DEF TypeOK
<1>2. UNCHANGED <<mpc, start, operCount>> /\ tpc[t] = "step" /\ tpc' = [tpc EXCEPT ![t] = "call"]
  BY DEF Operation, StepCall, To
<1>3. \A u \in Threads \ {t} : call'[u] = call[u] /\ at'[u] = at[u] /\ tpc'[u] = tpc[u]
  BY <1>1, <1>2 DEF Operation, StepCall, TypeOK
<1>4. at'[t].pc = "guard"
  BY <1>1 DEF Operation
<1>5. mpc \notin {"create", "wait"}
  BY <1>2 DEF StartInv
<1>6. StartInv'
  BY <1>2, <1>5 DEF StartInv
<1>7. Aside(t)
  BY <1>2, <1>3 DEF Aside
<1>8. Due(t) /\ More(t)' = More(t)
  BY <1>2 DEF Due, More
<1>9. More(t) \in Nat
  BY DEF More, StartInv
<1>10. Left(t)' <= Left(t)
  BY <1>8, <1>9 DEF Left
<1> QED
  BY <1>4, <1>6, <1>7, <1>10, ThriftyStep

LEMMA DescendThrifty ==
    ASSUME TypeOK, ControlInv, StartInv, Decided, NEW t \in Threads, Descend(t)
    PROVE  Thrifty
<1>1. at \in [Threads -> Locals] /\ call \in [Threads -> CallSet \cup {NoCall}]
  BY DEF TypeOK
<1>2. UNCHANGED <<mpc, start, operCount, tpc>> /\ at[t].pc = "child"
  BY DEF Descend, loopVars
<1>3. \A u \in Threads \ {t} : call'[u] = call[u] /\ at'[u] = at[u]
  BY <1>1 DEF Descend, Decide
<1>4. at'[t].pc # "unlock"
  <2> DEFINE a == at[t]
             side == Side(key(t), a.curr)
             next == node[a.curr].child[side]
             R(pc) == [a EXCEPT !.pc = pc, !.curr = next,
                                !.right = IF op(t) = "get" THEN 0 ELSE side]
  <2>1. \E pc \in TicketPC \ {"unlock"} : at' = [at EXCEPT ![t] = R(pc)]
    <3>1. \/ at' = [at EXCEPT ![t] = R(IF op(t) = "get" THEN "child" ELSE "version")]
          \/ at' = [at EXCEPT ![t] = R("end")]
          \/ at' = [at EXCEPT ![t] = R(IF op(t) = "insert" THEN "lock" ELSE "lockParent")]
      BY DEF Descend, Side
    <3> HIDE DEF R
    <3> QED
      BY <3>1 DEF TicketPC
  <2>2. \A pc : R(pc).pc = pc
    BY <1>1 DEF Locals
  <2> HIDE DEF R
  <2> QED
    BY <1>1, <2>1, <2>2
<1>5. tpc[t] = "call" /\ call[t].result = "pending"
  BY <1>2 DEF ControlInv, ControlOf, LoopOf
<1>6. Aside(t) /\ StartInv'
  BY <1>2, <1>3, SameStart DEF Aside
<1>7. Due(t) /\ More(t)' = More(t)
  BY <1>2, <1>5 DEF Due, More
<1>8. More(t) \in Nat
  BY DEF More, StartInv
<1>9. Left(t)' <= Left(t)
  BY <1>7, <1>8 DEF Left
<1> QED
  BY <1>4, <1>6, <1>9, ThriftyStep

LEMMA ChangeThrifty ==
    ASSUME TypeOK, ControlInv, StartInv, Decided, NEW t \in Threads, Link(t) \/ Unlink(t)
    PROVE  Thrifty
<1>1. at \in [Threads -> Locals] /\ call \in [Threads -> CallSet \cup {NoCall}]
  BY DEF TypeOK
<1>2. /\ UNCHANGED <<mpc, start, operCount, tpc>> /\ at[t].pc \in {"link", "unlink"}
      /\ at' = [at EXCEPT ![t].pc = "unlock"]
      /\ Effect(t, TRUE) \/ Effect(t, FALSE)
  BY DEF Link, Unlink, Goto, loopVars
<1>3. call[t] \in CallSet /\ call[t].result = "pending" /\ tpc[t] = "call"
  BY <1>1, <1>2 DEF ControlInv, ControlOf, LoopOf
<1>4. \A u \in Threads \ {t} : at'[u] = at[u]
  BY <1>1, <1>2
<1>5. \A u \in Threads \ {t} : call'[u].result = call[u].result
  <2> SUFFICES ASSUME NEW u \in Threads \ {t} PROVE call'[u].result = call[u].result
    OBVIOUS
  <2>1. CASE call[u] = NoCall
    <3>1. call'[u] = call[u]
      BY <1>2, <2>1 DEF Effect
    <3> QED
      BY <3>1
  <2>2. CASE call[u] \in CallSet
    <3>1. call'[u] = call[u] \/ \E b \in BOOLEAN :
             call'[u] = [call[u] EXCEPT !.seen = @ \cup {b}]
      BY <1>2 DEF Effect
    <3> QED
      BY <2>2, <3>1 DEF CallSet
  <2> QED
    BY <1>1, <2>1, <2>2
<1>6. call'[t].result = "success"
  <2>1. call'[t] = [call[t] EXCEPT !.result = "success"]
    BY <1>2 DEF Effect
  <2> QED
    BY <1>3, <2>1 DEF CallSet
<1>7. Aside(t) /\ StartInv'
  BY <1>2, <1>4, <1>5, SameStart DEF Aside
<1>8. Due(t) /\ More(t)' = More(t)
  BY <1>2, <1>3 DEF Due, More
<1>9. More(t) \in Nat
  BY DEF More, StartInv
<1>10. Left(t)' <= Left(t)
  BY <1>8, <1>9 DEF Left
<1> QED
  BY <1>6, <1>7, <1>10, ThriftyStep

LEMMA ReturnThrifty ==
    ASSUME TypeOK, ControlInv, StartInv, Decided, NEW t \in Threads, Return(t)
    PROVE  Thrifty
<1>1. tpc \in [Threads -> ThreadPC] /\ call \in [Threads -> CallSet \cup {NoCall}]
  BY DEF TypeOK
<1>2. /\ UNCHANGED <<mpc, start, operCount, at>> /\ at[t] = Idle /\ tpc[t] = "call"
      /\ call' = [call EXCEPT ![t] = NoCall]
  BY DEF Return, StepReturn, To, treeVars
<1>3. \/ tpc' = [tpc EXCEPT ![t] = "step"] /\ call[t].result = "failure"
      \/ tpc' = [tpc EXCEPT ![t] = "loop"]
  BY DEF Return, StepReturn, To
<1>4. \A u \in Threads \ {t} : call'[u] = call[u] /\ tpc'[u] = tpc[u]
  BY <1>1, <1>2, <1>3
<1>5. mpc \notin {"create", "wait"}
  BY <1>2 DEF StartInv
<1>6. StartInv'
  BY <1>2, <1>5 DEF StartInv
<1>7. Aside(t)
  BY <1>2, <1>4 DEF Aside
<1>8. at'[t].pc # "unlock"
  BY <1>2 DEF Idle
<1>9. More(t)' = More(t) /\ More(t) \in Nat
  BY <1>2 DEF More, StartInv
<1>10. Due(t)' => Due(t)
  <2>1. CASE tpc' = [tpc EXCEPT ![t] = "step"] /\ call[t].result = "failure"
    BY <1>2, <2>1 DEF Due
  <2>2. CASE tpc' = [tpc EXCEPT ![t] = "loop"]
    BY <1>1, <2>2 DEF Due
  <2> QED
    BY <1>3, <2>1, <2>2
<1>11. Left(t)' <= Left(t)
  BY <1>9, <1>10 DEF Left
<1> QED
  BY <1>6, <1>7, <1>8, <1>11, ThriftyStep

LEMMA LoopThrifty ==
    ASSUME TypeOK, ControlInv, StartInv, Decided, NEW t \in Threads, Loop(t)
    PROVE  Thrifty
<1>1. tpc \in [Threads -> ThreadPC] /\ operCount \in [Threads -> Int]
  BY DEF TypeOK, StartInv
<1>2. UNCHANGED <<mpc, start, at, call>>
  BY DEF Loop, treeVars, Pre, SeeStart, IsStopped, Post, Leave
<1>3. at'[t].pc = "unlock" => call'[t].result = "success"
  BY <1>2 DEF Decided
<1>4. CASE Pre(t) \/ SeeStart(t) \/ Post(t) \/ Leave(t)
  <2>1. /\ operCount' = operCount
        /\ \A u \in Threads \ {t} : tpc'[u] = tpc[u]
        /\ tpc'[t] \notin {"step", "call"}
    BY <1>1, <1>4 DEF Pre, SeeStart, Post, Leave, To
  <2>2. StartInv'
    <3>1. CASE Pre(t)
      BY <1>1, <1>2, <3>1 DEF Pre, To, StartInv
    <3>2. CASE ~Pre(t)
      <4>1. mpc \notin {"create", "wait"}
        BY <1>4, <3>2 DEF SeeStart, Post, Leave, To, StartInv
      <4> QED
        BY <1>2, <2>1, <4>1 DEF StartInv
    <3> QED
      BY <3>1, <3>2
  <2>3. Aside(t)
    BY <1>2, <2>1 DEF Aside
  <2>4. More(t)' = More(t) /\ More(t) \in Nat /\ ~Due(t)'
    BY <1>1, <2>1 DEF More, Due
  <2>5. Left(t)' <= Left(t)
    BY <2>4 DEF Left
  <2> QED
    BY <1>3, <2>2, <2>3, <2>5, ThriftyStep
<1>5. CASE IsStopped(t)
  <2>1. /\ operCount' = [operCount EXCEPT ![t] = @ - 1] /\ tpc[t] = "loop"
        /\ tpc' = [tpc EXCEPT ![t] = IF operCount[t] - 1 < 0 THEN "post" ELSE "step"]
    BY <1>5 DEF IsStopped, To
  <2>2. \A u \in Threads \ {t} : tpc'[u] = tpc[u] /\ operCount'[u] = operCount[u]
    BY <1>1, <2>1
  <2>3. mpc \notin {"create", "wait"}
    BY <2>1 DEF StartInv
  <2>4. StartInv'
    BY <1>1, <1>2, <2>1, <2>3 DEF StartInv
  <2>5. Aside(t)
    BY <1>2, <2>2 DEF Aside
  <2>6. operCount'[t] = operCount[t] - 1 /\ operCount[t] \in Int
    BY <1>1, <2>1
  <2>7. CASE operCount[t] - 1 < 0
    <3>1. tpc'[t] = "post"
      BY <1>1, <2>1, <2>7
    <3>2. ~Due(t)' /\ More(t)' = 0 /\ More(t) \in Nat
      BY <2>6, <2>7, <3>1 DEF Due, More
    <3>3. Left(t)' <= Left(t)
      BY <3>2 DEF Left
    <3> QED
      BY <1>3, <2>4, <2>5, <3>3, ThriftyStep
  <2>8. CASE ~(operCount[t] - 1 < 0)
    <3>1. More(t) = operCount[t] /\ More(t)' = operCount[t] - 1
      BY <2>6, <2>8 DEF More
    <3>2. Left(t)' <= Left(t)
      BY <2>6, <3>1 DEF Left
    <3> QED
      BY <1>3, <2>4, <2>5, <3>2, ThriftyStep
  <2> QED
    BY <2>7, <2>8
<1> QED
  BY <1>4, <1>5 DEF Loop

LEMMA RestFacts ==
    ASSUME TypeOK
    PROVE  /\ Later(stage) \in Nat /\ Current.limit \in Nat /\ Rest \in Nat
           /\ UNCHANGED <<mpc, stage>> => Rest' = Rest
<1>1. stage \in 1 .. 3
  BY DEF TypeOK
<1>2. Later(stage) \in Nat /\ Current.limit \in Nat
  BY <1>1, LimitFacts DEF Current
<1>3. Rest \in Nat
  BY <1>2 DEF Rest
<1>4. UNCHANGED <<mpc, stage>> => Rest' = Rest
  BY DEF Rest, Later, Current
<1> QED
  BY <1>2, <1>3, <1>4

LEMMA BudgetKept ==
    ASSUME TypeOK, TypeOK', BudgetInv, Thrifty, NoneGrows, Rest' \in Nat, Rest' <= Rest
    PROVE  BudgetInv'
<1>1. PICK v \in Nat : \E c : Bounded(v) /\ Spend(c) /\ v + c[MaxThreads] + Rest <= Total
  BY DEF BudgetInv
<1>2. PICK c : Bounded(v) /\ Spend(c) /\ v + c[MaxThreads] + Rest <= Total
  BY <1>1
<1>3. Spend(c)'
  BY <1>2, SpendStays DEF Thrifty, BudgetInv, StartInv
<1>4. Bounded(v)'
  <2> SUFFICES ASSUME NEW n \in NodeIds, NEW s \in Sides
               PROVE  node'[n].lock[s].version <= v
    BY DEF Bounded
  <2>1. node[n].lock \in LockWord
    BY DEF TypeOK
  <2>2. node[n].lock[s].version \in Nat /\ node[n].lock[s].version <= v
    BY <1>2, <2>1, Versions DEF Bounded
  <2>3. node'[n].lock[s].version <= node[n].lock[s].version
    BY DEF NoneGrows
  <2>4. node'[n].lock \in LockWord
    BY DEF TypeOK
  <2>5. node'[n].lock[s].version \in Nat
    BY <2>4, Versions
  <2> QED
    BY <2>2, <2>3, <2>5
<1>5. v + c[MaxThreads] + Rest' <= Total
  <2>1. c[MaxThreads] \in Nat /\ Total \in Nat /\ Rest \in Nat
    BY <1>2, BenchAssumption, LimitFacts, RestFacts DEF Spend
  <2> QED
    BY <1>2, <2>1
<1> QED
  BY <1>3, <1>4, <1>5 DEF BudgetInv, Thrifty

LEMMA UnlockBudget ==
    ASSUME TypeOK, TypeOK', ControlInv, BudgetInv, NEW t \in Threads, Unlock(t)
    PROVE  BudgetInv'
<1>1. PICK v \in Nat : \E c : Bounded(v) /\ Spend(c) /\ v + c[MaxThreads] + Rest <= Total
  BY DEF BudgetInv
<1>2. PICK c : Bounded(v) /\ Spend(c) /\ v + c[MaxThreads] + Rest <= Total
  BY <1>1
<1>3. StartInv' /\ Decided' /\ Aside(t) /\ Left(t)' + 1 <= Left(t)
  BY UnlockSpends DEF BudgetInv
<1>4. PICK e : Spend(e)' /\ e[MaxThreads] + 1 = c[MaxThreads]
  BY <1>2, <1>3, AsideLeft, SpendFalls DEF BudgetInv, StartInv
<1>5. Bounded(v + 1)'
  <2> SUFFICES ASSUME NEW n \in NodeIds, NEW s \in Sides
               PROVE  node'[n].lock[s].version <= v + 1
    BY DEF Bounded
  <2>1. node[n].lock \in LockWord
    BY DEF TypeOK
  <2>2. node[n].lock[s].version \in Nat /\ node[n].lock[s].version <= v
    BY <1>2, <2>1, Versions DEF Bounded
  <2>3. node'[n].lock[s].version <= node[n].lock[s].version + 1
    BY UnlockVersions
  <2>4. node'[n].lock \in LockWord
    BY DEF TypeOK
  <2>5. node'[n].lock[s].version \in Nat
    BY <2>4, Versions
  <2> QED
    BY <2>2, <2>3, <2>5
<1>6. Rest' = Rest /\ Rest \in Nat
  BY RestFacts DEF Unlock, benchVars
<1>7. (v + 1) + e[MaxThreads] + Rest' <= Total
  <2>1. c[MaxThreads] \in Nat /\ e[MaxThreads] \in Nat
    BY <1>2, <1>4, BenchAssumption DEF Spend
  <2> QED
    BY <1>2, <1>4, <1>6, <2>1
<1>8. v + 1 \in Nat
  OBVIOUS
<1> QED
  BY <1>3, <1>4, <1>5, <1>7, <1>8 DEF BudgetInv

-----------------------------------------------------------------------------
(* main                                                                    *)

(* The threads wait or are joined: nobody has anything left.               *)
LEMMA NothingLeft ==
    ASSUME \A u \in Threads : operCount[u] = 0 /\ tpc[u] \notin {"step", "call"}
    PROVE  \A u \in Threads : Left(u) = 0
  BY DEF Left, More, Due

LEMMA SkipCreateBudget ==
    ASSUME TypeOK, TypeOK', BudgetInv, SkipStage \/ CreateThreads, UNCHANGED treeVars
    PROVE  BudgetInv'
<1>1. /\ mpc = "create" /\ UNCHANGED <<start, operCount, call, node, at>>
      /\ stage \in 1 .. 3 /\ StartInv /\ Decided
  BY DEF SkipStage, CreateThreads, treeVars, TypeOK, BudgetInv
<1>2. /\ mpc' \in {"create", "wait"} /\ ~start
      /\ \A u \in Threads : operCount[u] = 0 /\ tpc[u] \in {"none", "pre", "ready"}
                            /\ tpc'[u] \in {"none", "pre", "ready"}
  <2>1. ~start /\ \A u \in Threads : operCount[u] = 0 /\ tpc[u] \in {"none", "pre", "ready"}
    BY <1>1 DEF StartInv
  <2> QED
    BY <1>1, <2>1 DEF SkipStage, CreateThreads
<1>3. StartInv'
  BY <1>1, <1>2 DEF StartInv
<1>4. Decided'
  BY <1>1 DEF Decided
<1>5. \A u \in Threads : Left(u)' <= Left(u)
  <2>1. \A u \in Threads : Left(u) = 0
    BY <1>2, NothingLeft
  <2>2. \A u \in Threads : operCount'[u] = 0 /\ tpc'[u] \notin {"step", "call"}
    BY <1>1, <1>2
  <2>3. \A u \in Threads : Left(u)' = 0
    BY <2>2 DEF Left, More, Due
  <2> QED
    BY <2>1, <2>3
<1>6. Thrifty
  BY <1>3, <1>4, <1>5 DEF Thrifty
<1>7. Rest' \in Nat /\ Rest' <= Rest
  <2>1. CASE SkipStage
    <3>1. stage \in 1 .. 2 /\ stage' = stage + 1 /\ mpc' = "create" /\ stage + 1 \in 1 .. 3
      BY <1>1, <2>1 DEF SkipStage
    <3>2. /\ Later(stage) = Stages[stage + 1].limit + Later(stage + 1)
          /\ Stages[stage + 1].limit \in Nat /\ Later(stage + 1) \in Nat
          /\ Stages[stage].limit \in Nat
      BY <1>1, <3>1, LimitFacts
    <3>3. Rest = Later(stage) + Stages[stage].limit
      BY <1>1 DEF Rest, Current
    <3>4. Rest' = Later(stage + 1) + Stages[stage + 1].limit
      BY <3>1 DEF Rest, Current, Later
    <3> QED
      BY <3>2, <3>3, <3>4
  <2>2. CASE CreateThreads
    <3>1. stage' = stage /\ mpc' = "wait"
      BY <2>2 DEF CreateThreads
    <3>2. Rest' = Rest
      BY <1>1, <3>1 DEF Rest, Current, Later
    <3> QED
      BY <3>2, RestFacts
  <2> QED
    BY <2>1, <2>2
<1>8. NoneGrows
  BY <1>1, SameVersions
<1> QED
  BY <1>6, <1>7, <1>8, BudgetKept

LEMMA JoinBudget ==
    ASSUME TypeOK, TypeOK', BudgetInv, JoinThreads, UNCHANGED treeVars
    PROVE  BudgetInv'
<1>1. /\ mpc = "join" /\ UNCHANGED <<call, node, at>> /\ start' = FALSE
      /\ operCount' = [u \in Threads |-> 0] /\ tpc' = [u \in Threads |-> "none"]
      /\ stage \in 1 .. 3 /\ StartInv /\ Decided
  BY DEF JoinThreads, AllEnded, treeVars, TypeOK, BudgetInv
<1>2. \/ stage \in 1 .. 2 /\ mpc' = "create" /\ stage' = stage + 1
      \/ stage = 3 /\ mpc' = "report" /\ stage' = stage
  BY <1>1 DEF JoinThreads, AllEnded
<1>3. StartInv'
  <2>0. ~start' /\ start' \in BOOLEAN
    BY <1>1, Zenon
  <2>1. mpc' \in {"create", "report"} /\ operCount' \in [Threads -> Int]
    BY <1>1, <1>2
  <2>2. \A u \in Threads : operCount'[u] = 0 /\ tpc'[u] \in {"none", "pre", "ready"}
    BY <1>1
  <2> QED
    BY <2>0, <2>1, <2>2 DEF StartInv
<1>4. Decided'
  BY <1>1 DEF Decided
<1>5. \A u \in Threads : Left(u)' <= Left(u)
  <2>1. \A u \in Threads : operCount'[u] = 0 /\ tpc'[u] \notin {"step", "call"}
    BY <1>1
  <2>2. \A u \in Threads : Left(u)' = 0 /\ Left(u) \in Nat
    BY <1>1, <2>1, LeftType DEF Left, More, Due, StartInv
  <2> QED
    BY <2>2
<1>6. Thrifty
  BY <1>3, <1>4, <1>5 DEF Thrifty
<1>7. Rest' \in Nat /\ Rest' <= Rest
  <2>1. Rest = Later(stage) /\ Later(stage) \in Nat
    <3>1. Later(stage) \in Nat
      BY RestFacts
    <3> QED
      BY <1>1, <3>1 DEF Rest
  <2>2. CASE stage \in 1 .. 2 /\ mpc' = "create" /\ stage' = stage + 1
    <3>1. /\ Later(stage) = Stages[stage + 1].limit + Later(stage + 1)
          /\ Stages[stage + 1].limit \in Nat /\ Later(stage + 1) \in Nat
      BY <2>2, LimitFacts
    <3>2. Rest' = Later(stage + 1) + Stages[stage + 1].limit
      BY <2>2 DEF Rest, Current, Later
    <3> QED
      BY <2>1, <3>1, <3>2
  <2>3. CASE stage = 3 /\ mpc' = "report" /\ stage' = stage
    <3>1. Rest' = Later(stage) + 0
      BY <2>3 DEF Rest, Later
    <3> QED
      BY <2>1, <3>1
  <2> QED
    BY <1>2, <2>2, <2>3
<1>8. NoneGrows
  BY <1>1, SameVersions
<1> QED
  BY <1>6, <1>7, <1>8, BudgetKept

(* The shares of the threads, added up.                                    *)
LEMMA SharesAddUp ==
    ASSUME stage \in 1 .. 3, Workers # {}
    PROVE  \E c \in [0 .. MaxThreads -> Nat] :
              /\ c[MaxThreads] = Current.limit
              /\ \A t \in Workers : Share(t) \in Nat /\ c[t + 1] = c[t] + Share(t)
              /\ \A t \in Threads \ Workers : c[t + 1] = c[t]
<1>n. PICK n : n = Current.threads
  OBVIOUS
<1>x. PICK x : x = Current.limit
  OBVIOUS
<1>q. PICK q : q = x \div n
  OBVIOUS
<1>r. PICK r : r = x % n
  OBVIOUS
<1>1. n \in 0 .. MaxThreads /\ x \in Nat /\ MaxThreads \in Nat /\ Workers = 0 .. n - 1
  BY <1>n, <1>x, BenchAssumption DEF Current, Workers
<1>2. n \in Nat \ {0} /\ n <= MaxThreads /\ n \in Int /\ n > 0
  BY <1>1
<1>3. q \in Nat /\ r \in 0 .. n - 1
  BY <1>1, <1>2, <1>q, <1>r
<1>4. x = n * q + r
  BY <1>1, <1>2, <1>3, <1>q, <1>r
<1> DEFINE P(m) == m * q + (IF m < r THEN m ELSE r)
           c == [m \in 0 .. MaxThreads |-> IF m <= n THEN P(m) ELSE x]
<1>5. \A t \in Workers : Share(t) = q + (IF t < r THEN 1 ELSE 0)
  BY <1>n, <1>x, <1>q, <1>r DEF Share
<1>6. \A m \in 0 .. n : P(m) \in Nat
  BY <1>2, <1>3
<1>7. ASSUME NEW m \in 0 .. n - 1 PROVE P(m + 1) = P(m) + (q + (IF m < r THEN 1 ELSE 0))
  <2>1. (m + 1) * q = m * q + q /\ m * q \in Nat
    BY <1>2, <1>3
  <2> QED
    BY <1>2, <1>3, <2>1
<1>8. P(n) = x
  BY <1>2, <1>3, <1>4
<1> HIDE DEF P
<1>9. c \in [0 .. MaxThreads -> Nat]
  <2>1. \A m \in 0 .. MaxThreads : m <= n => m \in 0 .. n
    BY <1>1, <1>2
  <2> QED
    BY <1>1, <1>6, <2>1
<1>10. \A m \in 0 .. MaxThreads : c[m] = IF m <= n THEN P(m) ELSE x
  OBVIOUS
<1> HIDE DEF c
<1>11. c[MaxThreads] = x
  BY <1>1, <1>2, <1>8, <1>10
<1>12. ASSUME NEW t \in Workers PROVE Share(t) \in Nat /\ c[t + 1] = c[t] + Share(t)
  <2>1. t \in 0 .. n - 1 /\ t \in 0 .. MaxThreads /\ t + 1 \in 0 .. MaxThreads
        /\ t <= n /\ t + 1 <= n
    BY <1>1, <1>2
  <2>2. c[t] = P(t) /\ c[t + 1] = P(t + 1)
    BY <1>10, <2>1
  <2>3. Share(t) = q + (IF t < r THEN 1 ELSE 0)
    BY <1>5
  <2>4. Share(t) \in Nat
    BY <1>3, <2>3
  <2> QED
    BY <1>7, <2>1, <2>2, <2>3, <2>4
<1>13. ASSUME NEW t \in Threads \ Workers PROVE c[t + 1] = c[t]
  <2>1. t \in 0 .. MaxThreads - 1 /\ ~(t <= n - 1)
    BY <1>1, <1>2 DEF Threads
  <2>2. t \in 0 .. MaxThreads /\ t + 1 \in 0 .. MaxThreads /\ ~(t + 1 <= n)
        /\ (t <= n => t = n)
    BY <1>1, <1>2, <2>1
  <2> QED
    BY <1>8, <1>10, <2>2
<1> QED
  BY <1>9, <1>11, <1>12, <1>13, <1>x

LEMMA StartBudget ==
    ASSUME TypeOK, BudgetInv, StartThreads, UNCHANGED treeVars
    PROVE  BudgetInv'
<1>1. /\ mpc = "wait" /\ mpc' = "join" /\ start' = TRUE
      /\ operCount' = [u \in Threads |-> IF u \in Workers THEN Share(u) ELSE operCount[u]]
      /\ UNCHANGED <<stage, tpc, call, node, at>>
      /\ stage \in 1 .. 3 /\ StartInv /\ Decided
  BY DEF StartThreads, treeVars, TypeOK, BudgetInv
<1>2. \A u \in Threads : operCount[u] = 0 /\ tpc[u] \in {"none", "pre", "ready"}
  BY <1>1 DEF StartInv
<1>3. PICK c \in [0 .. MaxThreads -> Nat] :
         /\ c[MaxThreads] = Current.limit
         /\ \A t \in Workers : Share(t) \in Nat /\ c[t + 1] = c[t] + Share(t)
         /\ \A t \in Threads \ Workers : c[t + 1] = c[t]
  <2>1. CASE Workers # {}
    BY <1>1, <2>1, SharesAddUp
  <2>2. CASE Workers = {}
    <3>1. Current.limit \in Nat
      BY <1>1, BenchAssumption DEF Current
    <3> DEFINE c == [m \in 0 .. MaxThreads |-> Current.limit]
    <3>2. /\ c \in [0 .. MaxThreads -> Nat] /\ c[MaxThreads] = Current.limit
          /\ \A t \in Threads \ Workers : c[t + 1] = c[t]
      BY <3>1, BenchAssumption DEF Threads
    <3> QED
      BY <2>2, <3>2
  <2> QED
    BY <2>1, <2>2
<1>4. StartInv'
  <2>1. operCount' \in [Threads -> Int]
    BY <1>1, <1>2, <1>3
  <2> QED
    BY <1>1, <2>1 DEF StartInv
<1>5. Decided'
  BY <1>1 DEF Decided
<1>6. \A u \in Threads : Left(u)' = IF u \in Workers THEN Share(u) ELSE 0
  <2> SUFFICES ASSUME NEW u \in Threads
               PROVE  Left(u)' = IF u \in Workers THEN Share(u) ELSE 0
    OBVIOUS
  <2>1. operCount'[u] = (IF u \in Workers THEN Share(u) ELSE 0)
    BY <1>1, <1>2
  <2>2. u \in Workers => Share(u) \in Nat
    BY <1>3
  <2>3. ~Due(u)'
    BY <1>1, <1>2 DEF Due
  <2>4. More(u)' = IF u \in Workers THEN Share(u) ELSE 0
    BY <2>1, <2>2 DEF More
  <2> QED
    BY <2>2, <2>3, <2>4 DEF Left
<1>7. Spend(c)'
  <2>1. \A u \in Threads : u \in 0 .. MaxThreads /\ u + 1 \in 0 .. MaxThreads
    BY BenchAssumption DEF Threads
  <2>2. \A u \in Threads : c[u] \in Nat /\ c[u + 1] \in Nat
    BY <1>3, <2>1
  <2>3. ASSUME NEW u \in Threads PROVE c[u + 1] >= c[u] + Left(u)'
    <3>1. CASE u \in Workers
      BY <1>3, <1>6, <2>2, <3>1
    <3>2. CASE u \notin Workers
      BY <1>3, <1>6, <2>2, <3>2
    <3> QED
      BY <3>1, <3>2
  <2> QED
    BY <1>3, <2>3 DEF Spend
<1>8. PICK v \in Nat : \E d : Bounded(v) /\ Spend(d) /\ v + d[MaxThreads] + Rest <= Total
  BY DEF BudgetInv
<1>9. PICK d : Bounded(v) /\ Spend(d) /\ v + d[MaxThreads] + Rest <= Total
  BY <1>8
<1>10. Bounded(v)'
  BY <1>1, <1>9 DEF Bounded
<1>11. v + c[MaxThreads] + Rest' <= Total
  <2>1. Later(stage) \in Nat /\ Current.limit \in Nat /\ Total \in Nat
    BY RestFacts, LimitFacts
  <2>2. Rest = Later(stage) + Current.limit
    BY <1>1 DEF Rest
  <2>3. Rest' = Later(stage) + 0
    BY <1>1 DEF Rest, Later
  <2>4. d[MaxThreads] \in Nat
    BY <1>9, BenchAssumption DEF Spend
  <2> QED
    BY <1>3, <1>9, <2>1, <2>2, <2>3, <2>4
<1> QED
  BY <1>4, <1>5, <1>7, <1>10, <1>11 DEF BudgetInv

LEMMA InitBudget ==
    ASSUME Init
    PROVE  BudgetInv
<1> DEFINE c == [m \in 0 .. MaxThreads |-> 0]
<1>1. /\ mpc = "create" /\ stage = 1 /\ start = FALSE
      /\ operCount = [t \in Threads |-> 0] /\ tpc = [t \in Threads |-> "none"]
      /\ at = [t \in Threads |-> Idle]
  BY DEF Init, BenchInit
<1>2. StartInv
  <2>1. ~start /\ start \in BOOLEAN
    BY <1>1, Zenon
  <2>2. operCount \in [Threads -> Int]
        /\ \A t \in Threads : operCount[t] = 0 /\ tpc[t] \in {"none", "pre", "ready"}
    BY <1>1
  <2> QED
    BY <1>1, <2>1, <2>2 DEF StartInv
<1>3. Decided
  BY <1>1 DEF Decided, Idle
<1>4. \A t \in Threads : Left(t) = 0
  BY <1>1, NothingLeft
<1>5. Spend(c)
  <2>1. \A t \in Threads : t \in 0 .. MaxThreads /\ t + 1 \in 0 .. MaxThreads
    BY BenchAssumption DEF Threads
  <2> QED
    BY <1>4, <2>1 DEF Spend
<1>6. Bounded(0)
  <2>1. \A n \in NodeIds : node[n].lock = Unlocked
    BY DEF Init, Leaf, Internal
  <2> QED
    BY <2>1 DEF Bounded, Unlocked
<1>7. Rest = Total /\ Total \in Nat
  <2>1. Rest = Later(1) + Stages[1].limit
    BY <1>1 DEF Rest, Current
  <2>2. Later(1) \in Nat /\ Stages[1].limit \in Nat
    BY LimitFacts
  <2> QED
    BY <2>1, <2>2, LimitFacts
<1>8. c[MaxThreads] = 0
  BY BenchAssumption
<1> HIDE DEF c
<1>9. 0 + c[MaxThreads] + Rest <= Total
  BY <1>7, <1>8
<1> QED
  BY <1>2, <1>3, <1>5, <1>6, <1>9 DEF BudgetInv

LEMMA NextBudget ==
    ASSUME TypeOK, TypeOK', ControlInv, BudgetInv, [Next]_vars
    PROVE  BudgetInv'
<1>1. StartInv /\ Decided
  BY DEF BudgetInv
<1>2. ASSUME Thrifty, NoneGrows, UNCHANGED <<mpc, stage>> PROVE BudgetInv'
  <2>1. Rest' = Rest /\ Rest \in Nat
    BY <1>2, RestFacts
  <2> QED
    BY <1>2, <2>1, BudgetKept
<1>3. ASSUME UNCHANGED <<mpc, stage, start, operCount, tpc, call, at>>, NoneGrows
      PROVE  BudgetInv'
  <2>1. \A u \in Threads : Left(u)' = Left(u) /\ Left(u) \in Nat
    BY <1>1, <1>3, LeftType DEF Left, More, Due, StartInv
  <2>2. StartInv' /\ Decided'
    BY <1>1, <1>3, SameStart DEF Decided
  <2>3. Thrifty
    BY <2>1, <2>2 DEF Thrifty
  <2> QED
    BY <1>2, <1>3, <2>3
<1>4. CASE UNCHANGED vars
  BY <1>3, <1>4, SameVersions DEF vars, benchVars, treeVars
<1>5. CASE Finished
  BY <1>3, <1>5, SameVersions DEF Finished, vars, benchVars, treeVars
<1>6. CASE FreeNode
  BY <1>3, <1>6, FreeNodeVersions DEF FreeNode, benchVars
<1>7. CASE MainStep
  BY <1>7, SkipCreateBudget, StartBudget, JoinBudget DEF MainStep, Main
<1>8. ASSUME NEW t \in Threads, ThreadStep(t) PROVE BudgetInv'
  <2>1. CASE Unlock(t)
    BY <2>1, UnlockBudget
  <2>2. CASE Loop(t)
    <3>1. UNCHANGED <<mpc, stage, node>>
      BY <2>2 DEF Loop, Pre, SeeStart, IsStopped, Post, Leave, treeVars
    <3> QED
      BY <1>1, <1>2, <2>2, <3>1, LoopThrifty, SameVersions
  <2>3. CASE Operation(t)
    <3>1. UNCHANGED <<mpc, stage, node>>
      BY <2>3 DEF Operation, StepCall
    <3> QED
      BY <1>1, <1>2, <2>3, <3>1, OperationThrifty, SameVersions
  <2>4. CASE Descend(t)
    <3>1. UNCHANGED <<mpc, stage, node>>
      BY <2>4 DEF Descend, loopVars
    <3> QED
      BY <1>1, <1>2, <2>4, <3>1, DescendThrifty, SameVersions
  <2>5. CASE Return(t)
    <3>1. UNCHANGED <<mpc, stage, node>>
      BY <2>5 DEF Return, StepReturn, treeVars
    <3> QED
      BY <1>1, <1>2, <2>5, <3>1, ReturnThrifty, SameVersions
  <2>6. CASE Link(t) \/ Unlink(t)
    <3>1. UNCHANGED <<mpc, stage>>
      BY <2>6 DEF Link, Unlink, loopVars
    <3> QED
      BY <1>1, <1>2, <2>6, <3>1, ChangeThrifty, VersionsStay
  <2>7. CASE GetGuard(t) \/ ReadVersion(t) \/ RetireBoth(t) \/ DropGuard(t)
    <3>1. UNCHANGED <<mpc, stage, node>>
      BY <2>7 DEF GetGuard, ReadVersion, RetireBoth, Retire, DropGuard, benchVars
    <3> QED
      BY <1>1, <1>2, <2>7, <3>1, WalkThrifty, SameVersions
  <2>8. CASE LockPred(t) \/ LockParent(t) \/ LockBoth(t) \/ Revert(t)
    <3>1. UNCHANGED <<mpc, stage>>
      BY <2>8 DEF LockPred, LockParent, LockBoth, Revert, benchVars
    <3> QED
      BY <1>1, <1>2, <2>8, <3>1, WalkThrifty, VersionsStay
  <2> QED
    BY <1>8, <2>1, <2>2, <2>3, <2>4, <2>5, <2>6, <2>7, <2>8 DEF ThreadStep
<1> QED
  BY <1>4, <1>5, <1>6, <1>7, <1>8 DEF Next

LEMMA BudgetBounds ==
    ASSUME TypeOK, BudgetInv, Total < Half - 1
    PROVE  NoWrap
<1>1. PICK v \in Nat : \E c : Bounded(v) /\ Spend(c) /\ v + c[MaxThreads] + Rest <= Total
  BY DEF BudgetInv
<1>2. PICK c : Bounded(v) /\ Spend(c) /\ v + c[MaxThreads] + Rest <= Total
  BY <1>1
<1>3. c[MaxThreads] \in Nat /\ Rest \in Nat /\ Total \in Nat
  BY <1>2, BenchAssumption, RestFacts, LimitFacts DEF Spend
<1>4. v < Half - 1
  BY <1>2, <1>3 DEF Half
<1> SUFFICES ASSUME NEW n \in NodeIds, NEW s \in Sides
             PROVE  node[n].lock[s].version < Half - 1
  BY DEF NoWrap
<1>5. node[n].lock \in LockWord
  BY DEF TypeOK
<1>6. node[n].lock[s].version \in Nat /\ node[n].lock[s].version <= v
  BY <1>2, <1>5, Versions DEF Bounded
<1> QED
  BY <1>4, <1>6 DEF Half

(* In a benchmark with fewer than 2^16 - 1 operations no version wraps     *)
(* around, whatever is tried again: tl_revert gives a lock back without a  *)
(* new version, and only a success is followed by tl_unlock.               *)
THEOREM VersionsDoNotWrap ==
    ASSUME Total < Half - 1
    PROVE  Spec => []NoWrap
<1>1. Init => IInv /\ BudgetInv
  BY InitInv, InitBudget
<1>2. IInv /\ BudgetInv => NoWrap
  BY BudgetBounds DEF IInv, Inv
<1>3. IInv /\ BudgetInv /\ [Next]_vars => IInv' /\ BudgetInv'
  <2> SUFFICES ASSUME IInv, BudgetInv, [Next]_vars PROVE IInv' /\ BudgetInv'
    OBVIOUS
  <2>1. IInv'
    BY <1>2, NextInv
  <2>2. TypeOK /\ ControlInv /\ TypeOK'
    BY <2>1 DEF IInv, Inv
  <2> QED
    BY <2>1, <2>2, NextBudget
<1> QED
  BY <1>1, <1>2, <1>3, PTL DEF Spec

(* In such a benchmark bst_tk_insert, bst_tk_delete and bst_tk_find are a  *)
(* dictionary, touch no freed node, keep the tree a search tree, and the   *)
(* key sum reported is that of the tree, whatever the interleaving.        *)
THEOREM ShortBenchmarkCorrect ==
    ASSUME Total < Half - 1
    PROVE  Spec => [](NoFreedAccess /\ TreeOK /\ KeySumOK) /\ DictionarySpec
<1>1. Spec => []NoWrap
  BY VersionsDoNotWrap
<1> QED
  BY <1>1, NothingFreedIsTouched, TreeStaysOrdered, KeySumsMatch, DictionaryRefinement, PTL
=============================================================================
