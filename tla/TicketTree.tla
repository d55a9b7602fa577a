----------------------------- MODULE TicketTree -----------------------------
(***************************************************************************)
(* BST-TK, the external search tree of guerraoui_ext_bst_ticket, under the *)
(* benchmark's threads.  Internal nodes route, leaves hold the keys.  An   *)
(* operation walks down without locks, remembering the lock word of each   *)
(* node before it reads the node's child, and then locks with a            *)
(* compare-and-swap against the remembered word: it fails, and the         *)
(* operation starts again, if the word has changed since.  The record      *)
(* manager is the abstract one of Reclamation: memory may be freed, and    *)
(* reused by the next allocation, at any moment its promise allows.  The   *)
(* promise is an assumption here.  Debra keeps it in one stage, and breaks *)
(* it once a thread has come back (Debra_proofs, debra_restart.cfg).       *)
(***************************************************************************)
EXTENDS Microbench

CONSTANT MaxNodes       \* bound: the nodes of the heap

NodeIds == 0 .. MaxNodes - 1
NULL == -1
Sides == {0, 1}         \* left and right

(* The sentinels fit into the heap, some key is the greatest one, and the  *)
(* adapter has no range queries (rangeQuery is an error there).            *)
ASSUME TicketAssumption ==
    /\ MaxNodes \in Nat /\ MaxNodes >= 3
    /\ \E k \in Keys : \A j \in Keys : j <= k
    /\ \A s \in 1 .. 3 : Stages[s].ops \subseteq {"insert", "remove", "get"}

VARIABLES
    node,                   \* the heap
    allocated,              \* the nodes malloc has given out
    at,                     \* control point and locals of each operation
    inOp, limbo, waits      \* the record manager, see Reclamation

Rec == INSTANCE Reclamation WITH Records <- NodeIds

recVars == <<inOp, limbo, waits>>
treeVars == <<node, allocated, at, recVars>>
vars == <<benchVars, treeVars>>

-----------------------------------------------------------------------------
(* The lock word: for each side a version and a ticket of 16 bits.  A side *)
(* is locked while they differ.                                            *)

Half == 2^16
Unlocked == [s \in Sides |-> [version |-> 0, ticket |-> 0]]
TLN_REMOVED == [s \in Sides |-> [version |-> 0, ticket |-> Half - 1]]

(* Mutant: the side is free now, but need not be as it was remembered.     *)
FreeNow(lock, old, s) == lock[s].version = lock[s].ticket

tl_trylock_version(lock, old, s) ==
    /\ old[s].version = old[s].ticket
    /\ lock[s] = old[s]

tl_trylock_version_both(lock, old) ==
    /\ \A s \in Sides : old[s].version = old[s].ticket
    /\ lock = old

Locked(lock, s) == [lock EXCEPT ![s].ticket = (@ + 1) % Half]

(* Mutant: the lock is not given back.                                     *)
KeepsLock(lock, s) == lock

tl_unlock(lock, s) == [lock EXCEPT ![s].version = (@ + 1) % Half]

tl_revert(lock, s) == [lock EXCEPT ![s].ticket = (@ + Half - 1) % Half]

-----------------------------------------------------------------------------
(* Nodes                                                                   *)

KEY_MIN == 0
KEY_MAX == Max(Keys) + 1
root == 2

Leaf(k) == [key |-> k, child |-> [s \in Sides |-> NULL], lock |-> Unlocked]
Internal(k, l, r) ==
    [key |-> k, child |-> [s \in Sides |-> IF s = 0 THEN l ELSE r],
     lock |-> Unlocked]
IsLeaf(n) == node[n].child[0] = NULL

(* malloc: what was freed is reused first.                                 *)
Fresh(used) == Min(NodeIds \ used)

(* The internal node an insertion puts above leaf n and the new leaf nn.   *)
NewInternal(k, n, nn) ==
    IF k < node[n].key THEN Internal(node[n].key, nn, n) ELSE Internal(k, n, nn)

(* The locals of an operation before it starts.                            *)
Idle == [pc |-> "idle", curr |-> NULL, pred |-> NULL, ppred |-> NULL,
         pred_ver |-> Unlocked, ppred_ver |-> Unlocked, right |-> 0,
         pright |-> 0, nr |-> NULL]

Init ==
    /\ BenchInit
    /\ Rec!Init
    /\ node = [n \in NodeIds |-> CASE n = 1 -> Leaf(KEY_MAX)
                                   [] n = root -> Internal(KEY_MAX, 0, 1)
                                   [] OTHER -> Leaf(KEY_MIN)]
    /\ allocated = {0, 1, root}
    /\ at = [t \in Threads |-> Idle]

(* What hangs below a node, and the keys of the dictionary.                *)
Below(n) ==
    LET nodes[m \in NodeIds] ==
            IF IsLeaf(m) THEN {m}
            ELSE {m} \cup nodes[node[m].child[0]] \cup nodes[node[m].child[1]]
    IN  nodes[n]
LeafKeys(n) == {node[m].key : m \in {x \in Below(n) : IsLeaf(x)}}
present == LeafKeys(root) \cap Keys

-----------------------------------------------------------------------------
(* The operations: bst_tk_insert, bst_tk_delete, bst_tk_find               *)

op(t) == call[t].op
key(t) == call[t].key
Goto(t, from, to) == at[t].pc = from /\ at' = [at EXCEPT ![t].pc = to]

loopVars == <<mpc, stage, running, start, operCount, tpc, counter,
              key_checksum, num_operations, curKeySum>>

Operation(t) ==
    /\ StepCall(t, present)
    /\ at' = [at EXCEPT ![t].pc = "guard"]
    /\ UNCHANGED <<node, allocated, recVars>>

(* The guarded section is entered (again, after goto retry; pred and right *)
(* keep their values then).                                                *)
GetGuard(t) ==
    /\ at[t].pc = "guard"
    /\ Rec!StartOp(t)
    /\ at' = [at EXCEPT ![t].pc = IF op(t) = "get" THEN "child" ELSE "version",
                        ![t].curr = root]
    /\ UNCHANGED <<benchVars, node, allocated>>

(* The first half of the do-while: curr_ver is read, pred moves down.      *)
ReadVersion(t) ==
    LET a == at[t] IN
    /\ a.pc = "version"
    /\ at' = [at EXCEPT ![t] =
          [a EXCEPT !.pc = "child",
                    !.pred = a.curr,
                    !.pred_ver = node[a.curr].lock,
                    !.ppred = IF op(t) = "remove" THEN a.pred ELSE NULL,
                    !.ppred_ver = IF op(t) = "remove" THEN a.pred_ver
                                                      ELSE Unlocked,
                    !.pright = IF op(t) = "remove" THEN a.right ELSE 0]]
    /\ UNCHANGED <<benchVars, node, allocated, recVars>>

(* The second half: the child is read.  At a leaf the operation either has *)
(* its answer or something to lock.                                        *)
Descend(t) ==
    LET a    == at[t]
        side == IF key(t) < node[a.curr].key THEN 0 ELSE 1
        next == node[a.curr].child[side]
        hit  == node[next].key = key(t)
        through == op(t) = "get" \/ (op(t) = "insert" <=> hit)
        Step(pc) == at' = [at EXCEPT ![t] =
                       [a EXCEPT !.pc = pc, !.curr = next,
                           !.right = IF op(t) = "get" THEN 0 ELSE side]]
    IN
    /\ a.pc = "child"
    /\ \/ /\ ~IsLeaf(next)
          /\ Step(IF op(t) = "get" THEN "child" ELSE "version")
          /\ UNCHANGED call
       \/ /\ IsLeaf(next)
          /\ through
          /\ Decide(t, IF op(t) = "get" /\ hit THEN "success" ELSE "failure")
          /\ Step("end")
       \/ /\ IsLeaf(next)
          /\ ~through
          /\ Step(IF op(t) = "insert" THEN "lock" ELSE "lockParent")
          /\ UNCHANGED call
    /\ UNCHANGED <<loopVars, node, allocated, recVars>>

(* insert: two nodes are allocated and pred's side is locked; if that      *)
(* fails they are deallocated.  Until the next step they are private.      *)
LockPred(t) ==
    LET a  == at[t]
        nn == Fresh(allocated)
        nr == Fresh(allocated \cup {nn})
        lock == node[a.pred].lock
    IN
    /\ a.pc = "lock"
    /\ Cardinality(NodeIds \ allocated) >= 2
    /\ IF tl_trylock_version(lock, a.pred_ver, a.right)
       THEN /\ node' = [node EXCEPT ![nn] = Leaf(key(t)),
                                    ![nr] = NewInternal(key(t), a.curr, nn),
                                    ![a.pred].lock = Locked(lock, a.right)]
            /\ allocated' = allocated \cup {nn, nr}
            /\ at' = [at EXCEPT ![t].pc = "link", ![t].nr = nr]
       ELSE /\ Goto(t, "lock", "retry")
            /\ UNCHANGED <<node, allocated>>
    /\ UNCHANGED <<benchVars, recVars>>

(* insert: pred->right = nr, or pred->left = nr.                           *)
Link(t) ==
    /\ Goto(t, "link", "unlock")
    /\ node' = [node EXCEPT ![at[t].pred].child[at[t].right] = at[t].nr]
    /\ Effect(t, TRUE)
    /\ UNCHANGED <<loopVars, allocated, recVars>>

(* delete: lock ppred's side, then both sides of pred, which is marked     *)
(* removed for good; if the second fails, the first is reverted.           *)
LockParent(t) ==
    LET a == at[t]
        lock == node[a.ppred].lock
    IN
    /\ a.pc = "lockParent"
    /\ \/ /\ tl_trylock_version(lock, a.ppred_ver, a.pright)
          /\ Goto(t, "lockParent", "lockBoth")
          /\ node' = [node EXCEPT ![a.ppred].lock = Locked(lock, a.pright)]
       \/ /\ ~tl_trylock_version(lock, a.ppred_ver, a.pright)
          /\ Goto(t, "lockParent", "retry")
          /\ UNCHANGED node
    /\ UNCHANGED <<benchVars, allocated, recVars>>

(* Mutant: pred's lock is checked, and pred is not marked removed.         *)
NotMarked(lock) == lock

(* What the second lock leaves in pred's lock word.                        *)
Removed(lock) == TLN_REMOVED

LockBoth(t) ==
    LET a == at[t] IN
    /\ a.pc = "lockBoth"
    /\ \/ /\ tl_trylock_version_both(node[a.pred].lock, a.pred_ver)
          /\ Goto(t, "lockBoth", "unlink")
          /\ node' = [node EXCEPT ![a.pred].lock = Removed(@)]
       \/ /\ ~tl_trylock_version_both(node[a.pred].lock, a.pred_ver)
          /\ Goto(t, "lockBoth", "revert")
          /\ UNCHANGED node
    /\ UNCHANGED <<benchVars, allocated, recVars>>

Revert(t) ==
    /\ Goto(t, "revert", "retry")
    /\ node' = [node EXCEPT ![at[t].ppred].lock = tl_revert(@, at[t].pright)]
    /\ UNCHANGED <<benchVars, allocated, recVars>>

(* delete: ppred's child becomes the other child of pred.                  *)
Unlink(t) ==
    LET a == at[t] IN
    /\ Goto(t, "unlink", "unlock")
    /\ node' = [node EXCEPT ![a.ppred].child[a.pright] =
                                node[a.pred].child[1 - a.right]]
    /\ Effect(t, FALSE)
    /\ UNCHANGED <<loopVars, allocated, recVars>>

Unlock(t) ==
    LET a == at[t] IN
    /\ IF op(t) = "insert"
       THEN /\ Goto(t, "unlock", "end")
            /\ node' = [node EXCEPT ![a.pred].lock = tl_unlock(@, a.right)]
       ELSE /\ Goto(t, "unlock", "retireCurr")
            /\ node' = [node EXCEPT ![a.ppred].lock = tl_unlock(@, a.pright)]
    /\ UNCHANGED <<benchVars, allocated, recVars>>

(* Mutant: the node is deallocated at once.                                *)
DeallocateNow(t, n) ==
    /\ node' = [node EXCEPT ![n] = Leaf(KEY_MIN)]
    /\ allocated' = allocated \ {n}
    /\ UNCHANGED recVars

Retire(t, n) == Rec!Retire(t, n) /\ UNCHANGED <<node, allocated>>

RetireBoth(t) ==
    /\ \/ Goto(t, "retireCurr", "retirePred") /\ Retire(t, at[t].curr)
       \/ Goto(t, "retirePred", "end") /\ Retire(t, at[t].pred)
    /\ UNCHANGED benchVars

(* The guard is destructed on return and on goto retry.                    *)
DropGuard(t) ==
    /\ \/ at[t].pc = "end" /\ at' = [at EXCEPT ![t] = Idle]
       \/ Goto(t, "retry", "guard")
    /\ Rec!EndOp(t)
    /\ UNCHANGED <<benchVars, node, allocated>>

Return(t) ==
    /\ at[t] = Idle
    /\ StepReturn(t)
    /\ UNCHANGED treeVars

(* The record manager gives a node back to malloc.                         *)
FreeNode ==
    \E n \in limbo :
        /\ Rec!Free({n})
        /\ node' = [node EXCEPT ![n] = Leaf(KEY_MIN)]
        /\ allocated' = allocated \ {n}
        /\ UNCHANGED <<benchVars, at>>

Loop(t) ==
    /\ Pre(t) \/ SeeStart(t) \/ IsStopped(t) \/ Post(t) \/ Leave(t)
    /\ UNCHANGED treeVars

ThreadStep(t) ==
    \/ Loop(t) \/ Operation(t) \/ GetGuard(t) \/ ReadVersion(t) \/ Descend(t)
    \/ LockPred(t) \/ Link(t)
    \/ LockParent(t) \/ LockBoth(t) \/ Revert(t) \/ Unlink(t)
    \/ Unlock(t) \/ RetireBoth(t) \/ DropGuard(t) \/ Return(t)

MainStep == Main /\ UNCHANGED treeVars

Finished == mpc = "report" /\ UNCHANGED vars

Next == MainStep \/ FreeNode \/ Finished \/ \E t \in Threads : ThreadStep(t)

Spec == Init /\ [][Next]_vars

(* Every thread is scheduled; nothing is asked of the record manager.      *)
FairSpec ==
    /\ Spec
    /\ WF_vars(MainStep)
    /\ \A t \in Threads : WF_vars(ThreadStep(t))

-----------------------------------------------------------------------------

(* The tree is a dictionary: every insertion, removal and search takes     *)
(* effect at one moment during it, whatever walks over nodes that are      *)
(* removed, freed and reused meanwhile.                                    *)
PointCall(c) == [op |-> c.op, key |-> c.key, seen |-> c.seen,
                 result |-> c.result]
pointCall == [t \in Threads |-> IF call[t] = NoCall THEN NoCall
                                                    ELSE PointCall(call[t])]
Dict == INSTANCE Dictionary WITH call <- pointCall
DictionarySpec == Dict!Spec

(* The nodes an operation is about to dereference.                         *)
Touches(t) ==
    LET a == at[t] IN
    CASE a.pc \in {"version", "child"} -> {a.curr}
      [] a.pc \in {"lock", "link"} -> {a.curr, a.pred}
      [] a.pc \in {"lockParent", "lockBoth", "unlink"} ->
            {a.curr, a.pred, a.ppred}
      [] a.pc = "revert" -> {a.ppred}
      [] a.pc = "unlock" -> IF op(t) = "insert" THEN {a.pred} ELSE {a.ppred}
      [] a.pc \in {"retireCurr", "retirePred"} -> {a.curr, a.pred}
      [] OTHER -> {}

(* No operation touches a node that was freed, or the NULL and the stale   *)
(* node that ppred and pred hold in the first iteration: a leaf with a key *)
(* is never a child of the root.                                           *)
NoFreedAccess == \A t \in Threads : Touches(t) \subseteq allocated

(* validateStructure, at every moment: the keys left of a node are smaller *)
(* than its own and those right of it are not, no key is in two leaves,    *)
(* and no node of the tree has been retired or freed.                      *)
TreeOK ==
    LET tree   == Below(root)
        leaves == {n \in tree : IsLeaf(n)}
    IN
    /\ tree \subseteq allocated \ limbo
    /\ \A m, n \in leaves : node[m].key = node[n].key => m = n
    /\ \A n \in tree \ leaves :
          /\ \A k \in LeafKeys(node[n].child[0]) : k < node[n].key
          /\ \A k \in LeafKeys(node[n].child[1]) : k >= node[n].key

(* The key sum the benchmark reports at its end is that of the tree.       *)
KeySumOK == KeySumMatches(present)

(* All retries come to an end: an operation that has to start again, or    *)
(* that reverts its first lock, does so because another one got on.        *)
BenchTerminates == <>(mpc = "report")
=============================================================================
