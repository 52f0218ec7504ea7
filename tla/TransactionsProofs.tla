-------------------------- MODULE TransactionsProofs --------------------------
(***************************************************************************)
(* Proofs about Transactions, for every finite set of keys, all values,    *)
(* handles, bounds and trees to start from.                                *)
(*                                                                         *)
(* A commit replays the operations of a transaction on the live tree.  The *)
(* heart of the proof is Faithful: in every open transaction, replaying    *)
(* them on the base snapshot shows what its staged overlay shows, and each *)
(* operation has seen what replaying those before it shows.                *)
(***************************************************************************)
EXTENDS Transactions, FiniteSetTheorems, SequenceTheorems, NaturalsInduction,
        WellFoundedInduction, TLAPS

Map == [Key -> Val \union {Missing}]
OpRecord == [key : Key, val : Val \union {Missing}, seen : Val \union {Missing}]
TxRecord == [open : BOOLEAN, view : Map, baseRevision : Nat,
             staged : [Key -> Val \union {Deleted, Unstaged}], ops : Seq(OpRecord)]

-----------------------------------------------------------------------------
(* Steps one after the other *)

\* Numbers are well-founded: induction over them, as a least counterexample.
LEMMA LeastOf ==
    ASSUME NEW S \in SUBSET Nat, S # {}
    PROVE  \E x \in S : \A n \in S : x <= n
<1>1. PICK x \in S : \A y \in S : ~ (<<y, x>> \in OpToRel(<, Nat))
  BY NatLessThanWellFounded, WFMin
<1>2. ASSUME NEW y \in S PROVE x <= y
  <2>1. <<y, x>> \in Nat \X Nat /\ x \in Nat /\ y \in Nat
    OBVIOUS
  <2>2. <<y, x>> \in OpToRel(<, Nat) <=> y < x
    BY <2>1 DEF OpToRel
  <2>3. ~(y < x)
    BY <1>1, <2>2, Zenon
  <2> QED
    BY <2>1, <2>3
<1> QED
  BY <1>2

\* n steps can be taken one after the other: the states between them are a
\* function of the number of steps taken.
Stepwise(S, s, n, step) ==
    \E f \in [0..n -> S] : f[0] = s /\ \A i \in 1..n : f[i] = step[i][f[i - 1]]

LEMMA StepsExist ==
    ASSUME NEW S, NEW s \in S, NEW n \in Nat, NEW step, step \in [1..n -> [S -> S]]
    PROVE  Stepwise(S, s, n, step)
<1> DEFINE Reached(m) == \E f \in [0..m -> S] :
                            f[0] = s /\ \A i \in 1..m : f[i] = step[i][f[i - 1]]
           Bad == {m \in 0..n : ~Reached(m)}
<1>1. Reached(0)
  <2> DEFINE f == [i \in 0..0 |-> s]
  <2>1. f \in [0..0 -> S] /\ f[0] = s
    OBVIOUS
  <2>2. \A i \in 1..0 : f[i] = step[i][f[i - 1]]
    OBVIOUS
  <2> HIDE DEF f
  <2> QED
    BY <2>1, <2>2
<1>2. ASSUME NEW m \in 1..n, Reached(m - 1) PROVE Reached(m)
  <2>1. PICK f \in [0..(m - 1) -> S] :
               f[0] = s /\ \A i \in 1..(m - 1) : f[i] = step[i][f[i - 1]]
    BY <1>2
  <2> DEFINE g == [i \in 0..m |-> IF i = m THEN step[m][f[m - 1]] ELSE f[i]]
  <2>2. f[m - 1] \in S /\ step[m] \in [S -> S]
    BY <2>1
  <2>3. step[m][f[m - 1]] \in S
    BY <2>2
  <2>4. g \in [0..m -> S]
    BY <2>3
  <2>5. g[0] = s
    BY <2>1
  <2>6. ASSUME NEW i \in 1..m PROVE g[i] = step[i][g[i - 1]]
    <3>1. CASE i = m
      BY <3>1
    <3>2. CASE i # m
      BY <3>2, <2>1
    <3> QED
      BY <3>1, <3>2
  <2> HIDE DEF g
  <2> QED
    BY <2>4, <2>5, <2>6
<1> HIDE DEF Reached
<1>3. Bad = {}
  <2> SUFFICES ASSUME Bad # {} PROVE FALSE
    OBVIOUS
  <2>1. Bad \in SUBSET Nat
    OBVIOUS
  <2>2. PICK m \in Bad : \A k \in Bad : m <= k
    BY <2>1, LeastOf
  <2>3. m # 0 /\ m \in 1..n
    BY <1>1, <2>2
  <2>4. m - 1 \in 0..n /\ m - 1 \notin Bad
    BY <2>2, <2>3
  <2> QED
    BY <1>2, <2>2, <2>3, <2>4
<1>4. Reached(n)
  BY <1>3
<1> QED
  BY <1>4 DEF Reached, Stepwise

-----------------------------------------------------------------------------
(* Operations one after the other *)

LEMMA ApplyOpTyped ==
    ASSUME NEW m \in Map, NEW op, op.key \in Key, op.val \in Val \union {Missing}
    PROVE  /\ Tree!ApplyOp(m, op) \in Map
           /\ \A k \in Key : Tree!ApplyOp(m, op)[k] = IF k = op.key THEN op.val ELSE m[k]
BY DEF Tree!ApplyOp, Map

\* f lists the states between the n operations.
Listing(f, m, ops, n) ==
    /\ n \in Nat /\ Len(ops) = n
    /\ f = [i \in 0..n |-> f[i]]
    /\ f[0] = m
    /\ \A i \in 1..n : f[i] = Tree!ApplyOp(f[i - 1], ops[i])

\* Whatever lists the states between the operations ends in what ApplyAll returns.
LEMMA ApplyAllIs ==
    ASSUME NEW m, NEW ops, NEW n, NEW f, Listing(f, m, ops, n)
    PROVE  Tree!ApplyAll(m, ops) = f[n]
<1> USE DEF Listing
<1> DEFINE Lists(g) == g = [i \in 0..Len(ops) |->
                               IF i = 0 THEN m ELSE Tree!ApplyOp(g[i - 1], ops[i])]
           g == CHOOSE h : Lists(h)
           Bad == {i \in 0..n : g[i] # f[i]}
<1>1. Tree!ApplyAll(m, ops) = g[n]
  BY DEF Tree!ApplyAll
<1>2. Lists(f)
  <2>1. \A i \in 0..n : f[i] = IF i = 0 THEN m ELSE Tree!ApplyOp(f[i - 1], ops[i])
    OBVIOUS
  <2> QED
    BY <2>1
<1>3. Lists(g)
  BY <1>2
<1>4. \A i \in 0..n : g[i] = IF i = 0 THEN m ELSE Tree!ApplyOp(g[i - 1], ops[i])
  BY <1>3
<1> HIDE DEF g, Lists
<1>5. Bad = {}
  <2> SUFFICES ASSUME Bad # {} PROVE FALSE
    OBVIOUS
  <2>1. Bad \in SUBSET Nat
    OBVIOUS
  <2>2. PICK i \in Bad : \A k \in Bad : i <= k
    BY <2>1, LeastOf
  <2>3. i # 0 /\ i \in 1..n
    BY <1>4, <2>2
  <2>4. i - 1 \in 0..n /\ i - 1 \notin Bad
    BY <2>2, <2>3
  <2>5. g[i - 1] = f[i - 1]
    BY <2>4
  <2>6. g[i] = Tree!ApplyOp(g[i - 1], ops[i])
    BY <1>4, <2>3
  <2>7. f[i] = Tree!ApplyOp(f[i - 1], ops[i])
    BY <2>3
  <2> QED
    BY <2>2, <2>5, <2>6, <2>7, Zenon
<1>6. n \notin Bad /\ n \in 0..n
  BY <1>5
<1> QED
  BY <1>1, <1>6

\* The trees between the operations: each comes of the one before, and each is
\* what the operations so far make of the first.
LEMMA ApplyAllPrefixes ==
    ASSUME NEW m \in Map, NEW ops \in Seq(OpRecord)
    PROVE  \E f \in [0..Len(ops) -> Map] :
              /\ f[0] = m
              /\ \A i \in 1..Len(ops) : f[i] = Tree!ApplyOp(f[i - 1], ops[i])
              /\ \A j \in 0..Len(ops) : Tree!ApplyAll(m, SubSeq(ops, 1, j)) = f[j]
              /\ Tree!ApplyAll(m, ops) = f[Len(ops)]
<1> DEFINE n == Len(ops)
           step == [i \in 1..n |-> [u \in Map |-> Tree!ApplyOp(u, ops[i])]]
<1>1. n \in Nat /\ \A i \in 1..n : ops[i] \in OpRecord
  BY LenProperties, ElementOfSeq
<1>2. ASSUME NEW i \in 1..n, NEW u \in Map PROVE Tree!ApplyOp(u, ops[i]) \in Map
  <2>1. ops[i].key \in Key /\ ops[i].val \in Val \union {Missing}
    BY <1>1 DEF OpRecord
  <2> QED
    BY <2>1, ApplyOpTyped
<1>3. step \in [1..n -> [Map -> Map]]
  BY <1>2
<1>4. \A i \in 1..n, u \in Map : step[i][u] = Tree!ApplyOp(u, ops[i])
  OBVIOUS
<1> HIDE DEF step
<1>5. PICK f \in [0..n -> Map] : f[0] = m /\ \A i \in 1..n : f[i] = step[i][f[i - 1]]
  <2> HIDE DEF n
  <2>1. n \in Nat /\ m \in Map
    BY <1>1
  <2>2. Stepwise(Map, m, n, step)
    BY <2>1, <1>3, StepsExist
  <2> QED
    BY <2>2 DEF Stepwise
<1>6. ASSUME NEW i \in 1..n PROVE f[i] = Tree!ApplyOp(f[i - 1], ops[i])
  <2>1. f[i - 1] \in Map
    BY <1>1
  <2> QED
    BY <1>4, <1>5, <2>1
<1>7. ASSUME NEW j \in 0..n, NEW part, Len(part) = j, \A i \in 1..j : part[i] = ops[i]
      PROVE  Tree!ApplyAll(m, part) = f[j]
  <2> DEFINE g == [i \in 0..j |-> f[i]]
  <2>1. g \in [0..j -> Map] /\ j \in Nat
    BY <1>1
  <2>2. g[0] = m /\ g[j] = f[j]
    BY <1>1, <1>5
  <2>3. ASSUME NEW i \in 1..j PROVE g[i] = Tree!ApplyOp(g[i - 1], part[i])
    <3>1. i \in 1..n /\ i - 1 \in 0..j /\ i \in 0..j
      BY <1>1
    <3>2. g[i - 1] = f[i - 1] /\ g[i] = f[i]
      BY <3>1
    <3> QED
      BY <1>6, <1>7, <3>1, <3>2
  <2> HIDE DEF g, n
  <2>4. Listing(g, m, part, j)
    BY <1>7, <2>1, <2>2, <2>3 DEF Listing
  <2>5. Tree!ApplyAll(m, part) = g[j]
    BY <2>4, ApplyAllIs
  <2> QED
    BY <2>2, <2>5
<1>8. ASSUME NEW j \in 0..n PROVE Tree!ApplyAll(m, SubSeq(ops, 1, j)) = f[j]
  <2>1. Len(SubSeq(ops, 1, j)) = j /\ \A i \in 1..j : SubSeq(ops, 1, j)[i] = ops[i]
    <3>1. \A i \in 1..j : ops[i] \in OpRecord
      BY <1>1
    <3> QED
      BY <1>1, <3>1, SubSeqProperties
  <2> QED
    BY <1>7, <2>1
<1>9. Tree!ApplyAll(m, ops) = f[n]
  BY <1>1, <1>7
<1> QED
  BY <1>5, <1>6, <1>8, <1>9

LEMMA ApplyAllTyped ==
    ASSUME NEW m \in Map, NEW ops \in Seq(OpRecord)
    PROVE  Tree!ApplyAll(m, ops) \in Map
<1>1. Len(ops) \in Nat
  BY LenProperties
<1> QED
  BY <1>1, ApplyAllPrefixes

LEMMA ApplyAllNone ==
    ASSUME NEW m \in Map
    PROVE  Tree!ApplyAll(m, <<>>) = m
<1> DEFINE none == <<>>
<1>1. none \in Seq(OpRecord) /\ Len(none) = 0
  BY EmptySeq
<1> HIDE DEF none
<1>2. Tree!ApplyAll(m, none) = m
  <2>1. PICK f \in [0..Len(none) -> Map] :
               /\ f[0] = m
               /\ \A i \in 1..Len(none) : f[i] = Tree!ApplyOp(f[i - 1], none[i])
               /\ \A j \in 0..Len(none) : Tree!ApplyAll(m, SubSeq(none, 1, j)) = f[j]
               /\ Tree!ApplyAll(m, none) = f[Len(none)]
    BY <1>1, ApplyAllPrefixes
  <2> QED
    BY <1>1, <2>1
<1> QED
  BY <1>2 DEF none

LEMMA ApplyAllAppend ==
    ASSUME NEW m \in Map, NEW ops \in Seq(OpRecord), NEW op \in OpRecord
    PROVE  Tree!ApplyAll(m, Append(ops, op)) = Tree!ApplyOp(Tree!ApplyAll(m, ops), op)
<1> DEFINE more == Append(ops, op)
           n == Len(ops)
<1>1. /\ more \in Seq(OpRecord) /\ Len(more) = n + 1 /\ n \in Nat
      /\ more[n + 1] = op
      /\ SubSeq(more, 1, n) = ops
  <2>1. more \in Seq(OpRecord) /\ Len(more) = n + 1 /\ n \in Nat /\ more[n + 1] = op
    BY AppendProperties, LenProperties
  <2>2. \A i \in 1..n : more[i] = ops[i]
    BY <2>1, AppendProperties
  <2>3. /\ SubSeq(more, 1, n) \in Seq(OpRecord) /\ Len(SubSeq(more, 1, n)) = n
        /\ \A i \in 1..n : SubSeq(more, 1, n)[i] = more[i]
    <3>1. \A i \in 1..n : more[i] \in OpRecord
      BY <2>1, ElementOfSeq
    <3> HIDE DEF more
    <3> QED
      BY <2>1, <3>1, SubSeqProperties
  <2> HIDE DEF more
  <2>4. SubSeq(more, 1, n) = ops
    BY <2>2, <2>3, SeqEqual
  <2> QED
    BY <2>1, <2>4
<1> HIDE DEF more, n
<1>2. PICK f \in [0..Len(more) -> Map] :
             /\ f[0] = m
             /\ \A i \in 1..Len(more) : f[i] = Tree!ApplyOp(f[i - 1], more[i])
             /\ \A j \in 0..Len(more) : Tree!ApplyAll(m, SubSeq(more, 1, j)) = f[j]
             /\ Tree!ApplyAll(m, more) = f[Len(more)]
  BY <1>1, ApplyAllPrefixes
<1>3. f[n + 1] = Tree!ApplyOp(f[n], more[n + 1])
  BY <1>1, <1>2
<1>4. Tree!ApplyAll(m, ops) = f[n]
  <2>1. n \in 0..Len(more)
    BY <1>1
  <2>2. Tree!ApplyAll(m, SubSeq(more, 1, n)) = f[n]
    BY <1>2, <2>1
  <2> QED
    BY <1>1, <2>2, Zenon
<1>5. Tree!ApplyAll(m, more) = f[n + 1]
  BY <1>1, <1>2
<1> QED
  BY <1>1, <1>3, <1>4, <1>5 DEF more

\* Operations that change nothing, one by one, change nothing together.
LEMMA ApplyAllUnchanged ==
    ASSUME NEW m \in Map, NEW ops \in Seq(OpRecord),
           \A i \in 1..Len(ops) :
              ~ Tree!Changes(Tree!ApplyAll(m, SubSeq(ops, 1, i - 1)), ops[i])
    PROVE  Tree!ApplyAll(m, ops) = m
<1> DEFINE n == Len(ops)
<1>1. n \in Nat /\ \A i \in 1..n : ops[i] \in OpRecord
  BY LenProperties, ElementOfSeq
<1>2. PICK f \in [0..n -> Map] :
             /\ f[0] = m
             /\ \A i \in 1..n : f[i] = Tree!ApplyOp(f[i - 1], ops[i])
             /\ \A j \in 0..n : Tree!ApplyAll(m, SubSeq(ops, 1, j)) = f[j]
             /\ Tree!ApplyAll(m, ops) = f[n]
  BY ApplyAllPrefixes
<1> DEFINE Bad == {i \in 0..n : f[i] # m}
<1>3. ASSUME NEW i \in 1..n PROVE f[i] = f[i - 1]
  <2>1. i - 1 \in 0..n /\ f[i - 1] \in Map /\ ops[i] \in OpRecord
    BY <1>1
  <2>2. ~ Tree!Changes(f[i - 1], ops[i])
    BY <1>2, <2>1
  <2>3. ops[i].val = Missing /\ f[i - 1][ops[i].key] = Missing
    BY <2>2 DEF Tree!Changes
  <2>4. Tree!ApplyOp(f[i - 1], ops[i]) = f[i - 1]
    BY <2>1, <2>3 DEF Tree!ApplyOp, Map, OpRecord
  <2> QED
    BY <1>2, <2>4
<1>4. Bad = {}
  <2> SUFFICES ASSUME Bad # {} PROVE FALSE
    OBVIOUS
  <2>1. Bad \in SUBSET Nat
    OBVIOUS
  <2>2. PICK i \in Bad : \A k \in Bad : i <= k
    BY <2>1, LeastOf
  <2>3. i # 0 /\ i \in 1..n
    BY <1>2, <2>2
  <2>4. i - 1 \in 0..n /\ i - 1 \notin Bad
    BY <2>2, <2>3
  <2> QED
    BY <1>3, <2>2, <2>3, <2>4
<1> QED
  BY <1>1, <1>2, <1>4

-----------------------------------------------------------------------------
(* Keys in order *)

\* Every finite set of numbers can be put in order.
LEMMA InOrderTyped ==
    ASSUME NEW keys \in SUBSET Key
    PROVE  /\ InOrder(keys) \in Seq(keys)
           /\ Len(InOrder(keys)) = Cardinality(keys)
           /\ \A i, j \in 1..Len(InOrder(keys)) :
                 i < j => InOrder(keys)[i] < InOrder(keys)[j]
<1> DEFINE Ordered(S) ==
             \E s \in [1..Cardinality(S) -> S] :
                \A i, j \in 1..Cardinality(S) : i < j => s[i] < s[j]
           Bad == {n \in Nat : \E S \in SUBSET Key : Cardinality(S) = n /\ ~Ordered(S)}
<1>1. \A S \in SUBSET Key : IsFiniteSet(S) /\ Cardinality(S) \in Nat /\ S \subseteq Nat
  BY KeysAreNumbers, FS_Subset, FS_CardinalityType
<1>2. Bad = {}
  <2> SUFFICES ASSUME Bad # {} PROVE FALSE
    OBVIOUS
  <2>1. Bad \in SUBSET Nat
    OBVIOUS
  <2>2. PICK n \in Bad : \A k \in Bad : n <= k
    BY <2>1, LeastOf
  <2>3. PICK S \in SUBSET Key : Cardinality(S) = n /\ ~Ordered(S)
    BY <2>2
  <2>4. CASE S = {}
    <3>1. Cardinality(S) = 0
      BY <2>4, FS_EmptySet
    <3> DEFINE s == [i \in 1..0 |-> 0]
    <3>2. s \in [1..0 -> S]
      OBVIOUS
    <3>3. \A i, j \in 1..0 : i < j => s[i] < s[j]
      OBVIOUS
    <3> HIDE DEF s
    <3> QED
      BY <2>3, <3>1, <3>2, <3>3
  <2>5. CASE S # {}
    <3>1. PICK x \in S : \A y \in S : x <= y
      BY <1>1, <2>5, LeastOf
    <3> DEFINE T == S \ {x}
    <3>2. Cardinality(T) = n - 1 /\ T \in SUBSET Key /\ n \in Nat /\ n - 1 \in Nat
      <4>1. /\ IsFiniteSet(S) /\ Cardinality(S) = n /\ n \in Nat
            /\ T \in SUBSET Key /\ Cardinality(T) \in Nat
        BY <1>1, <2>3
      <4>2. Cardinality(T) = Cardinality(S) - 1
        BY <4>1, FS_RemoveElement
      <4> QED
        BY <4>1, <4>2
    <3>3. n - 1 \notin Bad
      BY <2>2, <3>2
    <3>4. Ordered(T)
      BY <3>2, <3>3
    <3> HIDE DEF T
    <3>5. PICK s \in [1..(n - 1) -> T] : \A i, j \in 1..(n - 1) : i < j => s[i] < s[j]
      BY <3>2, <3>4
    <3> DEFINE r == [i \in 1..n |-> IF i = 1 THEN x ELSE s[i - 1]]
    <3>6. \A i \in 2..n : s[i - 1] \in T
      BY <3>2
    <3>7. \A y \in T : y \in S /\ y \in Nat /\ x < y
      BY <1>1, <2>3, <3>1 DEF T
    <3>8. r \in [1..n -> S]
      BY <3>6, <3>7, <3>2
    <3>9. ASSUME NEW i \in 1..n, NEW j \in 1..n, i < j PROVE r[i] < r[j]
      <4>1. j \in 2..n /\ j - 1 \in 1..(n - 1)
        BY <3>2, <3>9
      <4>2. CASE i = 1
        BY <3>6, <3>7, <4>1, <4>2
      <4>3. CASE i # 1
        <5>1. i - 1 \in 1..(n - 1) /\ i - 1 < j - 1
          BY <3>2, <3>9, <4>3
        <5> QED
          BY <3>5, <4>1, <4>3, <5>1
      <4> QED
        BY <4>2, <4>3
    <3> HIDE DEF r
    <3> QED
      BY <2>3, <3>8, <3>9
  <2> QED
    BY <2>4, <2>5
<1>3. Ordered(keys)
  BY <1>1, <1>2
<1> DEFINE s == InOrder(keys)
<1>4. s \in [1..Cardinality(keys) -> keys] /\
      \A i, j \in 1..Cardinality(keys) : i < j => s[i] < s[j]
  BY <1>3 DEF InOrder
<1> HIDE DEF s
<1>5. s \in Seq(keys) /\ Len(s) = Cardinality(keys)
  BY <1>1, <1>4
<1> QED
  BY <1>4, <1>5 DEF s

-----------------------------------------------------------------------------
(* Staging *)

\* What a transaction shows is what its operations make of its base, and every
\* operation has seen what those before it make of the base.
Faithful(t) ==
    /\ \A k \in Key : Tree!ApplyAll(t.view, t.ops)[k] = TxGet(t, k)
    /\ \A i \in 1..Len(t.ops) :
          t.ops[i].seen = Tree!ApplyAll(t.view, SubSeq(t.ops, 1, i - 1))[t.ops[i].key]

SameBase(u, t) == u.open = t.open /\ u.view = t.view /\ u.baseRevision = t.baseRevision

OpenTxs == {t \in TxRecord : t.open /\ Faithful(t)}

LEMMA TxGetTyped ==
    ASSUME NEW t \in TxRecord, NEW k \in Key
    PROVE  TxGet(t, k) \in Val \union {Missing}
<1>1. t.view[k] \in Val \union {Missing} /\ t.staged[k] \in Val \union {Deleted, Unstaged}
  BY DEF TxRecord, Map
<1> QED
  BY <1>1 DEF TxGet

LEMMA TxStageFaithful ==
    ASSUME NEW t \in OpenTxs, NEW k \in Key, NEW v \in Val \union {Missing}
    PROVE  TxStage(t, k, v) \in OpenTxs /\ SameBase(TxStage(t, k, v), t)
<1> DEFINE u == TxStage(t, k, v)
           op == Op(k, v, TxGet(t, k))
           n == Len(t.ops)
           mark == IF v = Missing THEN Deleted ELSE v
<1>1. t \in TxRecord /\ t.open /\ Faithful(t)
  BY DEF OpenTxs
<1>2. /\ t.view \in Map /\ t.staged \in [Key -> Val \union {Deleted, Unstaged}]
      /\ t.ops \in Seq(OpRecord)
  BY <1>1 DEF TxRecord
<1>3. op \in OpRecord /\ op.key = k /\ op.val = v /\ op.seen = TxGet(t, k)
  BY <1>1, TxGetTyped DEF Op, OpRecord
<1>4. mark \in Val \union {Deleted, Unstaged}
  OBVIOUS
<1>5. /\ u = [t EXCEPT !.staged = [t.staged EXCEPT ![k] = mark], !.ops = Append(t.ops, op)]
      /\ u.view = t.view /\ u.open = t.open /\ u.baseRevision = t.baseRevision
      /\ u.staged = [t.staged EXCEPT ![k] = mark]
      /\ u.ops = Append(t.ops, op)
  BY <1>1 DEF TxStage, TxRecord
<1> HIDE DEF u, op, mark
<1>6. u \in TxRecord
  <2>1. [t.staged EXCEPT ![k] = mark] \in [Key -> Val \union {Deleted, Unstaged}]
    BY <1>2, <1>4
  <2>2. Append(t.ops, op) \in Seq(OpRecord)
    BY <1>2, <1>3, AppendProperties
  <2> QED
    BY <1>1, <1>5, <2>1, <2>2 DEF TxRecord
<1>7. ASSUME NEW j \in Key PROVE Tree!ApplyAll(u.view, u.ops)[j] = TxGet(u, j)
  <2>1. Tree!ApplyAll(u.view, u.ops) = Tree!ApplyOp(Tree!ApplyAll(t.view, t.ops), op)
    BY <1>2, <1>3, <1>5, ApplyAllAppend
  <2>2. Tree!ApplyAll(t.view, t.ops) \in Map
    BY <1>2, ApplyAllTyped
  <2>3. Tree!ApplyAll(u.view, u.ops)[j] =
           IF j = k THEN v ELSE Tree!ApplyAll(t.view, t.ops)[j]
    BY <1>3, <2>1, <2>2, ApplyOpTyped
  <2>4. Tree!ApplyAll(t.view, t.ops)[j] = TxGet(t, j)
    BY <1>1 DEF Faithful
  <2>5. u.staged[j] = IF j = k THEN mark ELSE t.staged[j]
    BY <1>2, <1>5
  <2>6. CASE j = k
    <3>1. mark # Unstaged /\ (mark = Deleted <=> v = Missing) /\ (v # Missing => mark = v)
      BY MarksAreNoValues DEF mark
    <3>2. TxGet(u, j) = v
      BY <1>1, <1>5, <2>5, <2>6, <3>1 DEF TxGet
    <3> QED
      BY <2>3, <2>6, <3>2
  <2>7. CASE j # k
    BY <1>1, <1>5, <2>3, <2>4, <2>5, <2>7 DEF TxGet
  <2> QED
    BY <2>6, <2>7
<1>8. ASSUME NEW i \in 1..Len(u.ops)
      PROVE  u.ops[i].seen = Tree!ApplyAll(u.view, SubSeq(u.ops, 1, i - 1))[u.ops[i].key]
  <2>1. /\ n \in Nat /\ Len(u.ops) = n + 1 /\ u.ops[n + 1] = op
        /\ \A m \in 1..n : u.ops[m] = t.ops[m]
    BY <1>2, <1>3, <1>5, AppendProperties, LenProperties
  <2>2. SubSeq(u.ops, 1, i - 1) = SubSeq(t.ops, 1, i - 1)
    <3>1. \A m \in 1..(i - 1) : u.ops[m] = t.ops[m] /\ t.ops[m] \in OpRecord
      BY <1>2, <2>1, ElementOfSeq
    <3> DEFINE a == SubSeq(u.ops, 1, i - 1)
               b == SubSeq(t.ops, 1, i - 1)
               l == i - 1
    <3>2. l \in Nat /\ l \in Int /\ 1 \in Int
      BY <2>1
    <3> HIDE DEF l
    <3>3. \A m \in 1..l : u.ops[m] \in OpRecord /\ t.ops[m] \in OpRecord
      BY <3>1 DEF l
    <3>4. /\ SubSeq(u.ops, 1, l) \in Seq(OpRecord) /\ Len(SubSeq(u.ops, 1, l)) = l
          /\ \A m \in 1..l : SubSeq(u.ops, 1, l)[m] = u.ops[m]
      BY <3>2, <3>3, SubSeqProperties
    <3>5. /\ SubSeq(t.ops, 1, l) \in Seq(OpRecord) /\ Len(SubSeq(t.ops, 1, l)) = l
          /\ \A m \in 1..l : SubSeq(t.ops, 1, l)[m] = t.ops[m]
      BY <3>2, <3>3, SubSeqProperties
    <3>6. SubSeq(u.ops, 1, l) = SubSeq(t.ops, 1, l)
      BY <3>1, <3>4, <3>5, SeqEqual DEF l
    <3> QED
      BY <3>6 DEF l
  <2>3. CASE i = n + 1
    <3>1. SubSeq(t.ops, 1, i - 1) = t.ops
      <4>1. i - 1 = Len(t.ops)
        BY <2>1, <2>3
      <4>2. SubSeq(t.ops, 1, Len(t.ops)) = t.ops
        BY <1>2, SubSeqFull
      <4> QED
        BY <4>1, <4>2
    <3>2. u.ops[i] = op
      BY <2>1, <2>3
    <3>3. Tree!ApplyAll(t.view, t.ops)[k] = TxGet(t, k)
      BY <1>1 DEF Faithful
    <3> QED
      BY <1>3, <1>5, <2>2, <3>1, <3>2, <3>3, Zenon
  <2>4. CASE i # n + 1
    <3>1. i \in 1..n
      BY <2>1, <2>4
    <3> QED
      BY <1>1, <1>5, <2>1, <2>2, <3>1 DEF Faithful
  <2> QED
    BY <2>3, <2>4
<1>9. Faithful(u)
  BY <1>7, <1>8 DEF Faithful
<1> QED
  BY <1>1, <1>5, <1>6, <1>9 DEF OpenTxs, SameBase, u

LEMMA TxStageAllFaithful ==
    ASSUME NEW t \in OpenTxs, NEW keys \in Seq(Key)
    PROVE  TxStageAll(t, keys) \in OpenTxs /\ SameBase(TxStageAll(t, keys), t)
<1> DEFINE S == {u \in OpenTxs : SameBase(u, t)}
           n == Len(keys)
           step == [i \in 1..n |-> [u \in S |-> TxStage(u, keys[i], Missing)]]
<1>1. n \in Nat /\ \A i \in 1..n : keys[i] \in Key
  BY LenProperties, ElementOfSeq
<1>2. t \in S
  BY DEF SameBase
<1>3. ASSUME NEW i \in 1..n, NEW u \in S PROVE TxStage(u, keys[i], Missing) \in S
  BY <1>1, TxStageFaithful DEF SameBase
<1>4. /\ step \in [1..n -> [S -> S]]
      /\ \A i \in 1..n, u \in S : step[i][u] = TxStage(u, keys[i], Missing)
  <2> HIDE DEF S
  <2> QED
    BY <1>3
<1> HIDE DEF S, step, n
<1>5. Stepwise(S, t, n, step)
  BY <1>1, <1>2, <1>4, StepsExist
<1>6. PICK f \in [0..n -> S] : f[0] = t /\ \A i \in 1..n : f[i] = step[i][f[i - 1]]
  BY <1>5 DEF Stepwise
<1>7. ASSUME NEW i \in 1..n PROVE f[i] = TxStage(f[i - 1], keys[i], Missing)
  <2>1. f[i - 1] \in S
    BY <1>1
  <2> QED
    BY <1>4, <1>6, <2>1
<1> DEFINE Lists(h) == h = [i \in 0..Len(keys) |->
                               IF i = 0 THEN t ELSE TxStage(h[i - 1], keys[i], Missing)]
           g == CHOOSE h : Lists(h)
           Bad == {i \in 0..n : g[i] # f[i]}
<1>8. TxStageAll(t, keys) = g[n]
  BY DEF TxStageAll, n
<1>9. Lists(f)
  <2>1. \A i \in 0..n : f[i] = IF i = 0 THEN t ELSE TxStage(f[i - 1], keys[i], Missing)
    BY <1>1, <1>6, <1>7
  <2> QED
    BY <2>1 DEF n
<1>10. Lists(g)
  BY <1>9
<1>11. \A i \in 0..n : g[i] = IF i = 0 THEN t ELSE TxStage(g[i - 1], keys[i], Missing)
  BY <1>10 DEF n
<1> HIDE DEF g, Lists
<1>12. Bad = {}
  <2> SUFFICES ASSUME Bad # {} PROVE FALSE
    OBVIOUS
  <2>1. Bad \in SUBSET Nat
    BY <1>1
  <2>2. PICK i \in Bad : \A k \in Bad : i <= k
    BY <2>1, LeastOf
  <2>3. i # 0 /\ i \in 1..n
    BY <1>1, <1>6, <1>11, <2>2
  <2>4. i - 1 \in 0..n /\ i - 1 \notin Bad
    BY <1>1, <2>2, <2>3
  <2>5. g[i - 1] = f[i - 1]
    BY <2>4
  <2>6. g[i] = TxStage(g[i - 1], keys[i], Missing)
    BY <1>1, <1>11, <2>3
  <2>7. f[i] = TxStage(f[i - 1], keys[i], Missing)
    BY <1>7, <2>3
  <2> QED
    BY <2>2, <2>5, <2>6, <2>7, Zenon
<1>13. g[n] \in S
  BY <1>1, <1>12
<1> QED
  BY <1>8, <1>13 DEF S

-----------------------------------------------------------------------------
(* What a transaction shows, as a range *)

LEMMA VisibleIsShown ==
    ASSUME NEW t \in TxRecord, t.open, NEW s, NEW e
    PROVE  VisibleKeysBetween(t, s, e) = {k \in Between(s, e) : TxGet(t, k) # Missing}
<1>1. ASSUME NEW k \in Key
      PROVE  /\ t.view[k] \in Val \union {Missing}
             /\ t.staged[k] \in Val \union {Deleted, Unstaged}
  BY DEF TxRecord, Map
<1> QED
  BY <1>1, MarksAreNoValues DEF VisibleKeysBetween, Between, TxGet

LEMMA TxRangeIs ==
    ASSUME NEW t \in TxRecord, t.open, NEW s, NEW e, s < e
    PROVE  TxRange(t, s, e) =
              LET keys == InOrder({k \in Between(s, e) : TxGet(t, k) # Missing})
              IN [i \in 1..Len(keys) |-> [key |-> keys[i], val |-> TxGet(t, keys[i])]]
<1>1. {k \in VisibleKeysBetween(t, s, e) : TxGet(t, k) # Missing}
         = {k \in Between(s, e) : TxGet(t, k) # Missing}
  BY VisibleIsShown
<1> QED
  BY <1>1 DEF TxRange

EntryRecord == [key : Key, val : Val \union {Missing}]

LEMMA TxRangeTyped ==
    ASSUME NEW t \in TxRecord, NEW s, NEW e
    PROVE  TxRange(t, s, e) \in Seq(EntryRecord)
<1> DEFINE shown == {k \in VisibleKeysBetween(t, s, e) : TxGet(t, k) # Missing}
           n == Len(InOrder(shown))
<1>1. shown \in SUBSET Key
  BY DEF VisibleKeysBetween, Between
<1> HIDE DEF shown
<1>2. n \in Nat /\ \A i \in 1..n : InOrder(shown)[i] \in Key
  BY <1>1, InOrderTyped, LenProperties, ElementOfSeq
<1>3. ASSUME NEW i \in 1..n
      PROVE  [key |-> InOrder(shown)[i], val |-> TxGet(t, InOrder(shown)[i])] \in EntryRecord
  BY <1>2, TxGetTyped DEF EntryRecord
<1> DEFINE entries == [i \in 1..n |-> [key |-> InOrder(shown)[i],
                                       val |-> TxGet(t, InOrder(shown)[i])]]
<1>4. entries \in [1..n -> EntryRecord]
  BY <1>3
<1> HIDE DEF entries
<1>5. entries \in Seq(EntryRecord)
  BY <1>2, <1>4
<1>6. <<>> \in Seq(EntryRecord)
  BY EmptySeq
<1> QED
  BY <1>5, <1>6 DEF TxRange, entries, shown

-----------------------------------------------------------------------------
(* The invariant *)

BatchRecord == [open : BOOLEAN, ops : Seq(OpRecord)]
HandleRecord == [arena : BOOLEAN, readOnly : BOOLEAN, closed : BOOLEAN]

TypeInv ==
    /\ map \in Map
    /\ revision \in Nat
    /\ durable \in [map : Map, revision : Nat]
    /\ handle \in HandleRecord
    /\ tx \in [Tx -> TxRecord]
    /\ batch \in [Batch -> BatchRecord]
    /\ cursor.entries \in Seq(EntryRecord)
    /\ cursor.index \in 0..Len(cursor.entries)

\* No revision is ahead of the published one.
Behind ==
    /\ \A x \in Tx : tx[x].baseRevision <= revision
    /\ durable.revision <= revision

TxsFaithful == \A x \in Tx : tx[x].open => Faithful(tx[x])

Inv ==
    /\ TypeInv
    /\ Behind
    /\ TxsFaithful
    /\ RevisionNamesContents
    /\ OldValuesSeen
    /\ CommitSyncDurable

LEMMA ClosedTxTyped ==
    /\ ClosedTx \in TxRecord /\ ~ClosedTx.open /\ ClosedTx.baseRevision = 0
    /\ ClosedBatch \in BatchRecord
    /\ ClosedCursor.entries \in Seq(EntryRecord)
    /\ ClosedCursor.index \in 0..Len(ClosedCursor.entries)
    /\ Empty \in Map
<1>1. Empty \in Map
  BY DEF Empty, Map
<1>2. <<>> \in Seq(OpRecord) /\ <<>> \in Seq(EntryRecord) /\ Len(<<>>) = 0
  BY EmptySeq
<1>3. [k \in Key |-> Unstaged] \in [Key -> Val \union {Deleted, Unstaged}]
  OBVIOUS
<1> QED
  BY <1>1, <1>2, <1>3 DEF ClosedTx, ClosedBatch, ClosedCursor, TxRecord, BatchRecord

LEMMA InitInv == Init => Inv
<1> SUFFICES ASSUME Init PROVE Inv
  OBVIOUS
<1>1. TypeInv
  <2>1. map \in Map /\ revision = 0 /\ durable = [map |-> map, revision |-> 0]
    BY StartsTyped DEF Init, Durable, Map
  <2>2. handle \in HandleRecord
    BY StartsTyped DEF Init, HandleRecord
  <2> QED
    BY <2>1, <2>2, ClosedTxTyped DEF Init, TypeInv
<1>2. Behind /\ TxsFaithful
  BY ClosedTxTyped DEF Init, Behind, TxsFaithful, Durable
<1>3. RevisionNamesContents
  BY ClosedTxTyped DEF Init, RevisionNamesContents, Durable
<1>4. OldValuesSeen /\ CommitSyncDurable
  BY DEF Init, OldValuesSeen, CommitSyncDurable, NoResult
<1> QED
  BY <1>1, <1>2, <1>3, <1>4 DEF Inv

-----------------------------------------------------------------------------
(* Steps that leave the tree alone *)

GoodTx(t) ==
    /\ t \in TxRecord
    /\ t.baseRevision <= revision
    /\ t.open => Faithful(t)
    /\ t.open /\ ~handle.closed /\ t.baseRevision = revision => t.view = map

LEMMA TxsGood == ASSUME Inv PROVE \A x \in Tx : GoodTx(tx[x])
BY DEF Inv, TypeInv, Behind, TxsFaithful, RevisionNamesContents, GoodTx

LEMMA ClosedIsGood == ASSUME Inv PROVE GoodTx(ClosedTx)
BY ClosedTxTyped DEF Inv, TypeInv, GoodTx

\* Whatever a handle does without touching the tree, Sync and Close included.
LEMMA QuietInv ==
    ASSUME Inv, UNCHANGED tree, durable' \in {durable, Durable},
           UNCHANGED handle \/ (handle' \in HandleRecord /\ handle'.closed),
           result' = NoResult,
           tx' \in [Tx -> TxRecord], \A x \in Tx : GoodTx(tx'[x]),
           batch' \in [Batch -> BatchRecord],
           cursor'.entries \in Seq(EntryRecord), cursor'.index \in 0..Len(cursor'.entries)
    PROVE  Inv'
<1>1. TypeInv'
  <2>1. /\ map' \in Map /\ revision' \in Nat /\ Durable \in [map : Map, revision : Nat]
        /\ durable \in [map : Map, revision : Nat] /\ handle \in HandleRecord
    BY DEF Inv, TypeInv, tree, Durable
  <2> QED
    BY <2>1 DEF TypeInv
<1>2. Behind'
  BY DEF Inv, TypeInv, Behind, GoodTx, tree, Durable
<1>3. TxsFaithful'
  BY DEF TxsFaithful, GoodTx
<1>4. RevisionNamesContents'
  BY DEF Inv, RevisionNamesContents, GoodTx, tree, Durable
<1>5. OldValuesSeen' /\ CommitSyncDurable'
  BY DEF OldValuesSeen, CommitSyncDurable, NoResult
<1> QED
  BY <1>1, <1>2, <1>3, <1>4, <1>5 DEF Inv

\* The same for one transaction.
LEMMA QuietTx ==
    ASSUME Inv, NEW x \in Tx, NEW t, GoodTx(t), tx' = [tx EXCEPT ![x] = t],
           UNCHANGED <<tree, durable, handle, batch>>, result' = NoResult,
           cursor'.entries \in Seq(EntryRecord), cursor'.index \in 0..Len(cursor'.entries)
    PROVE  Inv'
<1>1. t \in TxRecord /\ tx \in [Tx -> TxRecord] /\ batch' \in [Batch -> BatchRecord]
  BY DEF GoodTx, Inv, TypeInv
<1>2. tx' \in [Tx -> TxRecord] /\ \A y \in Tx : tx'[y] = IF y = x THEN t ELSE tx[y]
  BY <1>1
<1>3. \A y \in Tx : GoodTx(tx'[y])
  BY <1>2, TxsGood, Zenon
<1> QED
  BY <1>1, <1>2, <1>3, QuietInv

LEMMA CursorTyped ==
    ASSUME Inv
    PROVE  cursor.entries \in Seq(EntryRecord) /\ cursor.index \in 0..Len(cursor.entries)
BY DEF Inv, TypeInv

\* A staged operation keeps a good transaction good.
LEMMA StagedIsGood ==
    ASSUME NEW t, GoodTx(t), t.open, NEW u \in OpenTxs, SameBase(u, t)
    PROVE  GoodTx(u)
BY DEF GoodTx, OpenTxs, SameBase

LEMMA BeginInv == ASSUME Inv, NEW x \in Tx, BeginReadWrite(x) PROVE Inv'
<1> DEFINE v == IF handle.closed THEN Empty ELSE map
           t == [ClosedTx EXCEPT !.open = TRUE, !.baseRevision = revision, !.view = v]
<1>1. /\ tx' = [tx EXCEPT ![x] = t] /\ result' = NoResult
      /\ UNCHANGED <<tree, durable, handle, batch, cursor>>
  BY DEF BeginReadWrite
<1>2. v \in Map /\ revision \in Nat
  BY ClosedTxTyped DEF Inv, TypeInv
<1>3. /\ t \in TxRecord /\ t.open /\ t.baseRevision = revision /\ t.view = v
      /\ t.ops = <<>> /\ t.staged = [k \in Key |-> Unstaged]
  BY <1>2, ClosedTxTyped DEF ClosedTx, TxRecord
<1>4. ~handle.closed => v = map
  OBVIOUS
<1> HIDE DEF t, v
<1>5. Faithful(t)
  <2>1. Tree!ApplyAll(t.view, t.ops) = v
    <3>1. Tree!ApplyAll(v, <<>>) = v
      BY <1>2, ApplyAllNone
    <3> QED
      BY <1>3, <3>1, Zenon
  <2>2. \A k \in Key : TxGet(t, k) = v[k]
    BY <1>3, MarksAreNoValues DEF TxGet
  <2>3. 1..Len(t.ops) = {}
    BY <1>3
  <2> QED
    BY <2>1, <2>2, <2>3 DEF Faithful
<1>6. GoodTx(t)
  BY <1>2, <1>3, <1>4, <1>5 DEF GoodTx
<1> QED
  BY <1>1, <1>6, CursorTyped, QuietTx

LEMMA TxMutateInv ==
    ASSUME Inv, NEW x \in Tx, NEW k \in Key, NEW v \in Val \union {Missing}, TxMutate(x, k, v)
    PROVE  Inv'
<1> DEFINE t == TxStage(tx[x], k, v)
<1>1. /\ tx' = [tx EXCEPT ![x] = t] /\ result' = NoResult /\ tx[x].open
      /\ UNCHANGED <<tree, durable, handle, batch, cursor>>
  BY DEF TxMutate
<1>2. tx[x] \in OpenTxs /\ GoodTx(tx[x])
  BY <1>1, TxsGood DEF GoodTx, OpenTxs
<1>3. GoodTx(t)
  BY <1>1, <1>2, TxStageFaithful, StagedIsGood
<1> QED
  BY <1>1, <1>3, CursorTyped, QuietTx

LEMMA TxDeleteRangeInv ==
    ASSUME Inv, NEW x \in Tx, NEW s, NEW e, TxDeleteRange(x, s, e) PROVE Inv'
<1> DEFINE keys == InOrder(VisibleKeysBetween(tx[x], s, e))
           t == TxStageAll(tx[x], keys)
<1>1. /\ tx' = [tx EXCEPT ![x] = t] /\ result' = NoResult /\ tx[x].open
      /\ UNCHANGED <<tree, durable, handle, batch, cursor>>
  BY DEF TxDeleteRange
<1>2. tx[x] \in OpenTxs /\ GoodTx(tx[x])
  BY <1>1, TxsGood DEF GoodTx, OpenTxs
<1>3. keys \in Seq(Key)
  <2>1. VisibleKeysBetween(tx[x], s, e) \in SUBSET Key
    BY DEF VisibleKeysBetween, Between
  <2> QED
    BY <2>1, InOrderTyped, SeqMonotonic
<1> HIDE DEF keys
<1>4. GoodTx(t)
  BY <1>1, <1>2, <1>3, TxStageAllFaithful, StagedIsGood
<1> QED
  BY <1>1, <1>4, CursorTyped, QuietTx

LEMMA CloseTxTyped ==
    ASSUME Inv, NEW x \in Tx, CloseTx(x)
    PROVE  /\ tx' = [tx EXCEPT ![x] = ClosedTx]
           /\ cursor'.entries \in Seq(EntryRecord) /\ cursor'.index \in 0..Len(cursor'.entries)
BY ClosedTxTyped, CursorTyped DEF CloseTx

LEMMA TxRollbackInv == ASSUME Inv, NEW x \in Tx, TxRollback(x) PROVE Inv'
<1>1. CloseTx(x) /\ result' = NoResult /\ UNCHANGED <<tree, durable, handle, batch>>
  BY DEF TxRollback
<1> QED
  BY <1>1, CloseTxTyped, ClosedIsGood, QuietTx

\* Steps of cursors and batches.
LEMMA QuietRest ==
    ASSUME Inv, UNCHANGED <<tree, durable, handle, tx>>, result' = NoResult,
           batch' \in [Batch -> BatchRecord],
           cursor'.entries \in Seq(EntryRecord), cursor'.index \in 0..Len(cursor'.entries)
    PROVE  Inv'
<1>1. tx' \in [Tx -> TxRecord] /\ \A x \in Tx : GoodTx(tx'[x])
  <2>1. tx' = tx
    OBVIOUS
  <2>2. tx \in [Tx -> TxRecord]
    BY DEF Inv, TypeInv
  <2> QED
    BY <2>1, <2>2, TxsGood, Zenon
<1> QED
  BY <1>1, QuietInv

LEMMA CursorBetweenInv ==
    ASSUME Inv, NEW x \in Tx, NEW s, NEW e, CursorBetween(x, s, e) PROVE Inv'
<1> DEFINE entries == TxRange(tx[x], s, e)
<1>1. /\ cursor' = [of |-> {x}, entries |-> entries,
                    index |-> IF entries = <<>> THEN 0 ELSE 1]
      /\ result' = NoResult /\ UNCHANGED <<tree, durable, handle, tx, batch>>
  BY DEF CursorBetween
<1>2. entries \in Seq(EntryRecord)
  BY TxsGood, TxRangeTyped DEF GoodTx
<1> HIDE DEF entries
<1>3. Len(entries) \in Nat /\ (entries # <<>> => Len(entries) >= 1)
  BY <1>2, LenProperties, EmptySeq
<1>4. cursor'.entries \in Seq(EntryRecord) /\ cursor'.index \in 0..Len(cursor'.entries)
  BY <1>1, <1>2, <1>3
<1>5. batch' \in [Batch -> BatchRecord]
  BY <1>1 DEF Inv, TypeInv
<1> QED
  BY <1>1, <1>4, <1>5, QuietRest

LEMMA CursorMoveInv == ASSUME Inv, NEW index, CursorMove(index) PROVE Inv'
<1>1. /\ cursor' = [cursor EXCEPT !.index = IF index \in 1..Len(cursor.entries)
                                            THEN index ELSE 0]
      /\ result' = NoResult /\ UNCHANGED <<tree, durable, handle, tx, batch>>
  BY DEF CursorMove
<1>2. cursor'.entries \in Seq(EntryRecord) /\ cursor'.index \in 0..Len(cursor'.entries)
  BY <1>1, CursorTyped
<1>3. batch' \in [Batch -> BatchRecord]
  BY <1>1 DEF Inv, TypeInv
<1> QED
  BY <1>1, <1>2, <1>3, QuietRest

LEMMA CursorStepInv == ASSUME Inv, CursorNextStep PROVE Inv'
<1>1. CASE \E index : CursorMove(index)
  BY <1>1, CursorMoveInv
<1>2. CASE CursorClose
  <2>1. /\ cursor' = ClosedCursor
        /\ result' = NoResult /\ UNCHANGED <<tree, durable, handle, tx, batch>>
    BY <1>2 DEF CursorClose
  <2>2. cursor'.entries \in Seq(EntryRecord) /\ cursor'.index \in 0..Len(cursor'.entries)
    BY <2>1, ClosedTxTyped
  <2>3. batch' \in [Batch -> BatchRecord]
    BY <2>1 DEF Inv, TypeInv
  <2> QED
    BY <2>1, <2>2, <2>3, QuietRest
<1>3. CursorFirst \/ CursorLast \/ CursorNext \/ CursorPrev => \E index : CursorMove(index)
  BY DEF CursorFirst, CursorLast, CursorNext, CursorPrev
<1>4. (\E k \in Bound : CursorSeek(k)) => \E index : CursorMove(index)
  BY DEF CursorSeek
<1> QED
  BY <1>1, <1>2, <1>3, <1>4 DEF CursorNextStep

LEMMA CursorDeleteInv == ASSUME Inv, NEW x \in Tx, CursorDelete(x) PROVE Inv'
<1> DEFINE k == cursor.entries[cursor.index].key
           t == TxStage(tx[x], k, Missing)
<1>1. /\ tx' = [tx EXCEPT ![x] = t] /\ result' = NoResult /\ TxGet(tx[x], k) # Missing
      /\ UNCHANGED <<tree, durable, handle, batch, cursor>> /\ cursor.index # 0
  BY DEF CursorDelete
<1>2. k \in Key
  <2>1. cursor.index \in 1..Len(cursor.entries)
    BY <1>1, CursorTyped, LenProperties
  <2>2. cursor.entries[cursor.index] \in EntryRecord
    BY <2>1, CursorTyped, ElementOfSeq
  <2> QED
    BY <2>2 DEF EntryRecord
<1> HIDE DEF k
<1>3. tx[x].open
  BY <1>1, Zenon DEF TxGet
<1>4. tx[x] \in OpenTxs /\ GoodTx(tx[x])
  BY <1>3, TxsGood DEF GoodTx, OpenTxs
<1>5. GoodTx(t)
  BY <1>2, <1>3, <1>4, TxStageFaithful, StagedIsGood
<1> QED
  BY <1>1, <1>5, CursorTyped, QuietTx

LEMMA OpenBatchInv == ASSUME Inv, NEW b \in Batch, OpenBatch(b) PROVE Inv'
<1>1. [open |-> TRUE, ops |-> <<>>] \in BatchRecord
  BY EmptySeq DEF BatchRecord
<1>2. batch' \in [Batch -> BatchRecord]
  BY <1>1 DEF OpenBatch, Inv, TypeInv
<1> QED
  BY <1>2, CursorTyped, QuietRest DEF OpenBatch

LEMMA BatchMutateInv ==
    ASSUME Inv, NEW b \in Batch, NEW k \in Key, NEW v \in Val \union {Missing},
           BatchMutate(b, k, v)
    PROVE  Inv'
<1>1. Op(k, v, Missing) \in OpRecord
  BY DEF Op, OpRecord
<1>2. batch \in [Batch -> BatchRecord] /\ batch[b].ops \in Seq(OpRecord)
  BY DEF Inv, TypeInv, BatchRecord
<1>3. Append(batch[b].ops, Op(k, v, Missing)) \in Seq(OpRecord)
  BY <1>1, <1>2, AppendProperties
<1>4. batch' \in [Batch -> BatchRecord]
  BY <1>2, <1>3 DEF BatchMutate, BatchRecord
<1> QED
  BY <1>4, CursorTyped, QuietRest DEF BatchMutate

LEMMA BatchDeleteRangeInv ==
    ASSUME Inv, NEW b \in Batch, NEW s, NEW e, BatchDeleteRange(b, s, e) PROVE Inv'
<1> DEFINE keys == InOrder(IF handle.closed THEN {}
                           ELSE {k \in Between(s, e) : map[k] # Missing})
           n == Len(keys)
           deletes == [i \in 1..n |-> Op(keys[i], Missing, Missing)]
<1>1. /\ batch' = [batch EXCEPT ![b].ops = @ \o deletes] /\ result' = NoResult
      /\ UNCHANGED <<tree, durable, handle, tx, cursor>>
  BY DEF BatchDeleteRange
<1>2. n \in Nat /\ \A i \in 1..n : keys[i] \in Key
  <2>1. (IF handle.closed THEN {} ELSE {k \in Between(s, e) : map[k] # Missing})
           \in SUBSET Key
    BY DEF Between
  <2>2. keys \in Seq(Key)
    BY <2>1, InOrderTyped, SeqMonotonic
  <2> HIDE DEF keys
  <2> QED
    BY <2>2, LenProperties, ElementOfSeq
<1> HIDE DEF keys
<1>3. deletes \in Seq(OpRecord)
  <2>1. ASSUME NEW i \in 1..n PROVE Op(keys[i], Missing, Missing) \in OpRecord
    BY <1>2 DEF Op, OpRecord
  <2>2. deletes \in [1..n -> OpRecord]
    BY <2>1
  <2> HIDE DEF deletes
  <2> QED
    BY <1>2, <2>2
<1> HIDE DEF deletes
<1>4. batch \in [Batch -> BatchRecord] /\ batch[b].ops \in Seq(OpRecord)
  BY DEF Inv, TypeInv, BatchRecord
<1>5. batch[b].ops \o deletes \in Seq(OpRecord)
  BY <1>3, <1>4, ConcatProperties
<1>6. batch' \in [Batch -> BatchRecord]
  BY <1>1, <1>4, <1>5 DEF BatchRecord
<1> QED
  BY <1>1, <1>6, CursorTyped, QuietRest

LEMMA BatchRollbackInv == ASSUME Inv, NEW b \in Batch, BatchRollback(b) PROVE Inv'
<1>1. batch' \in [Batch -> BatchRecord]
  BY ClosedTxTyped DEF BatchRollback, Inv, TypeInv
<1> QED
  BY <1>1, CursorTyped, QuietRest DEF BatchRollback

LEMMA TreeSyncInv == ASSUME Inv, TreeSync PROVE Inv'
<1>1. /\ durable' = Durable /\ result' = NoResult
      /\ UNCHANGED <<tree, handle, tx, batch, cursor>>
  BY DEF TreeSync
<1>2. /\ tx' \in [Tx -> TxRecord] /\ batch' \in [Batch -> BatchRecord]
      /\ \A x \in Tx : GoodTx(tx'[x])
  <2>1. tx' = tx /\ batch' = batch
    BY <1>1
  <2>2. tx \in [Tx -> TxRecord] /\ batch \in [Batch -> BatchRecord]
    BY DEF Inv, TypeInv
  <2> QED
    BY <2>1, <2>2, TxsGood, Zenon
<1> QED
  BY <1>1, <1>2, CursorTyped, QuietInv

LEMMA TreeCloseInv == ASSUME Inv, TreeClose PROVE Inv'
<1>1. /\ durable' \in {durable, Durable} /\ result' = NoResult
      /\ handle' = [handle EXCEPT !.closed = TRUE]
      /\ UNCHANGED <<tree, tx, batch, cursor>>
  BY DEF TreeClose
<1>2. handle' \in HandleRecord /\ handle'.closed
  BY <1>1 DEF Inv, TypeInv, HandleRecord
<1>3. /\ tx' \in [Tx -> TxRecord] /\ batch' \in [Batch -> BatchRecord]
      /\ \A x \in Tx : GoodTx(tx'[x])
  <2>1. tx' = tx /\ batch' = batch
    BY <1>1
  <2>2. tx \in [Tx -> TxRecord] /\ batch \in [Batch -> BatchRecord]
    BY DEF Inv, TypeInv
  <2> QED
    BY <2>1, <2>2, TxsGood, Zenon
<1> QED
  BY <1>1, <1>2, <1>3, CursorTyped, QuietInv

-----------------------------------------------------------------------------
(* Committing *)

\* What replaying the operations does to the tree.
LEMMA ReplayIs ==
    ASSUME map \in Map, NEW ops \in Seq(OpRecord)
    PROVE  /\ Replay(ops).map \in Map
           /\ Replay(ops).map = Tree!ApplyAll(map, ops)
           /\ Replay(ops).changed \in BOOLEAN
           /\ ~Replay(ops).changed => Replay(ops).map = map
           /\ Len(Replay(ops).operations) = Len(ops)
           /\ \A i \in 1..Len(ops) :
                 /\ Replay(ops).operations[i].old =
                       Tree!ApplyAll(map, SubSeq(ops, 1, i - 1))[ops[i].key]
                 /\ Replay(ops).operations[i].seen = ops[i].seen
<1> DEFINE changed == \E i \in 1..Len(ops) :
                         Tree!Changes(Tree!ApplyAll(map, SubSeq(ops, 1, i - 1)), ops[i])
           operations == [i \in 1..Len(ops) |->
               [old |-> Tree!ApplyAll(map, SubSeq(ops, 1, i - 1))[ops[i].key],
                seen |-> ops[i].seen]]
<1>1. Replay(ops) = [map |-> Tree!ApplyAll(map, ops), operations |-> operations,
                     changed |-> changed]
  BY DEF Replay
<1>2. Len(ops) \in Nat
  BY LenProperties
<1>3. Len(operations) = Len(ops)
  BY <1>2
<1>4. \A i \in 1..Len(ops) :
         /\ operations[i].old = Tree!ApplyAll(map, SubSeq(ops, 1, i - 1))[ops[i].key]
         /\ operations[i].seen = ops[i].seen
  OBVIOUS
<1>5. ~changed => Tree!ApplyAll(map, ops) = map
  BY ApplyAllUnchanged
<1>6. Tree!ApplyAll(map, ops) \in Map
  BY ApplyAllTyped
<1>7. changed \in BOOLEAN
  OBVIOUS
<1> HIDE DEF changed, operations
<1>8. /\ Replay(ops).map = Tree!ApplyAll(map, ops) /\ Replay(ops).operations = operations
      /\ Replay(ops).changed = changed
  BY <1>1
<1> QED
  BY <1>3, <1>4, <1>5, <1>6, <1>7, <1>8

\* The operations of a commit have seen the old values that replaying them shows.
SeenAsReplayed(ops) ==
    \A i \in 1..Len(ops) :
        ops[i].seen = Tree!ApplyAll(map, SubSeq(ops, 1, i - 1))[ops[i].key]

\* The handles after a commit: the committed one is closed.
HandlesKept ==
    /\ UNCHANGED handle
    /\ tx' \in [Tx -> TxRecord]
    /\ \A x \in Tx : tx'[x] = tx[x] \/ tx'[x] = ClosedTx
    /\ batch' \in [Batch -> BatchRecord]
    /\ cursor'.entries \in Seq(EntryRecord) /\ cursor'.index \in 0..Len(cursor'.entries)

LEMMA AppliedInv ==
    ASSUME Inv, HandlesKept, NEW who, NEW ops \in Seq(OpRecord), NEW sync \in BOOLEAN,
           who \in Tx => SeenAsReplayed(ops), Applied(who, ops, sync)
    PROVE  Inv'
<1> DEFINE replay == Replay(ops)
<1>1. PICK err :
             /\ map' = replay.map
             /\ revision' = revision + (IF replay.changed THEN 1 ELSE 0)
             /\ IF sync THEN SyncAfterCommit(replay.changed, err) ELSE UNCHANGED durable
             /\ result' = Result(who, err, replay.changed, sync, replay.operations)
  BY Zenon DEF Applied, Published
<1>2. /\ map \in Map /\ revision \in Nat /\ durable \in [map : Map, revision : Nat]
      /\ durable.revision <= revision
  BY DEF Inv, TypeInv, Behind
<1>3. /\ replay.map \in Map /\ replay.changed \in BOOLEAN
      /\ ~replay.changed => replay.map = map
      /\ Len(replay.operations) = Len(ops)
      /\ \A i \in 1..Len(ops) :
            /\ replay.operations[i].old =
                  Tree!ApplyAll(map, SubSeq(ops, 1, i - 1))[ops[i].key]
            /\ replay.operations[i].seen = ops[i].seen
  BY <1>2, ReplayIs
<1> HIDE DEF replay
<1>4. revision' = revision + 1 \/ (revision' = revision /\ map' = map)
  <2>1. CASE replay.changed
    BY <1>1, <2>1, Zenon
  <2>2. CASE ~replay.changed
    <3>1. revision' = revision + 0 /\ map' = map
      BY <1>1, <1>3, <2>2, Zenon
    <3> QED
      BY <1>2, <3>1
  <2> QED
    BY <2>1, <2>2
<1>5. durable' = durable \/ durable' = Durable'
  BY <1>1, Zenon DEF SyncAfterCommit
<1>6. map' \in Map /\ revision' \in Nat /\ revision <= revision'
  <2>1. map' \in Map
    BY <1>1, <1>3, Zenon
  <2> QED
    BY <1>2, <1>4, <2>1
<1>7. /\ Durable' \in [map : Map, revision : Nat] /\ Durable'.revision = revision'
      /\ Durable'.map = map'
  BY <1>6 DEF Durable
<1>8. TypeInv'
  BY <1>2, <1>5, <1>6, <1>7 DEF TypeInv, HandlesKept, Inv
<1>9. \A x \in Tx : GoodTx(tx'[x]) /\ (tx'[x].open => tx'[x] = tx[x])
  BY TxsGood, ClosedIsGood, ClosedTxTyped, Zenon DEF HandlesKept
<1>10. Behind'
  <2>1. \A x \in Tx : tx'[x].baseRevision <= revision' /\ tx'[x].baseRevision \in Nat
    BY <1>2, <1>6, <1>9 DEF GoodTx, TxRecord
  <2>2. durable'.revision <= revision'
    BY <1>2, <1>5, <1>6, <1>7
  <2> QED
    BY <2>1, <2>2 DEF Behind
<1>11. TxsFaithful'
  BY <1>9 DEF TxsFaithful, GoodTx
<1>12. RevisionNamesContents'
  <2>1. ASSUME NEW x \in Tx, tx'[x].open, ~handle'.closed, tx'[x].baseRevision = revision'
        PROVE  tx'[x].view = map'
    <3>1. GoodTx(tx'[x]) /\ ~handle.closed
      BY <1>9, <2>1 DEF HandlesKept
    <3>2. tx'[x].baseRevision <= revision
      BY <3>1 DEF GoodTx
    <3>3. revision' = revision /\ map' = map
      BY <1>2, <1>4, <2>1, <3>2
    <3> QED
      BY <2>1, <3>1, <3>3 DEF GoodTx
  <2>2. durable'.revision = revision' => durable'.map = map'
    <3>1. CASE durable' = Durable'
      BY <1>7, <3>1
    <3>2. CASE durable' = durable
      BY <1>2, <1>4, <3>2 DEF Inv, RevisionNamesContents
    <3> QED
      BY <1>5, <3>1, <3>2
  <2> QED
    BY <2>1, <2>2 DEF RevisionNamesContents
<1>13. /\ result'.of = {who} /\ result'.operations = replay.operations
       /\ result'.sync = sync /\ result'.err = err /\ result'.changed = replay.changed
  BY <1>1 DEF Result
<1>14. OldValuesSeen'
  <2>1. ASSUME NEW x \in Tx, result'.of = {x}, NEW i \in 1..Len(replay.operations)
        PROVE  replay.operations[i].old = replay.operations[i].seen
    <3>1. who = x
      BY <1>13, <2>1
    <3>2. SeenAsReplayed(ops) /\ i \in 1..Len(ops)
      BY <1>3, <3>1
    <3> QED
      BY <1>3, <3>2 DEF SeenAsReplayed
  <2> QED
    BY <1>13, <2>1 DEF OldValuesSeen
<1>15. CommitSyncDurable'
  <2>1. sync /\ err = "" /\ replay.changed => durable' = Durable'
    BY <1>1, Zenon DEF SyncAfterCommit
  <2> QED
    BY <1>13, <2>1, Zenon DEF CommitSyncDurable
<1> QED
  BY <1>8, <1>10, <1>11, <1>12, <1>14, <1>15 DEF Inv

LEMMA NoIndices == 1..Len(<<>>) = {}
OBVIOUS

\* A commit that is refused or panics reports no operation and leaves the tree.
LEMMA RefusedInv ==
    ASSUME Inv, HandlesKept, NEW who, NEW err, NEW sync,
           result' = Result(who, err, FALSE, sync, <<>>), UNCHANGED <<tree, durable>>
    PROVE  Inv'
<1>1. TypeInv'
  BY DEF Inv, TypeInv, HandlesKept, tree
<1>2. \A x \in Tx : GoodTx(tx'[x]) /\ (tx'[x].open => tx'[x] = tx[x])
  BY TxsGood, ClosedIsGood, ClosedTxTyped, Zenon DEF HandlesKept
<1>3. Behind'
  BY <1>2 DEF Inv, Behind, GoodTx, tree
<1>4. TxsFaithful'
  BY <1>2 DEF TxsFaithful, GoodTx
<1>5. RevisionNamesContents'
  BY <1>2 DEF Inv, RevisionNamesContents, GoodTx, HandlesKept, tree
<1>6. result'.operations = <<>> /\ result'.changed = FALSE
  BY Zenon DEF Result
<1>7. OldValuesSeen' /\ CommitSyncDurable'
  <2>1. 1..Len(result'.operations) = {}
    BY <1>6, NoIndices, Zenon
  <2>2. OldValuesSeen'
    BY <2>1 DEF OldValuesSeen
  <2>3. ~result'.changed
    BY <1>6, Zenon
  <2>4. CommitSyncDurable'
    BY <2>3, Zenon DEF CommitSyncDurable
  <2> QED
    BY <2>2, <2>4
<1> QED
  BY <1>1, <1>3, <1>4, <1>5, <1>7 DEF Inv

LEMMA CommitOpsInv ==
    ASSUME Inv, HandlesKept, NEW who, NEW ops \in Seq(OpRecord), NEW sync \in BOOLEAN,
           Refusal = "" /\ who \in Tx => SeenAsReplayed(ops), CommitOps(who, ops, sync)
    PROVE  Inv'
<1>1. CASE Refusal # "" /\ Refused(who, Refusal, sync)
  BY <1>1, RefusedInv DEF Refused
<1>2. CASE Panicked(who, sync)
  BY <1>2, RefusedInv DEF Panicked
<1>3. CASE Refusal = "" /\ Applied(who, ops, sync)
  BY <1>3, AppliedInv
<1> QED
  BY <1>1, <1>2, <1>3, Zenon DEF CommitOps

\* The operations of an open transaction whose revision is current have seen
\* what replaying them on the tree shows, and come to what it shows.
LEMMA CurrentReplays ==
    ASSUME Inv, NEW x \in Tx, tx[x].open, ~handle.closed, tx[x].baseRevision = revision
    PROVE  /\ tx[x].view = map
           /\ SeenAsReplayed(tx[x].ops)
           /\ Tree!ApplyAll(map, tx[x].ops) = [k \in Key |-> TxGet(tx[x], k)]
<1>1. tx[x].view = map /\ Faithful(tx[x]) /\ tx[x] \in TxRecord
  BY TxsGood DEF GoodTx
<1>2. SeenAsReplayed(tx[x].ops)
  BY <1>1 DEF Faithful, SeenAsReplayed
<1>3. Tree!ApplyAll(map, tx[x].ops) \in Map
  BY <1>1, ApplyAllTyped DEF TxRecord
<1>4. \A k \in Key : Tree!ApplyAll(map, tx[x].ops)[k] = TxGet(tx[x], k)
  BY <1>1 DEF Faithful
<1>5. Tree!ApplyAll(map, tx[x].ops) = [k \in Key |-> TxGet(tx[x], k)]
  BY <1>3, <1>4 DEF Map
<1> QED
  BY <1>1, <1>2, <1>5

LEMMA NotRefused == Refusal = "" => ~handle.closed
BY Zenon DEF Refusal

LEMMA TxCommitInv == ASSUME Inv, NEW x \in Tx, NEW sync \in BOOLEAN, TxCommit(x, sync) PROVE Inv'
<1>1. HandlesKept
  <2>1. UNCHANGED <<handle, batch>> /\ CloseTx(x)
    BY DEF TxCommit
  <2>2. tx \in [Tx -> TxRecord] /\ batch \in [Batch -> BatchRecord]
    BY DEF Inv, TypeInv
  <2>3. /\ tx' \in [Tx -> TxRecord]
        /\ \A y \in Tx : tx'[y] = IF y = x THEN ClosedTx ELSE tx[y]
    BY <2>1, <2>2, CloseTxTyped, ClosedTxTyped
  <2> QED
    BY <2>1, <2>2, <2>3, CloseTxTyped DEF HandlesKept
<1>2. tx[x].ops \in Seq(OpRecord)
  BY TxsGood DEF GoodTx, TxRecord
<1>3. CASE Refused(x, "conflict", sync)
  BY <1>1, <1>3, RefusedInv DEF Refused
<1>4. CASE tx[x].baseRevision = revision /\ CommitOps(x, tx[x].ops, sync)
  <2>1. Refusal = "" => SeenAsReplayed(tx[x].ops)
    BY <1>4, NotRefused, CurrentReplays DEF TxCommit
  <2> QED
    BY <1>1, <1>2, <1>4, <2>1, CommitOpsInv
<1> QED
  BY <1>3, <1>4, Zenon DEF TxCommit

LEMMA BatchCommitInv ==
    ASSUME Inv, NEW b \in Batch, NEW sync \in BOOLEAN, BatchCommit(b, sync) PROVE Inv'
<1>1. tx \in [Tx -> TxRecord] /\ batch \in [Batch -> BatchRecord] /\ b \notin Tx
  BY HandlesDiffer DEF Inv, TypeInv
<1>2. HandlesKept
  BY <1>1, ClosedTxTyped, CursorTyped DEF BatchCommit, HandlesKept
<1>3. batch[b].ops \in Seq(OpRecord)
  BY <1>1 DEF BatchRecord
<1> QED
  BY <1>1, <1>2, <1>3, CommitOpsInv DEF BatchCommit

LEMMA TreeMutateInv ==
    ASSUME Inv, NEW k \in Key, NEW v \in Val \union {Missing}, TreeMutate(k, v) PROVE Inv'
<1> DEFINE op == [key |-> k, val |-> v]
<1>1. /\ result' = NoResult /\ UNCHANGED <<durable, handle, tx, batch, cursor>>
      /\ map' = Tree!ApplyOp(map, op) /\ revision' = revision + 1
  BY DEF TreeMutate, Tree!Mutate
<1>2. /\ map \in Map /\ revision \in Nat /\ durable \in [map : Map, revision : Nat]
      /\ durable.revision <= revision
  BY DEF Inv, TypeInv, Behind
<1>3. op.key \in Key /\ op.val \in Val \union {Missing}
  OBVIOUS
<1> HIDE DEF op
<1>4. map' \in Map /\ revision' \in Nat
  BY <1>1, <1>2, <1>3, ApplyOpTyped
<1>5. TypeInv'
  BY <1>1, <1>4 DEF Inv, TypeInv
<1>6. \A x \in Tx : GoodTx(tx[x]) /\ tx[x].baseRevision \in Nat
  BY TxsGood DEF GoodTx, TxRecord
<1>7. Behind'
  BY <1>1, <1>2, <1>6 DEF Behind, GoodTx
<1>8. TxsFaithful'
  BY <1>1, <1>6 DEF TxsFaithful, GoodTx
<1>9. RevisionNamesContents'
  BY <1>1, <1>2, <1>6 DEF RevisionNamesContents, GoodTx
<1>10. OldValuesSeen' /\ CommitSyncDurable'
  BY <1>1 DEF OldValuesSeen, CommitSyncDurable, NoResult
<1> QED
  BY <1>5, <1>7, <1>8, <1>9, <1>10 DEF Inv

LEMMA StutterInv == ASSUME Inv, UNCHANGED vars PROVE Inv'
<1>1. TypeInv'
  BY DEF Inv, TypeInv, vars
<1>2. Behind' /\ TxsFaithful'
  BY DEF Inv, Behind, TxsFaithful, vars
<1>3. RevisionNamesContents' /\ OldValuesSeen' /\ CommitSyncDurable'
  BY DEF Inv, RevisionNamesContents, OldValuesSeen, CommitSyncDurable, Durable, vars
<1> QED
  BY <1>1, <1>2, <1>3 DEF Inv

LEMMA StepInv == Inv /\ [Next]_vars => Inv'
<1> SUFFICES ASSUME Inv, [Next]_vars PROVE Inv'
  OBVIOUS
<1>1. ASSUME NEW x \in Tx, TxNext(x) PROVE Inv'
  BY <1>1, BeginInv, TxMutateInv, TxDeleteRangeInv, CursorBetweenInv, CursorDeleteInv,
     TxRollbackInv, TxCommitInv DEF TxNext
<1>2. ASSUME NEW b \in Batch, BatchNext(b) PROVE Inv'
  BY <1>2, OpenBatchInv, BatchMutateInv, BatchDeleteRangeInv, BatchRollbackInv,
     BatchCommitInv DEF BatchNext
<1>3. ASSUME NEW k \in Key, NEW v \in Val \union {Missing}, TreeMutate(k, v) PROVE Inv'
  BY <1>3, TreeMutateInv
<1>4. CASE CursorNextStep \/ TreeSync \/ TreeClose
  BY <1>4, CursorStepInv, TreeSyncInv, TreeCloseInv
<1>5. CASE UNCHANGED vars
  BY <1>5, StutterInv
<1> QED
  BY <1>1, <1>2, <1>3, <1>4, <1>5 DEF Next

-----------------------------------------------------------------------------
(* The theorems *)

\* The invariant is inductive: it holds of a tree that has just been opened, and every call
\* on a transaction, a batch, a cursor or the tree keeps it (tx.go, batch.go, tx_cursor.go).
THEOREM Inductive == Spec => []Inv
BY InitInv, StepInv, PTL DEF Spec

\* The old values that a commit reports are those the transaction showed when
\* each of its operations was staged (CommitDetailed of tx.go and batch.go).
THEOREM OldValuesAlwaysSeen == Spec => []OldValuesSeen
<1>1. Inv => OldValuesSeen
  BY DEF Inv
<1> QED
  BY <1>1, Inductive, PTL

\* A revision names one content of the tree: what CommitDetailed relies on when
\* it compares revisions, and what SyncedRevision promises.
THEOREM RevisionsNameContents == Spec => []RevisionNamesContents
<1>1. Inv => RevisionNamesContents
  BY DEF Inv
<1> QED
  BY <1>1, Inductive, PTL

\* A CommitSync that reports a change and no error has made all of it durable.
THEOREM CommitSyncsDurable == Spec => []CommitSyncDurable
<1>1. Inv => CommitSyncDurable
  BY DEF Inv
<1> QED
  BY <1>1, Inductive, PTL

\* RangeBetween of an open transaction visits the keys that Get shows, in order.
THEOREM RangesMerge == Spec => []RangeMerges
<1>1. Inv => RangeMerges
  <2> SUFFICES ASSUME Inv PROVE RangeMerges
    OBVIOUS
  <2>1. \A x \in Tx : tx[x] \in TxRecord
    BY TxsGood DEF GoodTx
  <2> QED
    BY <2>1, TxRangeIs DEF RangeMerges
<1> QED
  BY <1>1, Inductive, PTL

\* A call that reports a successful commit has applied the operations.
LEMMA SucceededApplies ==
    ASSUME NEW who, NEW ops, NEW sync, CommitOps(who, ops, sync), Succeeded(result')
    PROVE  Refusal = "" /\ Applied(who, ops, sync)
<1>1. CASE Refusal # "" /\ Refused(who, Refusal, sync)
  <2>1. result'.err = Refusal
    BY <1>1, Zenon DEF Refused, Result
  <2>2. Refusal # "" => Refusal \notin {"", "sync"}
    BY Zenon DEF Refusal
  <2> QED
    BY <1>1, <2>1, <2>2, Zenon DEF Succeeded
<1>2. CASE Panicked(who, sync)
  <2>1. result'.err = "panic"
    BY <1>2, Zenon DEF Panicked, Result
  <2> QED
    BY <2>1, Zenon DEF Succeeded
<1> QED
  BY <1>1, <1>2, Zenon DEF CommitOps

LEMMA AppliedResult ==
    ASSUME NEW who, NEW ops, NEW sync, Applied(who, ops, sync)
    PROVE  /\ map' = Replay(ops).map
           /\ revision' = revision + (IF Replay(ops).changed THEN 1 ELSE 0)
           /\ result'.of = {who} /\ result'.changed = Replay(ops).changed
<1> DEFINE replay == Replay(ops)
<1>1. PICK err :
             /\ map' = replay.map
             /\ revision' = revision + (IF replay.changed THEN 1 ELSE 0)
             /\ result' = Result(who, err, replay.changed, sync, replay.operations)
  BY Zenon DEF Applied, Published
<1> HIDE DEF replay
<1>2. result'.of = {who} /\ result'.changed = replay.changed
  BY <1>1 DEF Result
<1> QED
  BY <1>1, <1>2, Zenon DEF replay

LEMMA ConflictFails ==
    ASSUME NEW who, NEW sync, Refused(who, "conflict", sync) PROVE ~Succeeded(result')
<1>1. result'.err = "conflict"
  BY Zenon DEF Refused, Result
<1> QED
  BY <1>1, Zenon DEF Succeeded

\* Commits are serial: a transaction that commits has the live tree as its base
\* and leaves the tree showing what it showed itself.
THEOREM CommitsAreSerial == Spec => SerialCommits
<1> DEFINE Serial ==
             \A x \in Tx : result'.of = {x} /\ Succeeded(result') =>
                /\ map = tx[x].view
                /\ map' = [k \in Key |-> TxGet(tx[x], k)]
                /\ revision' = revision + (IF result'.changed THEN 1 ELSE 0)
<1>1. ASSUME Inv, Next, NEW x \in Tx, result'.of = {x}, Succeeded(result')
      PROVE  /\ map = tx[x].view
             /\ map' = [k \in Key |-> TxGet(tx[x], k)]
             /\ revision' = revision + (IF result'.changed THEN 1 ELSE 0)
  <2>1. ASSUME NEW who, NEW ops, NEW sync, CommitOps(who, ops, sync)
        PROVE  who = x /\ Refusal = "" /\ Applied(who, ops, sync)
    <3>1. Refusal = "" /\ Applied(who, ops, sync)
      BY <1>1, <2>1, SucceededApplies
    <3>2. result'.of = {who}
      BY <3>1, AppliedResult
    <3> QED
      BY <1>1, <3>1, <3>2, Zenon
  <2>2. \E sync \in BOOLEAN : TxCommit(x, sync)
    <3>1. result' # NoResult
      <4>1. result'.of # NoResult.of
        BY <1>1 DEF NoResult
      <4> QED
        BY <4>1, Zenon
    <3>2. ASSUME NEW b \in Batch, NEW sync, BatchCommit(b, sync) PROVE FALSE
      BY <2>1, <3>2, HandlesDiffer DEF BatchCommit
    <3>3. ASSUME NEW b \in Batch, BatchNext(b) PROVE FALSE
      BY <3>1, <3>2, <3>3, Zenon
         DEF BatchNext, OpenBatch, BatchMutate, BatchDeleteRange, BatchRollback
    <3>4. ASSUME CursorNextStep PROVE FALSE
      BY <3>1, <3>4, Zenon
         DEF CursorNextStep, CursorFirst, CursorLast, CursorNext, CursorPrev, CursorSeek,
             CursorMove, CursorClose
    <3>5. ASSUME TreeSync \/ TreeClose \/ \E k, v : TreeMutate(k, v) PROVE FALSE
      BY <3>1, <3>5, Zenon DEF TreeSync, TreeClose, TreeMutate
    <3>6. PICK y \in Tx : TxNext(y)
      BY <1>1, <3>3, <3>4, <3>5, Zenon DEF Next
    <3>7. PICK sync \in BOOLEAN : TxCommit(y, sync)
      BY <3>1, <3>6, Zenon
         DEF TxNext, BeginReadWrite, TxMutate, TxDeleteRange, CursorBetween, CursorDelete,
             TxRollback
    <3>8. y = x
      <4>1. CASE Refused(y, "conflict", sync)
        BY <1>1, <4>1, ConflictFails
      <4>2. CASE CommitOps(y, tx[y].ops, sync)
        BY <2>1, <4>2
      <4> QED
        BY <3>7, <4>1, <4>2, Zenon DEF TxCommit
    <3> QED
      BY <3>7, <3>8
  <2>3. PICK sync \in BOOLEAN : TxCommit(x, sync)
    BY <2>2
  <2>4. tx[x].open /\ tx[x].baseRevision = revision /\ CommitOps(x, tx[x].ops, sync)
    BY <1>1, <2>3, ConflictFails, Zenon DEF TxCommit
  <2>5. ~handle.closed /\ Applied(x, tx[x].ops, sync)
    BY <2>1, <2>4, NotRefused
  <2>6. tx[x].view = map /\ Tree!ApplyAll(map, tx[x].ops) = [k \in Key |-> TxGet(tx[x], k)]
    BY <1>1, <2>4, <2>5, CurrentReplays
  <2>7. /\ map' = Replay(tx[x].ops).map
        /\ revision' = revision + (IF Replay(tx[x].ops).changed THEN 1 ELSE 0)
        /\ result'.changed = Replay(tx[x].ops).changed
    BY <2>5, AppliedResult, Zenon
  <2>8. Replay(tx[x].ops).map = Tree!ApplyAll(map, tx[x].ops)
    BY Zenon DEF Replay
  <2> QED
    BY <2>6, <2>7, <2>8, Zenon
<1>2. Inv /\ [Next]_vars => [Serial]_vars
  BY <1>1
<1> QED
  BY <1>2, Inductive, PTL DEF Spec, SerialCommits
=============================================================================
