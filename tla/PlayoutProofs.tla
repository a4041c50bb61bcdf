--------------------------- MODULE PlayoutProofs ---------------------------
(***************************************************************************)
(* Proofs about Playout, for any number of requests, assets and slots.     *)
(*                                                                         *)
(* RequestInv ties the label of a request to its operation and to the rows *)
(* its transaction holds.  On it rest: UniqueInv (the unique indexes hold  *)
(* in every transaction's view), ListInv (the collection holds the rows of *)
(* one list, and a transaction that has written another one deletes all of *)
(* them), AuditInv (what an audit found left stays until the commit) and   *)
(* RuntimeTyped (the lists handed to the slot queue are lists of assets,   *)
(* which needs the positions to be unique).  Effect sums up what a request *)
(* does to the rows, so that the steps of these need no case per action.   *)
(***************************************************************************)
EXTENDS Playout, FiniteSetTheorems, SequenceTheorems, TLAPS

-----------------------------------------------------------------------------
(* Ranks, orders and lists *)

\* What comes before s or at its place.
Below(S, pos, s) == {t \in S : pos[t] <= pos[s]}

\* In a finite set whose elements have different positions every rank is taken:
\* ranks are an injection into 1..n, and so a surjection.
LEMMA RankTaken ==
    ASSUME NEW S, IsFiniteSet(S), NEW pos \in [S -> Nat],
           \A s, t \in S : pos[s] = pos[t] => s = t,
           NEW k \in 1..Cardinality(S)
    PROVE  \E s \in S : Cardinality(Below(S, pos, s)) = k
<1> DEFINE below(s) == Below(S, pos, s)
           rank == [s \in S |-> Cardinality(below(s))]
           n == Cardinality(S)
<1>1. n \in Nat
    BY FS_CardinalityType
<1>2. ASSUME NEW s \in S
      PROVE  IsFiniteSet(below(s)) /\ Cardinality(below(s)) \in 1..n
    <2>1. below(s) \in SUBSET S /\ s \in below(s)
        BY DEF Below
    <2>2. IsFiniteSet(below(s)) /\ Cardinality(below(s)) <= n
        BY <2>1, FS_Subset
    <2>3. Cardinality(below(s)) \in Nat /\ Cardinality(below(s)) # 0
        BY <2>1, <2>2, FS_CardinalityType, FS_EmptySet
    <2> QED BY <1>1, <2>2, <2>3
<1>3. ASSUME NEW s \in S, NEW t \in S, rank[s] = rank[t], pos[s] <= pos[t]
      PROVE  s = t
    <2>1. below(s) \in SUBSET below(t)
        BY <1>3 DEF Below
    <2>2. below(s) = below(t)
        <3>1. Cardinality(below(s)) = Cardinality(below(t))
            BY <1>3
        <3> QED BY <1>2, <2>1, <3>1, FS_Subset
    <2>3. t \in below(t)
        BY DEF Below
    <2>4. pos[t] <= pos[s]
        BY <2>2, <2>3 DEF Below
    <2> QED BY <1>3, <2>4
<1>4. rank \in [S -> 1..n]
    BY <1>2
<1>5. rank \in Injection(S, 1..n)
    <2>1. ASSUME NEW s \in S, NEW t \in S, rank[s] = rank[t]
          PROVE  s = t
        <3>1. pos[s] <= pos[t] \/ pos[t] <= pos[s]
            OBVIOUS
        <3> QED BY <1>3, <2>1, <3>1
    <2> HIDE DEF rank
    <2> QED BY <1>4, <2>1 DEF Injection, IsInjective
<1>6. IsFiniteSet(1..n) /\ Cardinality(1..n) = n
    BY <1>1, FS_Interval
<1>7. rank \in Surjection(S, 1..n)
    BY <1>5, <1>6, FS_Injection
<1>8. \E s \in S : rank[s] = k
    BY <1>7 DEF Surjection
<1> QED BY <1>8

\* A finite set of numbers has a greatest one.
LEMMA MaxTaken ==
    ASSUME NEW S \in SUBSET Nat, IsFiniteSet(S), S # {}
    PROVE  Max(S) \in S /\ \A s \in S : s <= Max(S)
<1> DEFINE pos == [s \in S |-> s]
           n == Cardinality(S)
<1>1. n \in Nat /\ n # 0
    BY FS_CardinalityType, FS_EmptySet
<1>2. PICK m \in S : Cardinality(Below(S, pos, m)) = n
    <2>1. pos \in [S -> Nat] /\ \A s, t \in S : pos[s] = pos[t] => s = t
        OBVIOUS
    <2>2. n \in 1..n
        BY <1>1
    <2>3. \A k \in 1..Cardinality(S) : \E m \in S : Cardinality(Below(S, pos, m)) = k
        <3> HIDE DEF pos, n
        <3> QED BY <2>1, RankTaken
    <2> HIDE DEF pos
    <2> QED BY <2>2, <2>3
<1>3. Below(S, pos, m) = S
    <2>1. Below(S, pos, m) \in SUBSET S
        BY DEF Below
    <2> QED BY <1>2, <2>1, FS_Subset
<1>4. \A s \in S : m >= s
    BY <1>3 DEF Below
<1> QED BY <1>4 DEF Max

\* No two rows of a set have the same position or the same asset.
UniqueIn(rows) == \A r, t \in rows : Clash(r, t) => r = t

\* A finite set of rows with different positions has an order ...
LEMMA InOrderTyped ==
    ASSUME NEW rows \in SUBSET Rows, IsFiniteSet(rows), UniqueIn(rows)
    PROVE  InOrder(rows) \in [1..Cardinality(rows) -> rows]
<1> DEFINE pos == [r \in rows |-> r.pos]
<1>1. pos \in [rows -> Nat]
    BY DEF Rows
<1>2. \A r, t \in rows : pos[r] = pos[t] => r = t
    BY DEF UniqueIn, Clash
<1>3. ASSUME NEW k \in 1..Cardinality(rows)
      PROVE  \E r \in rows : /\ Cardinality({t \in rows : t.pos < r.pos}) < k
                             /\ k <= Cardinality({t \in rows : t.pos <= r.pos})
    <2>0. k \in Int
        BY FS_CardinalityType
    <2>1. PICK r \in rows : Cardinality(Below(rows, pos, r)) = k
        <3> HIDE DEF pos
        <3> QED BY <1>1, <1>2, RankTaken
    <2> DEFINE before == {t \in rows : t.pos < r.pos}
               upto == {t \in rows : t.pos <= r.pos}
    <2>2. Below(rows, pos, r) = upto
        BY DEF Below
    <2>3. Below(rows, pos, r) = before \cup {r} /\ r \notin before
        BY <1>1, <1>2, <2>2
    <2>4. IsFiniteSet(before)
        BY FS_Subset
    <2>5. Cardinality(before) < k
        <3> HIDE DEF before, pos
        <3>1. Cardinality(before) \in Nat /\ Cardinality(before \cup {r}) = Cardinality(before) + 1
            BY <2>3, <2>4, FS_CardinalityType, FS_AddElement
        <3> QED BY <2>0, <2>1, <2>3, <3>1
    <2>6. k <= Cardinality(upto)
        <3> HIDE DEF pos, upto
        <3> QED BY <2>0, <2>1, <2>2
    <2> QED BY <2>5, <2>6
<1> QED BY <1>3 DEF InOrder

\* ... in which it is a list of assets.
LEMMA AssetsOfTyped ==
    ASSUME NEW rows \in SUBSET Rows, IsFiniteSet(rows), UniqueIn(rows)
    PROVE  AssetsOf(rows) \in Seq(Assets) /\ Len(AssetsOf(rows)) = Cardinality(rows)
<1>1. InOrder(rows) \in [1..Cardinality(rows) -> rows] /\ Cardinality(rows) \in Nat
    BY InOrderTyped, FS_CardinalityType
<1>2. AssetsOf(rows) \in [1..Cardinality(rows) -> Assets]
    BY <1>1 DEF AssetsOf, Rows
<1> QED BY <1>1, <1>2

\* The rows of a list: the first item of each asset, numbered from 1.
LEMMA RowsOfTyped ==
    ASSUME NEW list \in List, NEW by \in Edits \cup {None}
    PROVE  /\ RowsOf(list, by) \subseteq Rows
           /\ IsFiniteSet(RowsOf(list, by))
           /\ UniqueIn(RowsOf(list, by))
           /\ \A r \in RowsOf(list, by) : r.by = by
           /\ \E r \in RowsOf(list, by) : r.pos = 1
<1> DEFINE kept == Normalized(list)
           upto(i) == {j \in kept : j <= i}
           row == [i \in kept |-> [pos |-> Cardinality(upto(i)), asset |-> list[i].asset,
                                   mode |-> list[i].mode, by |-> by]]
<1>1. /\ Len(list) \in Nat /\ DOMAIN list = 1..Len(list) /\ 1 \in DOMAIN list
      /\ \A i \in DOMAIN list : list[i] \in Item
    BY DEF List
<1>2. kept \in SUBSET (1..Len(list)) /\ 1 \in kept
    BY <1>1 DEF Normalized
<1>3. IsFiniteSet(kept)
    <2>1. IsFiniteSet(1..Len(list))
        BY <1>1, FS_Interval
    <2> QED BY <1>2, <2>1, FS_Subset
<1>4. ASSUME NEW i \in kept
      PROVE  IsFiniteSet(upto(i)) /\ Cardinality(upto(i)) \in Nat
    <2>1. upto(i) \in SUBSET kept
        OBVIOUS
    <2> QED BY <1>3, <2>1, FS_Subset, FS_CardinalityType
<1>5. RowsOf(list, by) = {row[i] : i \in kept}
    BY DEF RowsOf
<1>6. \A i \in kept : row[i] \in Rows /\ row[i].by = by /\ row[i].asset = list[i].asset
    BY <1>1, <1>2, <1>4 DEF Rows, Item
<1>7. IsFiniteSet(RowsOf(list, by))
    <2>1. row \in Surjection(kept, {row[i] : i \in kept})
        BY DEF Surjection
    <2> HIDE DEF row, kept
    <2> QED BY <1>3, <1>5, <2>1, FS_Surjection
<1>8. ASSUME NEW i \in kept, NEW j \in kept, i < j
      PROVE  row[i].pos # row[j].pos /\ row[i].asset # row[j].asset
    <2>1. list[i].asset # list[j].asset
        BY <1>2, <1>8 DEF Normalized
    <2>2. upto(i) \in SUBSET upto(j) /\ j \in upto(j) /\ j \notin upto(i)
        BY <1>2, <1>8
    <2>3. Cardinality(upto(i)) # Cardinality(upto(j))
        BY <1>4, <2>2, FS_Subset
    <2> QED BY <2>1, <2>3
<1>9. UniqueIn(RowsOf(list, by))
    <2>1. ASSUME NEW i \in kept, NEW j \in kept, Clash(row[i], row[j])
          PROVE  i = j
        <3>1. i \in Int /\ j \in Int
            BY <1>1, <1>2
        <3>2. ~(i < j) /\ ~(j < i)
            BY <1>8, <2>1 DEF Clash
        <3> QED BY <3>1, <3>2
    <2> HIDE DEF row
    <2> QED BY <1>5, <2>1 DEF UniqueIn
<1>10. row[1].pos = 1
    <2>1. upto(1) = {1}
        BY <1>1, <1>2
    <2>2. Cardinality({1}) = 1
        BY FS_Singleton
    <2> QED BY <1>2, <2>1, <2>2
<1> HIDE DEF row
<1> QED BY <1>2, <1>5, <1>6, <1>7, <1>9, <1>10

-----------------------------------------------------------------------------
(* The session: what the requests are and where they are *)

\* Finite sets of rows.
RowSets == {rows \in SUBSET Rows : IsFiniteSet(rows)}

SessionTyped ==
    /\ pc \in [Edits -> Label]
    /\ op \in [Edits -> Requests \cup {None}]
    /\ seen \in [Edits -> RowSets] /\ dels \in [Edits -> RowSets] /\ ins \in [Edits -> RowSets]
    /\ wants \in [Edits -> BOOLEAN]
    /\ impacted \in [Edits -> BOOLEAN] /\ depleted \in [Edits -> BOOLEAN]

DataTyped ==
    /\ alive \subseteq Assets /\ files \subseteq Assets
    /\ items \in RowSets /\ active \in BOOLEAN
    /\ SessionTyped

\* Where a replacement works on the rows it deletes; where a request has
\* written its own rows; where a deletion holds the rows of its asset.
Rewriting == {"deleting", "insert", "fetch", "apply", "commit"}
Written == {"fetch", "apply", "commit"}
Dropping == {"charge", "audit", "commit"}

\* What the label of a request says of its operation and of its transaction.
RequestInv(e) ==
    /\ pc[e] # "idle" => op[e] \in Requests
    /\ pc[e] \in {"delete", "deleting", "fetch"} => Replacing(e)
    /\ pc[e] \in {"validate", "insert", "apply"} => Replacing(e) \/ Kind(e) = "enqueue"
    /\ pc[e] \in {"usage", "impact", "drop", "cascade", "charge", "audit", "unlink"}
          => Kind(e) = "delete"
    /\ ins[e] = IF pc[e] \in Written /\ Kind(e) # "delete" THEN NewRows(e) ELSE {}
    /\ dels[e] # {} => \/ pc[e] \in Rewriting /\ Replacing(e)
                       \/ pc[e] \in Dropping /\ Kind(e) = "delete"

SessionInv == DataTyped /\ \A e \in Edits : RequestInv(e)

\* Request f is where it was.
Kept(f) ==
    /\ pc'[f] = pc[f] /\ op'[f] = op[f] /\ seen'[f] = seen[f] /\ wants'[f] = wants[f]
    /\ dels'[f] = dels[f] /\ ins'[f] = ins[f]
    /\ impacted'[f] = impacted[f] /\ depleted'[f] = depleted[f]

LEMMA RowSetOps ==
    ASSUME NEW rows \in RowSets, NEW more \in RowSets, NEW any
    PROVE  /\ {} \in RowSets
           /\ rows \cup more \in RowSets
           /\ rows \ any \in RowSets
           /\ rows \cap any \in RowSets
           /\ \A part \in SUBSET rows : part \in RowSets
<1>1. \A part \in SUBSET rows : part \in RowSets
    BY FS_Subset DEF RowSets
<1>2. rows \cup more \in RowSets
    BY FS_Union DEF RowSets
<1>3. {} \in SUBSET rows /\ rows \ any \in SUBSET rows /\ rows \cap any \in SUBSET rows
    OBVIOUS
<1> QED BY <1>1, <1>2, <1>3

LEMMA RequestTyped ==
    ASSUME NEW o \in Requests
    PROVE  /\ o.kind \in {"swap", "restart", "replace", "enqueue", "delete"}
           /\ o.kind \in {"swap", "restart", "replace"} => o.list \in List
           /\ o.kind \in {"enqueue", "delete"} => o.asset \in Assets
BY PlayoutAssumption DEF Ops

\* What a request inserts: rows of its own that do not clash with each other.
LEMMA NewRowsTyped ==
    ASSUME DataTyped, NEW e \in Edits, op[e] \in Requests,
           Replacing(e) \/ Kind(e) = "enqueue"
    PROVE  /\ NewRows(e) \in RowSets
           /\ UniqueIn(NewRows(e))
           /\ \A r \in NewRows(e) : r.by = e
           /\ Replacing(e) => \E r \in NewRows(e) : r.pos = 1
           /\ Kind(e) = "enqueue" => \E r \in NewRows(e) : r.asset = op[e].asset
<1>1. CASE Replacing(e)
    <2>1. op[e].list \in List /\ Kind(e) # "enqueue"
        BY <1>1, RequestTyped DEF Replacing, Kind
    <2>2. NewRows(e) = RowsOf(op[e].list, e)
        BY <1>1 DEF NewRows
    <2> QED BY <2>1, <2>2, RowsOfTyped DEF RowSets
<1>2. CASE Kind(e) = "enqueue" /\ ~Replacing(e)
    <2> DEFINE taken == {0} \cup {r.pos : r \in seen[e]}
               row == [pos |-> Max(taken) + 1, asset |-> op[e].asset, mode |-> "loop", by |-> e]
    <2>1. NewRows(e) = {row}
        BY <1>2 DEF NewRows
    <2>2. op[e].asset \in Assets
        BY <1>2, RequestTyped DEF Kind
    <2>3. Max(taken) \in Nat
        <3>1. seen[e] \subseteq Rows /\ IsFiniteSet(seen[e])
            BY DEF DataTyped, SessionTyped, RowSets
        <3>2. taken \in SUBSET Nat /\ taken # {}
            BY <3>1 DEF Rows
        <3>3. IsFiniteSet(taken)
            <4> DEFINE pos == [r \in seen[e] |-> r.pos]
            <4>1. pos \in Surjection(seen[e], {r.pos : r \in seen[e]})
                BY DEF Surjection
            <4>2. IsFiniteSet({r.pos : r \in seen[e]})
                BY <3>1, <4>1, FS_Surjection
            <4>3. IsFiniteSet({0})
                BY FS_Singleton
            <4> QED BY <4>2, <4>3, FS_Union
        <3> QED BY <3>2, <3>3, MaxTaken
    <2>4. row \in Rows /\ row.by = e /\ row.asset = op[e].asset
        BY <2>2, <2>3 DEF Rows
    <2>5. IsFiniteSet({row})
        BY FS_Singleton
    <2> HIDE DEF row
    <2> QED BY <1>2, <2>1, <2>4, <2>5 DEF RowSets, UniqueIn
<1> QED BY <1>1, <1>2

\* A request moves itself only.
LEMMA OthersKept ==
    ASSUME DataTyped, NEW e \in Edits, Request(e)
    PROVE  \A f \in Edits \ {e} : Kept(f)
<1>1. CASE Begin(e)
    BY <1>1 DEF DataTyped, SessionTyped, Kept, Begin, Goto
<1>2. CASE Validate(e)
    BY <1>2 DEF DataTyped, SessionTyped, Kept, Validate, Goto, Rollback, Finish
<1>3. CASE DeleteItems(e)
    BY <1>3 DEF DataTyped, SessionTyped, Kept, DeleteItems, Goto
<1>4. CASE ItemsDeleted(e)
    BY <1>4 DEF DataTyped, SessionTyped, Kept, ItemsDeleted, Goto
<1>5. CASE InsertItems(e)
    BY <1>5 DEF DataTyped, SessionTyped, Kept, InsertItems, Goto, Rollback, Finish
<1>6. CASE FetchItems(e)
    BY <1>6 DEF DataTyped, SessionTyped, Kept, FetchItems, Goto, Rollback, Finish
<1>7. CASE ApplySwap(e)
    BY <1>7 DEF DataTyped, SessionTyped, Kept, ApplySwap, Goto, Rollback, Finish
<1>8. CASE ApplyRestart(e)
    BY <1>8 DEF DataTyped, SessionTyped, Kept, ApplyRestart, Goto, Rollback, Finish
<1>9. CASE ApplyEnqueue(e)
    BY <1>9 DEF DataTyped, SessionTyped, Kept, ApplyEnqueue, Goto, Rollback, Finish
<1>10. CASE CheckUsage(e)
    BY <1>10 DEF DataTyped, SessionTyped, Kept, CheckUsage, Goto, Rollback, Finish
<1>11. CASE ReadImpact(e)
    BY <1>11 DEF DataTyped, SessionTyped, Kept, ReadImpact, Goto
<1>12. CASE DropAsset(e)
    BY <1>12 DEF DataTyped, SessionTyped, Kept, DropAsset, Goto
<1>13. CASE Cascade(e)
    BY <1>13 DEF DataTyped, SessionTyped, Kept, Cascade, Goto
<1>14. CASE Charge(e)
    BY <1>14 DEF DataTyped, SessionTyped, Kept, Charge, Goto
<1>15. CASE Audit(e)
    BY <1>15 DEF DataTyped, SessionTyped, Kept, Audit, Goto
<1>16. CASE Commit(e)
    BY <1>16 DEF DataTyped, SessionTyped, Kept, Commit, Goto, Finish
<1>17. CASE Unlink(e)
    BY <1>17 DEF DataTyped, SessionTyped, Kept, Unlink, Goto
<1>18. CASE DeadlockVictim(e)
    BY <1>18 DEF DataTyped, SessionTyped, Kept, DeadlockVictim, Goto, Rollback, Finish
<1> QED BY <1>1, <1>2, <1>3, <1>4, <1>5, <1>6, <1>7, <1>8, <1>9, <1>10, <1>11, <1>12, <1>13,
       <1>14, <1>15, <1>16, <1>17, <1>18 DEF Request

\* The rows of the collection change when a request commits.
LEMMA ItemsKept ==
    ASSUME NEW e \in Edits, Request(e), ~Commit(e)
    PROVE  items' = items
BY DEF Request, Begin, Validate, DeleteItems, ItemsDeleted, InsertItems, FetchItems, ApplySwap,
   ApplyRestart, ApplyEnqueue, CheckUsage, ReadImpact, DropAsset, Cascade, Charge, Audit,
   Unlink, DeadlockVictim, db

\* The runtime of the stream leaves the database and the requests alone.
LEMMA RuntimeActs ==
    ASSUME Advance \/ AdvanceShuffled \/ Stop \/ Launch
    PROVE  UNCHANGED <<db, session>>
BY DEF Advance, AdvanceShuffled, Stop, Launch, db, session

\* A request that ends has nothing open any more.
LEMMA FinishTyped ==
    ASSUME SessionTyped, NEW e \in Edits, NEW label \in Label, Finish(e, label)
    PROVE  SessionTyped'
<1>1. {} \in RowSets
    BY FS_EmptySet DEF RowSets
<1> QED BY <1>1, Zenon DEF SessionTyped, Finish, Goto

\* A request keeps the data typed.
LEMMA DataStep ==
    ASSUME SessionInv, NEW e \in Edits, Request(e)
    PROVE  DataTyped'
<1> USE DEF SessionInv
<1>0. /\ items \in RowSets /\ dels[e] \in RowSets /\ ins[e] \in RowSets /\ {} \in RowSets
      /\ \A part \in SUBSET items : part \in RowSets
    BY RowSetOps DEF DataTyped, SessionTyped
<1>1. (items \ dels[e]) \cup ins[e] \in RowSets
    BY <1>0, RowSetOps
<1>2. CASE Begin(e)
    BY <1>0, <1>2 DEF DataTyped, SessionTyped, Label, db, Begin, Goto
<1>3. CASE DeleteItems(e)
    BY <1>0, <1>3 DEF DataTyped, SessionTyped, Label, db, DeleteItems, Goto
<1>4. CASE ItemsDeleted(e)
    BY <1>0, <1>4 DEF DataTyped, SessionTyped, Label, db, ItemsDeleted, Goto
<1>5. CASE ReadImpact(e)
    BY <1>0, <1>5 DEF DataTyped, SessionTyped, Label, db, ReadImpact, Goto
<1>6. CASE DropAsset(e)
    BY <1>0, <1>6 DEF DataTyped, SessionTyped, Label, db, DropAsset, Goto
<1>7. CASE Cascade(e)
    BY <1>0, <1>7 DEF DataTyped, SessionTyped, Label, db, Cascade, Goto, ItemsOf
<1>8. CASE Charge(e)
    BY <1>0, <1>8 DEF DataTyped, SessionTyped, Label, db, Charge, Goto
<1>9. CASE Audit(e)
    BY <1>0, <1>9 DEF DataTyped, SessionTyped, Label, db, Audit, Goto
<1>10. CASE Unlink(e)
    BY <1>0, <1>10 DEF DataTyped, SessionTyped, Label, db, Unlink, Goto
<1>11. ASSUME Rollback(e), UNCHANGED db
      PROVE  DataTyped'
    <2>1. "failed" \in Label
        BY DEF Label
    <2>2. SessionTyped'
        BY <1>11, <2>1, FinishTyped DEF DataTyped, Rollback
    <2> QED BY <1>11, <2>2 DEF DataTyped, db
<1>12. CASE Validate(e)
    <2>1. CASE ~Rollback(e)
        BY <1>12, <2>1 DEF DataTyped, SessionTyped, Label, db, Validate, Goto
    <2>2. UNCHANGED db
        BY <1>12 DEF Validate
    <2> QED BY <1>11, <2>1, <2>2
<1>13. CASE InsertItems(e)
    <2>1. NewRows(e) \in RowSets
        BY <1>13, NewRowsTyped DEF InsertItems, RequestInv
    <2>2. CASE ~Rollback(e)
        <3> DEFINE to == CASE Kind(e) = "replace" -> "commit"
                           [] Kind(e) = "swap" -> IF wants[e] THEN "fetch" ELSE "commit"
                           [] Kind(e) \in {"restart", "enqueue"} -> "apply"
        <3>1. to \in Label
            BY <1>13 DEF InsertItems, RequestInv, Replacing, Label
        <3>2. pc' = [pc EXCEPT ![e] = to]
            BY <1>13, <2>2 DEF InsertItems, Goto
        <3>3. SessionTyped'
            <4> HIDE DEF to
            <4> QED BY <1>13, <2>1, <2>2, <3>1, <3>2 DEF DataTyped, SessionTyped, InsertItems
        <3> QED BY <1>13, <3>3 DEF DataTyped, InsertItems, db
    <2>3. UNCHANGED db
        BY <1>13 DEF InsertItems
    <2> QED BY <1>11, <2>2, <2>3
<1>14. CASE FetchItems(e)
    <2>1. CASE ~Rollback(e)
        BY <1>1, <1>14, <2>1 DEF DataTyped, SessionTyped, Label, db, FetchItems, Goto, View
    <2>2. UNCHANGED db
        BY <1>14 DEF FetchItems
    <2> QED BY <1>11, <2>1, <2>2
<1>15. CASE ApplySwap(e)
    <2>1. CASE ~Rollback(e)
        BY <1>15, <2>1 DEF DataTyped, SessionTyped, Label, db, ApplySwap, Goto
    <2>2. UNCHANGED db
        BY <1>15 DEF ApplySwap
    <2> QED BY <1>11, <2>1, <2>2
<1>16. CASE ApplyRestart(e)
    <2>1. CASE ~Rollback(e)
        BY <1>16, <2>1 DEF DataTyped, SessionTyped, Label, db, ApplyRestart, Goto
    <2>2. UNCHANGED db
        BY <1>16 DEF ApplyRestart
    <2> QED BY <1>11, <2>1, <2>2
<1>17. CASE ApplyEnqueue(e)
    <2>1. CASE ~Rollback(e)
        BY <1>17, <2>1 DEF DataTyped, SessionTyped, Label, db, ApplyEnqueue, Goto
    <2>2. UNCHANGED db
        BY <1>17 DEF ApplyEnqueue
    <2> QED BY <1>11, <2>1, <2>2
<1>18. CASE CheckUsage(e)
    <2>1. CASE ~Rollback(e)
        BY <1>18, <2>1 DEF DataTyped, SessionTyped, Label, db, CheckUsage, Goto
    <2>2. UNCHANGED db
        BY <1>18 DEF CheckUsage
    <2> QED BY <1>11, <2>1, <2>2
<1>19. CASE DeadlockVictim(e)
    BY <1>11, <1>19 DEF DeadlockVictim
<1>20. CASE Commit(e)
    <2>1. SessionTyped'
        <3>1. "unlink" \in Label /\ "done" \in Label
            BY DEF Label
        <3> QED BY <1>20, <3>1, FinishTyped DEF DataTyped, Commit
    <2> QED BY <1>1, <1>20, <2>1 DEF DataTyped, Commit
<1> QED BY <1>2, <1>3, <1>4, <1>5, <1>6, <1>7, <1>8, <1>9, <1>10, <1>11, <1>12, <1>13, <1>14,
       <1>15, <1>16, <1>17, <1>18, <1>19, <1>20 DEF Request

\* A request that ends has neither rows of its own nor rows it deletes.
LEMMA FinishKeepsInv ==
    ASSUME SessionInv, NEW e \in Edits, NEW label \in {"failed", "done", "unlink"},
           Finish(e, label), pc[e] # "idle", label = "unlink" => Kind(e) = "delete"
    PROVE  RequestInv(e)'
<1>1. pc'[e] = label /\ op' = op /\ dels'[e] = {} /\ ins'[e] = {}
    BY DEF SessionInv, DataTyped, SessionTyped, Finish, Goto
<1> QED BY <1>1 DEF SessionInv, RequestInv, Kind, Replacing, Written

LEMMA NewRowsKept ==
    ASSUME NEW e \in Edits, op'[e] = op[e], Replacing(e) \/ seen'[e] = seen[e]
    PROVE  NewRows(e)' = NewRows(e)
BY DEF NewRows, Replacing, Kind

\* What a label says stays true.
LEMMA RequestStep ==
    ASSUME SessionInv, NEW e \in Edits, Request(e)
    PROVE  \A f \in Edits : RequestInv(f)'
<1>1. ASSUME NEW f \in Edits \ {e}
      PROVE  RequestInv(f)'
    <2>1. Kept(f)
        BY OthersKept DEF SessionInv
    <2>2. RequestInv(f)
        BY DEF SessionInv
    <2>3. NewRows(f)' = NewRows(f)
        BY <2>1, NewRowsKept DEF Kept
    <2> QED BY <2>1, <2>2, <2>3 DEF RequestInv, Kept, Kind, Replacing
<1> SUFFICES RequestInv(e)'
    BY <1>1
<1>2. RequestInv(e) /\ SessionTyped
    BY DEF SessionInv, DataTyped
<1>3. ASSUME Rollback(e), pc[e] # "idle"
      PROVE  RequestInv(e)'
    BY <1>3, FinishKeepsInv DEF Rollback
<1>4. CASE Begin(e)
    <2>1. PICK o \in Requests : /\ op'[e] = o
                               /\ pc'[e] = IF o.kind = "delete" THEN "usage" ELSE "validate"
        BY <1>2, <1>4 DEF Begin, SessionTyped, Goto
    <2>2. /\ dels'[e] = dels[e] /\ ins'[e] = ins[e] /\ pc[e] = "idle"
        BY <1>4 DEF Begin
    <2>3. dels'[e] = {} /\ ins'[e] = {}
        BY <1>2, <2>2 DEF RequestInv, Written, Rewriting, Dropping
    <2>4. Kind(e)' = o.kind /\ (Replacing(e)' <=> o.kind \in {"swap", "restart", "replace"})
        BY <2>1 DEF Kind, Replacing
    <2> QED BY <2>1, <2>3, <2>4, RequestTyped DEF RequestInv, Written
<1>5. CASE Validate(e)
    <2>1. CASE ~Rollback(e)
        <3>1. /\ pc[e] = "validate" /\ pc'[e] = (IF Replacing(e) THEN "delete" ELSE "insert")
              /\ op'[e] = op[e]
              /\ seen'[e] = seen[e] /\ dels'[e] = dels[e] /\ ins'[e] = ins[e]
              /\ (Replacing(e) \/ Kind(e) = "enqueue")
            BY <1>2, <1>5, <2>1 DEF Validate, SessionTyped, Goto, Replacing
        <3>2. Kind(e)' = Kind(e) /\ (Replacing(e)' <=> Replacing(e))
            BY <3>1 DEF Kind, Replacing
        <3> QED BY <1>2, <3>1, <3>2 DEF RequestInv, Written, Rewriting, Dropping
    <2> QED BY <1>3, <1>5, <2>1 DEF Validate
<1>6. CASE DeleteItems(e)
    <2>1. /\ pc[e] = "delete" /\ pc'[e] = "deleting" /\ op'[e] = op[e]
          /\ seen'[e] = seen[e] /\ ins'[e] = ins[e]
        BY <1>2, <1>6 DEF DeleteItems, SessionTyped, Goto
    <2>2. Kind(e)' = Kind(e) /\ (Replacing(e)' <=> Replacing(e))
        BY <2>1 DEF Kind, Replacing
    <2> QED BY <1>2, <2>1, <2>2 DEF RequestInv, Written, Rewriting, Dropping
<1>7. CASE ItemsDeleted(e)
    <2>1. /\ pc[e] = "deleting" /\ pc'[e] = "insert" /\ op'[e] = op[e]
          /\ seen'[e] = seen[e] /\ ins'[e] = ins[e]
        BY <1>2, <1>7 DEF ItemsDeleted, SessionTyped, Goto
    <2>2. Kind(e)' = Kind(e) /\ (Replacing(e)' <=> Replacing(e))
        BY <2>1 DEF Kind, Replacing
    <2> QED BY <1>2, <2>1, <2>2 DEF RequestInv, Written, Rewriting, Dropping
<1>8. CASE InsertItems(e)
    <2>1. CASE InsertFails(e)
        BY <1>3, <1>8, <2>1 DEF InsertItems
    <2>2. CASE ~InsertFails(e)
        <3>1. /\ op'[e] = op[e] /\ seen'[e] = seen[e] /\ dels'[e] = dels[e]
              /\ ins'[e] = NewRows(e) /\ pc[e] = "insert"
            BY <1>2, <1>8, <2>2 DEF InsertItems, SessionTyped
        <3>2. Replacing(e) \/ Kind(e) = "enqueue"
            BY <1>2, <3>1 DEF RequestInv
        <3>3. pc'[e] \in Written /\ (pc'[e] = "fetch" => Replacing(e))
              /\ (pc'[e] = "commit" => Replacing(e))
            <4>1. pc'[e] = CASE Kind(e) = "replace" -> "commit"
                           [] Kind(e) = "swap" -> IF wants[e] THEN "fetch" ELSE "commit"
                           [] Kind(e) \in {"restart", "enqueue"} -> "apply"
                BY <1>2, <1>8, <2>2 DEF InsertItems, SessionTyped, Goto
            <4> QED BY <3>2, <4>1 DEF Replacing, Written
        <3>4. Kind(e)' = Kind(e) /\ (Replacing(e)' <=> Replacing(e)) /\ NewRows(e)' = NewRows(e)
            BY <3>1, NewRowsKept DEF Kind, Replacing
        <3>5. Kind(e) # "delete"
            BY <3>2 DEF Replacing
        <3> QED BY <1>2, <3>1, <3>2, <3>3, <3>4, <3>5 DEF RequestInv, Written, Rewriting, Dropping
    <2> QED BY <2>1, <2>2
<1>9. CASE FetchItems(e)
    <2>1. CASE ~Rollback(e)
        <3>1. /\ pc[e] = "fetch" /\ pc'[e] = "apply" /\ op'[e] = op[e]
              /\ dels'[e] = dels[e] /\ ins'[e] = ins[e]
            BY <1>2, <1>9, <2>1 DEF FetchItems, SessionTyped, Goto
        <3>2. Kind(e)' = Kind(e) /\ (Replacing(e)' <=> Replacing(e))
            BY <3>1 DEF Kind, Replacing
        <3>3. NewRows(e)' = NewRows(e)
            BY <1>2, <3>1, NewRowsKept DEF RequestInv
        <3> QED BY <1>2, <3>1, <3>2, <3>3 DEF RequestInv, Written, Rewriting, Dropping
    <2> QED BY <1>3, <1>9, <2>1 DEF FetchItems
<1>10. CASE ApplySwap(e)
    <2>1. CASE ~Rollback(e)
        <3>1. /\ pc[e] = "apply" /\ pc'[e] = "commit" /\ op'[e] = op[e]
              /\ seen'[e] = seen[e] /\ dels'[e] = dels[e] /\ ins'[e] = ins[e]
            BY <1>2, <1>10, <2>1 DEF ApplySwap, SessionTyped, Goto
        <3>2. Kind(e)' = Kind(e) /\ (Replacing(e)' <=> Replacing(e))
            BY <3>1 DEF Kind, Replacing
        <3>3. NewRows(e)' = NewRows(e)
            BY <1>2, <3>1, NewRowsKept DEF RequestInv
        <3> QED BY <1>2, <3>1, <3>2, <3>3 DEF RequestInv, Written, Rewriting, Dropping
    <2> QED BY <1>3, <1>10, <2>1 DEF ApplySwap
<1>11. CASE ApplyRestart(e)
    <2>1. CASE ~Rollback(e)
        <3>1. /\ pc[e] = "apply" /\ pc'[e] = "commit" /\ op'[e] = op[e]
              /\ seen'[e] = seen[e] /\ dels'[e] = dels[e] /\ ins'[e] = ins[e]
            BY <1>2, <1>11, <2>1 DEF ApplyRestart, SessionTyped, Goto
        <3>2. Kind(e)' = Kind(e) /\ (Replacing(e)' <=> Replacing(e))
            BY <3>1 DEF Kind, Replacing
        <3>3. NewRows(e)' = NewRows(e)
            BY <1>2, <3>1, NewRowsKept DEF RequestInv
        <3> QED BY <1>2, <3>1, <3>2, <3>3 DEF RequestInv, Written, Rewriting, Dropping
    <2> QED BY <1>3, <1>11, <2>1 DEF ApplyRestart
<1>12. CASE ApplyEnqueue(e)
    <2>1. CASE ~Rollback(e)
        <3>1. /\ pc[e] = "apply" /\ pc'[e] = "commit" /\ op'[e] = op[e]
              /\ seen'[e] = seen[e] /\ dels'[e] = dels[e] /\ ins'[e] = ins[e]
            BY <1>2, <1>12, <2>1 DEF ApplyEnqueue, SessionTyped, Goto
        <3>2. Kind(e)' = Kind(e) /\ (Replacing(e)' <=> Replacing(e))
            BY <3>1 DEF Kind, Replacing
        <3>3. NewRows(e)' = NewRows(e)
            BY <1>2, <3>1, NewRowsKept DEF RequestInv
        <3> QED BY <1>2, <3>1, <3>2, <3>3 DEF RequestInv, Written, Rewriting, Dropping
    <2> QED BY <1>3, <1>12, <2>1 DEF ApplyEnqueue
<1>13. CASE CheckUsage(e)
    <2>1. CASE ~Rollback(e)
        <3>1. /\ pc[e] = "usage" /\ pc'[e] = "impact" /\ op'[e] = op[e]
              /\ seen'[e] = seen[e] /\ dels'[e] = dels[e] /\ ins'[e] = ins[e]
            BY <1>2, <1>13, <2>1 DEF CheckUsage, SessionTyped, Goto
        <3>2. Kind(e)' = Kind(e) /\ (Replacing(e)' <=> Replacing(e))
            BY <3>1 DEF Kind, Replacing
        <3> QED BY <1>2, <3>1, <3>2 DEF RequestInv, Written, Rewriting, Dropping
    <2> QED BY <1>3, <1>13, <2>1 DEF CheckUsage
<1>14. CASE ReadImpact(e)
    <2>1. /\ pc[e] = "impact" /\ pc'[e] = "drop" /\ op'[e] = op[e]
          /\ seen'[e] = seen[e] /\ dels'[e] = dels[e] /\ ins'[e] = ins[e]
        BY <1>2, <1>14 DEF ReadImpact, SessionTyped, Goto
    <2>2. Kind(e)' = Kind(e) /\ (Replacing(e)' <=> Replacing(e))
        BY <2>1 DEF Kind, Replacing
    <2> QED BY <1>2, <2>1, <2>2 DEF RequestInv, Written, Rewriting, Dropping
<1>15. CASE DropAsset(e)
    <2>1. /\ pc[e] = "drop" /\ pc'[e] = "cascade" /\ op'[e] = op[e]
          /\ seen'[e] = seen[e] /\ dels'[e] = dels[e] /\ ins'[e] = ins[e]
        BY <1>2, <1>15 DEF DropAsset, SessionTyped, Goto
    <2>2. Kind(e)' = Kind(e) /\ (Replacing(e)' <=> Replacing(e))
        BY <2>1 DEF Kind, Replacing
    <2> QED BY <1>2, <2>1, <2>2 DEF RequestInv, Written, Rewriting, Dropping
<1>16. CASE Cascade(e)
    <2>1. /\ pc[e] = "cascade" /\ pc'[e] = "charge" /\ op'[e] = op[e]
          /\ seen'[e] = seen[e] /\ ins'[e] = ins[e]
        BY <1>2, <1>16 DEF Cascade, SessionTyped, Goto
    <2>2. Kind(e)' = Kind(e) /\ (Replacing(e)' <=> Replacing(e))
        BY <2>1 DEF Kind, Replacing
    <2> QED BY <1>2, <2>1, <2>2 DEF RequestInv, Written, Rewriting, Dropping
<1>17. CASE Charge(e)
    <2>1. /\ pc[e] = "charge" /\ pc'[e] = "audit" /\ op'[e] = op[e]
          /\ seen'[e] = seen[e] /\ dels'[e] = dels[e] /\ ins'[e] = ins[e]
        BY <1>2, <1>17 DEF Charge, SessionTyped, Goto
    <2>2. Kind(e)' = Kind(e) /\ (Replacing(e)' <=> Replacing(e))
        BY <2>1 DEF Kind, Replacing
    <2> QED BY <1>2, <2>1, <2>2 DEF RequestInv, Written, Rewriting, Dropping
<1>18. CASE Audit(e)
    <2>1. /\ pc[e] = "audit" /\ pc'[e] = "commit" /\ op'[e] = op[e]
          /\ seen'[e] = seen[e] /\ dels'[e] = dels[e] /\ ins'[e] = ins[e]
        BY <1>2, <1>18 DEF Audit, SessionTyped, Goto
    <2>2. Kind(e)' = Kind(e) /\ (Replacing(e)' <=> Replacing(e))
        BY <2>1 DEF Kind, Replacing
    <2> QED BY <1>2, <2>1, <2>2 DEF RequestInv, Written, Rewriting, Dropping
<1>19. CASE Commit(e)
    BY <1>2, <1>19, FinishKeepsInv DEF Commit
<1>20. CASE Unlink(e)
    <2>1. /\ pc[e] = "unlink" /\ pc'[e] = "done" /\ op'[e] = op[e]
          /\ seen'[e] = seen[e] /\ dels'[e] = dels[e] /\ ins'[e] = ins[e]
        BY <1>2, <1>20 DEF Unlink, SessionTyped, Goto
    <2>2. Kind(e)' = Kind(e) /\ (Replacing(e)' <=> Replacing(e))
        BY <2>1 DEF Kind, Replacing
    <2> QED BY <1>2, <2>1, <2>2 DEF RequestInv, Written, Rewriting, Dropping
<1>21. CASE DeadlockVictim(e)
    <2>1. pc[e] # "idle"
        BY <1>21 DEF DeadlockVictim, WaitsFor
    <2> QED BY <1>3, <1>21, <2>1 DEF DeadlockVictim
<1> QED BY <1>4, <1>5, <1>6, <1>7, <1>8, <1>9, <1>10, <1>11, <1>12, <1>13, <1>14, <1>15, <1>16,
       <1>17, <1>18, <1>19, <1>20, <1>21 DEF Request

-----------------------------------------------------------------------------
(* The transactions: which rows they hold *)

\* A replacement that works on what it deletes; one that has written its list.
Rewrites(e) == pc[e] \in Rewriting /\ Replacing(e)
Writes(e) == pc[e] \in Written /\ Replacing(e)

\* The request failed, or went on without a change to the rows it holds.
Ended(e) == /\ items' = items /\ op'[e] = op[e] /\ pc'[e] = "failed"
            /\ seen'[e] = {} /\ dels'[e] = {} /\ ins'[e] = {}
Stepped(e) == /\ items' = items /\ dels'[e] = dels[e] /\ ins'[e] = ins[e]
              /\ seen'[e] \in {seen[e], items, {}, View(e)}
              /\ (Rewrites(e)' <=> Rewrites(e)) /\ (Writes(e)' <=> Writes(e))

\* What a request does to the rows, in the terms of the proofs below.
LEMMA Effect ==
    ASSUME SessionInv, NEW e \in Edits, Request(e)
    PROVE  \/ DeleteItems(e) \/ ItemsDeleted(e) \/ Cascade(e) \/ Commit(e)
           \/ InsertItems(e) /\ ~InsertFails(e)
           \/ Ended(e) \/ Stepped(e)
<1>1. SessionTyped /\ RequestInv(e)
    BY DEF SessionInv, DataTyped
<1>2. ASSUME Rollback(e), items' = items
      PROVE  Ended(e)
    BY <1>1, <1>2 DEF Rollback, Finish, Goto, SessionTyped, Ended
<1>3. ASSUME items' = items, UNCHANGED <<dels, ins>>, op'[e] = op[e],
             seen'[e] = seen[e] \/ seen'[e] = View(e),
             Replacing(e) => (pc[e] \in Rewriting <=> pc'[e] \in Rewriting)
                                /\ (pc[e] \in Written <=> pc'[e] \in Written)
      PROVE  Stepped(e)
    <2>1. Replacing(e)' <=> Replacing(e)
        BY <1>3 DEF Replacing, Kind
    <2> QED BY <1>3, <2>1 DEF Stepped, Rewrites, Writes
<1>4. CASE Begin(e)
    <2>1. pc[e] = "idle" /\ pc'[e] \in {"usage", "validate"}
        BY <1>1, <1>4 DEF Begin, SessionTyped, Goto
    <2>2. ~Rewrites(e) /\ ~Rewrites(e)' /\ ~Writes(e) /\ ~Writes(e)'
        BY <2>1 DEF Rewrites, Writes, Rewriting, Written
    <2>3. seen'[e] = items \/ seen'[e] = {}
        BY <1>1, <1>4 DEF Begin, SessionTyped
    <2> QED BY <1>4, <2>2, <2>3 DEF Begin, Stepped, db
<1>5. CASE Validate(e)
    <2>1. CASE ~Rollback(e)
        <3>1. /\ items' = items /\ UNCHANGED <<dels, ins>> /\ op'[e] = op[e]
              /\ (seen'[e] = seen[e] \/ seen'[e] = View(e))
            BY <1>1, <1>5, <2>1 DEF Validate, SessionTyped, db
        <3>2. Replacing(e) => (pc[e] \in Rewriting <=> pc'[e] \in Rewriting)
                                /\ (pc[e] \in Written <=> pc'[e] \in Written)
            BY <1>1, <1>5, <2>1 DEF Validate, SessionTyped, Goto, RequestInv, Replacing,
               Rewriting, Written
        <3> QED BY <1>3, <3>1, <3>2
    <2> QED BY <1>2, <1>5, <2>1 DEF Validate, db
<1>6. CASE InsertItems(e)
    BY <1>2, <1>6 DEF InsertItems, db
<1>7. CASE FetchItems(e)
    <2>1. CASE ~Rollback(e)
        <3>1. /\ items' = items /\ UNCHANGED <<dels, ins>> /\ op'[e] = op[e]
              /\ (seen'[e] = seen[e] \/ seen'[e] = View(e))
            BY <1>1, <1>7, <2>1 DEF FetchItems, SessionTyped, db
        <3>2. Replacing(e) => (pc[e] \in Rewriting <=> pc'[e] \in Rewriting)
                                /\ (pc[e] \in Written <=> pc'[e] \in Written)
            BY <1>1, <1>7, <2>1 DEF FetchItems, SessionTyped, Goto, RequestInv, Replacing,
               Rewriting, Written
        <3> QED BY <1>3, <3>1, <3>2
    <2> QED BY <1>2, <1>7, <2>1 DEF FetchItems, db
<1>8. CASE ApplySwap(e)
    <2>1. CASE ~Rollback(e)
        <3>1. /\ items' = items /\ UNCHANGED <<dels, ins>> /\ op'[e] = op[e]
              /\ (seen'[e] = seen[e] \/ seen'[e] = View(e))
            BY <1>1, <1>8, <2>1 DEF ApplySwap, SessionTyped, db
        <3>2. Replacing(e) => (pc[e] \in Rewriting <=> pc'[e] \in Rewriting)
                                /\ (pc[e] \in Written <=> pc'[e] \in Written)
            BY <1>1, <1>8, <2>1 DEF ApplySwap, SessionTyped, Goto, RequestInv, Replacing,
               Rewriting, Written
        <3> QED BY <1>3, <3>1, <3>2
    <2> QED BY <1>2, <1>8, <2>1 DEF ApplySwap, db
<1>9. CASE ApplyRestart(e)
    <2>1. CASE ~Rollback(e)
        <3>1. /\ items' = items /\ UNCHANGED <<dels, ins>> /\ op'[e] = op[e]
              /\ (seen'[e] = seen[e] \/ seen'[e] = View(e))
            BY <1>1, <1>9, <2>1 DEF ApplyRestart, SessionTyped, db
        <3>2. Replacing(e) => (pc[e] \in Rewriting <=> pc'[e] \in Rewriting)
                                /\ (pc[e] \in Written <=> pc'[e] \in Written)
            BY <1>1, <1>9, <2>1 DEF ApplyRestart, SessionTyped, Goto, RequestInv, Replacing,
               Rewriting, Written
        <3> QED BY <1>3, <3>1, <3>2
    <2> QED BY <1>2, <1>9, <2>1 DEF ApplyRestart, db
<1>10. CASE ApplyEnqueue(e)
    <2>1. CASE ~Rollback(e)
        <3>1. /\ items' = items /\ UNCHANGED <<dels, ins>> /\ op'[e] = op[e]
              /\ (seen'[e] = seen[e] \/ seen'[e] = View(e))
            BY <1>1, <1>10, <2>1 DEF ApplyEnqueue, SessionTyped, db
        <3>2. Replacing(e) => (pc[e] \in Rewriting <=> pc'[e] \in Rewriting)
                                /\ (pc[e] \in Written <=> pc'[e] \in Written)
            BY <1>1, <1>10, <2>1 DEF ApplyEnqueue, SessionTyped, Goto, RequestInv, Replacing,
               Rewriting, Written
        <3> QED BY <1>3, <3>1, <3>2
    <2> QED BY <1>2, <1>10, <2>1 DEF ApplyEnqueue, db
<1>11. CASE CheckUsage(e)
    <2>1. CASE ~Rollback(e)
        <3>1. /\ items' = items /\ UNCHANGED <<dels, ins>> /\ op'[e] = op[e]
              /\ (seen'[e] = seen[e] \/ seen'[e] = View(e))
            BY <1>1, <1>11, <2>1 DEF CheckUsage, SessionTyped, db
        <3>2. Replacing(e) => (pc[e] \in Rewriting <=> pc'[e] \in Rewriting)
                                /\ (pc[e] \in Written <=> pc'[e] \in Written)
            BY <1>1, <1>11, <2>1 DEF CheckUsage, SessionTyped, Goto, RequestInv, Replacing,
               Rewriting, Written
        <3> QED BY <1>3, <3>1, <3>2
    <2> QED BY <1>2, <1>11, <2>1 DEF CheckUsage, db
<1>12. CASE ReadImpact(e)
    <2>1. /\ items' = items /\ UNCHANGED <<dels, ins>> /\ op'[e] = op[e] /\ seen'[e] = seen[e]
        BY <1>1, <1>12 DEF ReadImpact, SessionTyped, db
    <2>2. Replacing(e) => (pc[e] \in Rewriting <=> pc'[e] \in Rewriting)
                            /\ (pc[e] \in Written <=> pc'[e] \in Written)
        BY <1>1, <1>12 DEF ReadImpact, SessionTyped, Goto, RequestInv, Replacing, Rewriting,
           Written
    <2> QED BY <1>3, <2>1, <2>2
<1>13. CASE DropAsset(e)
    <2>1. /\ items' = items /\ UNCHANGED <<dels, ins>> /\ op'[e] = op[e] /\ seen'[e] = seen[e]
        BY <1>1, <1>13 DEF DropAsset, SessionTyped, db
    <2>2. Replacing(e) => (pc[e] \in Rewriting <=> pc'[e] \in Rewriting)
                            /\ (pc[e] \in Written <=> pc'[e] \in Written)
        BY <1>1, <1>13 DEF DropAsset, SessionTyped, Goto, RequestInv, Replacing, Rewriting,
           Written
    <2> QED BY <1>3, <2>1, <2>2
<1>14. CASE Charge(e)
    <2>1. /\ items' = items /\ UNCHANGED <<dels, ins>> /\ op'[e] = op[e] /\ seen'[e] = seen[e]
        BY <1>1, <1>14 DEF Charge, SessionTyped, db
    <2>2. Replacing(e) => (pc[e] \in Rewriting <=> pc'[e] \in Rewriting)
                            /\ (pc[e] \in Written <=> pc'[e] \in Written)
        BY <1>1, <1>14 DEF Charge, SessionTyped, Goto, RequestInv, Replacing, Rewriting, Written
    <2> QED BY <1>3, <2>1, <2>2
<1>15. CASE Audit(e)
    <2>1. /\ items' = items /\ UNCHANGED <<dels, ins>> /\ op'[e] = op[e] /\ seen'[e] = seen[e]
        BY <1>1, <1>15 DEF Audit, SessionTyped, db
    <2>2. Replacing(e) => (pc[e] \in Rewriting <=> pc'[e] \in Rewriting)
                            /\ (pc[e] \in Written <=> pc'[e] \in Written)
        BY <1>1, <1>15 DEF Audit, SessionTyped, Goto, RequestInv, Replacing, Rewriting, Written
    <2> QED BY <1>3, <2>1, <2>2
<1>16. CASE Unlink(e)
    <2>1. /\ items' = items /\ UNCHANGED <<dels, ins>> /\ op'[e] = op[e] /\ seen'[e] = seen[e]
        BY <1>1, <1>16 DEF Unlink, SessionTyped, db
    <2>2. Replacing(e) => (pc[e] \in Rewriting <=> pc'[e] \in Rewriting)
                            /\ (pc[e] \in Written <=> pc'[e] \in Written)
        BY <1>1, <1>16 DEF Unlink, SessionTyped, Goto, RequestInv, Replacing, Rewriting, Written
    <2> QED BY <1>3, <2>1, <2>2
<1>17. CASE DeadlockVictim(e)
    BY <1>2, <1>17 DEF DeadlockVictim, db
<1> QED BY <1>4, <1>5, <1>6, <1>7, <1>8, <1>9, <1>10, <1>11, <1>12, <1>13, <1>14, <1>15, <1>16,
       <1>17 DEF Request

\* An answered request does nothing more, and one whose deletion is committed
\* only removes the file.
LEMMA AnsweredStays ==
    ASSUME SessionInv, NEW e \in Edits, Request(e)
    PROVE  /\ pc[e] \notin {"done", "failed"}
           /\ pc[e] = "unlink" => pc'[e] = "done" /\ op'[e] = op[e]
<1>1. pc[e] \notin {"done", "failed"}
    BY DEF Request, WaitsFor, Begin, Validate, DeleteItems, ItemsDeleted, InsertItems,
       FetchItems, ApplySwap, ApplyRestart, ApplyEnqueue, CheckUsage, ReadImpact, DropAsset,
       Cascade, Charge, Audit, Commit, Unlink, DeadlockVictim
<1>2. ASSUME pc[e] = "unlink"
      PROVE  Unlink(e)
    BY <1>2 DEF Request, WaitsFor, Begin, Validate, DeleteItems, ItemsDeleted, InsertItems,
       FetchItems, ApplySwap, ApplyRestart, ApplyEnqueue, CheckUsage, ReadImpact, DropAsset,
       Cascade, Charge, Audit, Commit, DeadlockVictim
<1>3. Unlink(e) => pc'[e] = "done" /\ op'[e] = op[e]
    BY DEF Unlink, Goto, SessionInv, DataTyped, SessionTyped
<1> QED BY <1>1, <1>2, <1>3

-----------------------------------------------------------------------------
(* The rows of the collection *)

\* The row is the first list's or a committed request's.
Settled(r) == r.by = None \/ (r.by \in Edits /\ pc[r.by] = "done")

\* The row is part of a list, and not of an enqueue.
Base(r) == r.by = None \/ Replacing(r.by)

\* The rows that are seen and deleted are those of requests that have ended ...
SettledInv ==
    /\ \A r \in items : Settled(r)
    /\ \A e \in Edits : \A r \in dels[e] : Settled(r)

\* ... and a replacement that saw one row of a request saw them all.
SeenTogether ==
    \A e \in Edits : Rewrites(e) =>
        \A t \in dels[e], r \in items : r.by = t.by => r \in dels[e]

\* No two transactions hold a new list, for both would have a first row.
OneWriter == \A e, f \in Edits : Writes(e) /\ Writes(f) => e = f

\* Until a deletion commits, the collection has a first row and the rows of one
\* list only, and a transaction with a new list has deleted all of them.
NoDeletion == \A e \in Edits : pc[e] \in {"unlink", "done"} => Kind(e) # "delete"
ListInv ==
    NoDeletion =>
        /\ \E r \in items : Base(r) /\ r.pos = 1
        /\ \A r, t \in items : Base(r) /\ Base(t) => r.by = t.by
        /\ \A e \in Edits : Writes(e) => \A r \in items : Base(r) => r \in dels[e]

LEMMA SettledStays ==
    ASSUME SessionInv, NEW e \in Edits, Request(e), NEW r, Settled(r)
    PROVE  Settled(r)' /\ (Base(r)' <=> Base(r)) /\ r.by # e
<1>1. pc[e] # "done" /\ None \notin Edits
    BY AnsweredStays, PlayoutAssumption
<1>2. r.by # e
    BY <1>1 DEF Settled
<1>3. r.by \in Edits => Kept(r.by)
    BY <1>2, OthersKept DEF SessionInv
<1> QED BY <1>1, <1>2, <1>3 DEF Settled, Base, Kept, Replacing, Kind

\* The new rows of a request are its own.
LEMMA OwnRows ==
    ASSUME SessionInv, NEW e \in Edits
    PROVE  /\ \A r \in ins[e] : r.by = e
           /\ Kind(e) = "delete" => ins[e] = {}
           /\ UniqueIn(ins[e])
           /\ Writes(e) => \E r \in ins[e] : r.pos = 1
<1>1. DataTyped /\ RequestInv(e)
    BY DEF SessionInv
<1>2. CASE pc[e] \in Written /\ Kind(e) # "delete"
    <2>1. pc[e] # "idle"
        BY <1>2 DEF Written
    <2>2. op[e] \in Requests /\ ins[e] = NewRows(e)
        BY <1>1, <1>2, <2>1 DEF RequestInv
    <2>3. Replacing(e) \/ Kind(e) = "enqueue"
        BY <1>2, <2>2, RequestTyped DEF Replacing, Kind
    <2> QED BY <1>1, <1>2, <2>2, <2>3, NewRowsTyped DEF Writes
<1>3. CASE ~(pc[e] \in Written /\ Kind(e) # "delete")
    <2>1. ins[e] = {} /\ ~Writes(e)
        BY <1>1, <1>3 DEF RequestInv, Writes, Replacing
    <2> QED BY <1>3, <2>1 DEF UniqueIn
<1> QED BY <1>2, <1>3

\* What a commit leaves, and where the request goes.
LEMMA CommitLeaves ==
    ASSUME SessionInv, NEW e \in Edits, Commit(e)
    PROVE  /\ items' = (items \ dels[e]) \cup ins[e]
           /\ pc[e] = "commit" /\ pc'[e] = IF Kind(e) = "delete" THEN "unlink" ELSE "done"
           /\ op'[e] = op[e] /\ dels'[e] = {} /\ ins'[e] = {} /\ seen'[e] = {}
BY DEF Commit, Finish, Goto, SessionInv, DataTyped, SessionTyped

\* A request deletes rows it held before or that are in the collection.
LEMMA DelsFrom ==
    ASSUME SessionInv, NEW e \in Edits, Request(e)
    PROVE  dels'[e] \subseteq dels[e] \cup items
<1>1. SessionTyped
    BY DEF SessionInv, DataTyped
<1>2. DeleteItems(e) => dels'[e] = items
    BY <1>1 DEF DeleteItems, SessionTyped
<1>3. ItemsDeleted(e) => dels'[e] = dels[e] \cap items
    BY <1>1 DEF ItemsDeleted, SessionTyped
<1>4. Cascade(e) => dels'[e] \subseteq items
    BY <1>1 DEF Cascade, ItemsOf, SessionTyped
<1>5. InsertItems(e) /\ ~InsertFails(e) => dels'[e] = dels[e]
    BY DEF InsertItems
<1> QED BY <1>2, <1>3, <1>4, <1>5, Effect, CommitLeaves DEF Ended, Stepped

LEMMA SettledStep ==
    ASSUME SessionInv, SettledInv, NEW e \in Edits, Request(e)
    PROVE  SettledInv'
<1>1. ASSUME NEW r \in items'
      PROVE  Settled(r)'
    <2>1. CASE r \in items
        BY <2>1, SettledStays DEF SettledInv
    <2>2. CASE r \notin items
        <3>1. Commit(e)
            BY <2>2, ItemsKept
        <3>2. r \in ins[e]
            BY <2>2, <3>1, CommitLeaves
        <3>3. r.by = e /\ Kind(e) # "delete"
            BY <3>2, OwnRows
        <3> QED BY <3>1, <3>3, CommitLeaves DEF Settled
    <2> QED BY <2>1, <2>2
<1>2. ASSUME NEW f \in Edits, NEW r \in dels'[f]
      PROVE  Settled(r)'
    <2>1. r \in dels[f] \cup items
        <3>1. CASE f = e
            BY <3>1, DelsFrom
        <3>2. CASE f # e
            BY <3>2, OthersKept DEF SessionInv, Kept
        <3> QED BY <3>1, <3>2
    <2>2. Settled(r)
        BY <2>1 DEF SettledInv
    <2> QED BY <2>2, SettledStays
<1> QED BY <1>1, <1>2 DEF SettledInv

LEMMA SeenTogetherStep ==
    ASSUME SessionInv, SettledInv, SeenTogether, NEW e \in Edits, Request(e)
    PROVE  SeenTogether'
<1> SUFFICES ASSUME NEW f \in Edits, Rewrites(f)', NEW t \in dels'[f], NEW r \in items',
                    r.by = t.by
             PROVE  r \in dels'[f]
    BY DEF SeenTogether
<1>1. SessionTyped
    BY DEF SessionInv, DataTyped
<1>2. CASE f # e
    <2>1. dels'[f] = dels[f] /\ Rewrites(f)
        BY <1>2, OthersKept DEF SessionInv, Kept, Rewrites, Replacing, Kind
    <2>2. CASE r \in items
        BY <2>1, <2>2 DEF SeenTogether
    <2>3. CASE r \notin items
        <3>1. Commit(e)
            BY <2>3, ItemsKept
        <3>2. r \in ins[e]
            BY <2>3, <3>1, CommitLeaves
        <3>3. r.by = e
            BY <3>2, OwnRows
        <3>4. t.by # e
            BY <2>1, SettledStays DEF SettledInv
        <3> QED BY <3>3, <3>4
    <2> QED BY <2>2, <2>3
<1>3. CASE f = e
    <2>1. CASE DeleteItems(e)
        BY <1>1, <1>3, <2>1 DEF DeleteItems, SessionTyped, db
    <2>2. CASE ItemsDeleted(e)
        <3>1. pc[e] = "deleting" /\ items' = items /\ dels'[e] = dels[e] \cap items
              /\ op'[e] = op[e]
            BY <1>1, <2>2 DEF ItemsDeleted, SessionTyped, db
        <3>2. Rewrites(e)
            BY <1>3, <3>1 DEF Rewrites, Rewriting, Replacing, Kind
        <3> QED BY <1>3, <3>1, <3>2 DEF SeenTogether
    <2>3. CASE Cascade(e)
        <3>1. Kind(e) = "delete" /\ op'[e] = op[e]
            BY <2>3 DEF SessionInv, RequestInv, Cascade
        <3>2. ~Replacing(e)'
            BY <3>1 DEF Replacing, Kind
        <3> QED BY <1>3, <3>2 DEF Rewrites
    <2>4. CASE Commit(e)
        BY <1>3, <2>4, CommitLeaves
    <2>5. CASE InsertItems(e) /\ ~InsertFails(e)
        <3>1. pc[e] = "insert" /\ items' = items /\ dels'[e] = dels[e] /\ op'[e] = op[e]
            BY <2>5 DEF InsertItems, db
        <3>2. Rewrites(e)
            BY <1>3, <3>1 DEF Rewrites, Rewriting, Replacing, Kind
        <3> QED BY <1>3, <3>1, <3>2 DEF SeenTogether
    <2>6. CASE Ended(e)
        BY <1>3, <2>6 DEF Ended
    <2>7. CASE Stepped(e)
        BY <1>3, <2>7 DEF Stepped, SeenTogether
    <2> QED BY <2>1, <2>2, <2>3, <2>4, <2>5, <2>6, <2>7, Effect
<1> QED BY <1>2, <1>3

\* A request that newly holds a list has just inserted it.
LEMMA WritesFrom ==
    ASSUME SessionInv, NEW e \in Edits, Request(e), NEW f \in Edits, Writes(f)'
    PROVE  Writes(f) \/ (f = e /\ InsertItems(e) /\ ~InsertFails(e) /\ Rewrites(e))
<1>1. CASE f # e
    BY <1>1, OthersKept DEF SessionInv, Kept, Writes, Replacing, Kind
<1>2. CASE f = e
    <2>1. CASE DeleteItems(e) \/ ItemsDeleted(e) \/ Cascade(e)
        <3>1. pc'[e] \in {"deleting", "insert", "charge"}
            BY <2>1 DEF DeleteItems, ItemsDeleted, Cascade, Goto, SessionInv, DataTyped,
               SessionTyped
        <3> QED BY <1>2, <3>1 DEF Writes, Written
    <2>2. CASE Commit(e)
        BY <1>2, <2>2, CommitLeaves DEF Writes, Written
    <2>3. CASE InsertItems(e) /\ ~InsertFails(e)
        <3>1. pc[e] = "insert" /\ op'[e] = op[e]
            BY <2>3 DEF InsertItems
        <3>2. Rewrites(e)
            BY <1>2, <3>1 DEF Writes, Rewrites, Rewriting, Replacing, Kind
        <3> QED BY <1>2, <2>3, <3>2
    <2>4. CASE Ended(e)
        BY <1>2, <2>4 DEF Ended, Writes, Written
    <2>5. CASE Stepped(e)
        BY <1>2, <2>5 DEF Stepped
    <2> QED BY <2>1, <2>2, <2>3, <2>4, <2>5, Effect
<1> QED BY <1>1, <1>2

\* What an INSERT finds when it neither waits nor fails.
LEMMA InsertFinds ==
    ASSUME SessionInv, NEW e \in Edits, InsertItems(e), ~InsertFails(e)
    PROVE  /\ pc[e] = "insert" /\ items' = items
           /\ op'[e] = op[e] /\ seen'[e] = seen[e] /\ dels'[e] = dels[e]
           /\ ins'[e] = NewRows(e)
           /\ \A r \in NewRows(e) : \A f \in Edits \ {e} : \A t \in ins[f] : ~Clash(r, t)
           /\ \A r \in NewRows(e) : \A t \in items \ dels[e] : ~Clash(r, t)
           /\ UniqueIn(NewRows(e))
           /\ Replacing(e) => \E r \in NewRows(e) : r.pos = 1
<1>1. /\ pc[e] = "insert" /\ items' = items
      /\ op'[e] = op[e] /\ seen'[e] = seen[e] /\ dels'[e] = dels[e]
    BY DEF InsertItems, db
<1>2. ins'[e] = NewRows(e)
    BY DEF InsertItems, SessionInv, DataTyped, SessionTyped
<1>3. ASSUME NEW r \in NewRows(e), NEW f \in Edits \ {e}, NEW t \in ins[f], Clash(r, t)
      PROVE  FALSE
    <2>1. f \in InsertWaits(e)
        BY <1>3 DEF InsertWaits
    <2> QED BY <2>1 DEF InsertItems
<1>4. \A r \in NewRows(e) : \A t \in items \ dels[e] : ~Clash(r, t)
    BY DEF InsertFails
<1>5. op[e] \in Requests /\ (Replacing(e) \/ Kind(e) = "enqueue")
    BY <1>1 DEF SessionInv, RequestInv
<1>6. UniqueIn(NewRows(e)) /\ (Replacing(e) => \E r \in NewRows(e) : r.pos = 1)
    BY <1>5, NewRowsTyped DEF SessionInv
<1> QED BY <1>1, <1>2, <1>3, <1>4, <1>6

LEMMA OneWriterStep ==
    ASSUME SessionInv, OneWriter, NEW e \in Edits, Request(e)
    PROVE  OneWriter'
<1>1. ASSUME NEW f \in Edits, f # e, Writes(f), InsertItems(e), ~InsertFails(e), Rewrites(e)
      PROVE  FALSE
    <2>1. PICK t \in ins[f] : t.pos = 1
        BY <1>1, OwnRows
    <2>2. PICK r \in NewRows(e) : r.pos = 1
        BY <1>1, InsertFinds DEF Rewrites
    <2> QED BY <1>1, <2>1, <2>2, InsertFinds DEF Clash
<1> QED BY <1>1, WritesFrom DEF OneWriter

\* The step of ListInv: a list is inserted only when the first row of the
\* collection is among the rows the request deletes, which are then all of them.
LEMMA ListStep ==
    ASSUME SessionInv, SettledInv, SeenTogether, OneWriter, ListInv,
           NEW e \in Edits, Request(e)
    PROVE  ListInv'
<1> SUFFICES ASSUME NoDeletion'
             PROVE  /\ \E r \in items' : Base(r)' /\ r.pos = 1
                    /\ \A r, t \in items' : Base(r)' /\ Base(t)' => r.by = t.by
                    /\ \A f \in Edits : Writes(f)' => \A r \in items' : Base(r)' => r \in dels'[f]
    BY DEF ListInv
<1>1. NoDeletion
    <2> SUFFICES ASSUME NEW f \in Edits, pc[f] \in {"unlink", "done"}
                 PROVE  Kind(f) # "delete"
        BY DEF NoDeletion
    <2>1. pc'[f] \in {"unlink", "done"} /\ op'[f] = op[f]
        BY AnsweredStays, OthersKept DEF SessionInv, Kept
    <2> QED BY <2>1 DEF NoDeletion, Kind
<1>2. /\ \E r \in items : Base(r) /\ r.pos = 1
      /\ \A r, t \in items : Base(r) /\ Base(t) => r.by = t.by
      /\ \A f \in Edits : Writes(f) => \A r \in items : Base(r) => r \in dels[f]
    BY <1>1 DEF ListInv
<1>3. \A r \in items : (Base(r)' <=> Base(r)) /\ r.by # e
    BY SettledStays DEF SettledInv
<1>4. CASE ~Commit(e)
    <2>1. items' = items
        BY <1>4, ItemsKept
    <2>2. ASSUME NEW f \in Edits, Writes(f)', NEW r \in items, Base(r)
          PROVE  r \in dels'[f]
        <3>1. CASE f = e /\ InsertItems(e) /\ ~InsertFails(e) /\ Rewrites(e)
            <4>1. PICK first \in items : Base(first) /\ first.pos = 1
                BY <1>2
            <4>2. first \in dels[e]
                <5>1. Replacing(e) /\ InsertItems(e) /\ ~InsertFails(e)
                    BY <3>1 DEF Rewrites
                <5>2. PICK row \in NewRows(e) : row.pos = 1
                    BY <5>1, InsertFinds
                <5>3. \A t \in items \ dels[e] : ~Clash(row, t)
                    BY <5>1, InsertFinds
                <5> QED BY <4>1, <5>2, <5>3 DEF Clash
            <4>3. r.by = first.by
                BY <1>2, <2>2, <4>1
            <4>4. r \in dels[e]
                BY <3>1, <4>2, <4>3 DEF SeenTogether
            <4> QED BY <3>1, <4>4, InsertFinds
        <3>2. CASE Writes(f)
            <4>1. r \in dels[f]
                BY <1>2, <2>2, <3>2
            <4>2. CASE f # e
                BY <4>1, <4>2, OthersKept DEF SessionInv, Kept
            <4>3. CASE f = e
                <5>1. pc[e] \in Written /\ Replacing(e)
                    BY <3>2, <4>3 DEF Writes
                <5>2. ~DeleteItems(e) /\ ~ItemsDeleted(e) /\ ~Cascade(e) /\ ~InsertItems(e)
                    BY <5>1 DEF Written, DeleteItems, ItemsDeleted, Cascade, InsertItems
                <5>3. ~Ended(e)
                    BY <2>2, <4>3 DEF Ended, Writes, Written
                <5>4. Stepped(e)
                    BY <1>4, <5>2, <5>3, Effect
                <5> QED BY <4>1, <4>3, <5>4 DEF Stepped
            <4> QED BY <4>2, <4>3
        <3> QED BY <2>2, <3>1, <3>2, WritesFrom
    <2> QED BY <1>2, <1>3, <2>1, <2>2
<1>5. CASE Commit(e)
    <2>1. /\ items' = (items \ dels[e]) \cup ins[e] /\ pc[e] = "commit"
          /\ op'[e] = op[e] /\ pc'[e] = IF Kind(e) = "delete" THEN "unlink" ELSE "done"
        BY <1>5, CommitLeaves
    <2>2. Kind(e) # "delete"
        BY <2>1 DEF NoDeletion, Kind
    <2>3. op[e] \in Requests /\ \A r \in ins[e] : r.by = e
        BY <2>1, OwnRows DEF SessionInv, RequestInv
    <2>4. Replacing(e)' <=> Replacing(e)
        BY <2>1 DEF Replacing, Kind
    <2>5. e # None
        BY PlayoutAssumption
    <2>6. CASE Replacing(e)
        <3>1. Writes(e)
            BY <2>1, <2>6 DEF Writes, Written
        <3>2. \A r \in items' : Base(r)' => r \in ins[e]
            BY <1>2, <1>3, <2>1, <3>1
        <3>3. \E r \in ins[e] : r.pos = 1
            BY <3>1, OwnRows
        <3>4. \A r \in ins[e] : Base(r)'
            BY <2>3, <2>4, <2>6 DEF Base
        <3>5. \A f \in Edits : ~Writes(f)'
            <4> SUFFICES ASSUME NEW f \in Edits, Writes(f)' PROVE FALSE
                OBVIOUS
            <4>1. ~InsertItems(e)
                BY <2>1 DEF InsertItems
            <4>2. Writes(f)
                BY <4>1, WritesFrom
            <4>3. f = e
                BY <3>1, <4>2 DEF OneWriter
            <4> QED BY <2>1, <2>2, <4>3 DEF Writes, Written
        <3> QED BY <2>1, <2>3, <3>2, <3>3, <3>4, <3>5
    <2>7. CASE ~Replacing(e)
        <3>1. dels[e] = {}
            BY <2>2, <2>7 DEF SessionInv, RequestInv
        <3>2. \A r \in ins[e] : ~Base(r)'
            BY <2>3, <2>4, <2>5, <2>7 DEF Base
        <3>3. ASSUME NEW f \in Edits, Writes(f)'
              PROVE  Writes(f) /\ dels'[f] = dels[f]
            <4>1. ~InsertItems(e)
                BY <2>1 DEF InsertItems
            <4>2. Writes(f)
                BY <3>3, <4>1, WritesFrom
            <4>3. f # e
                BY <2>7, <4>2 DEF Writes
            <4> QED BY <4>2, <4>3, OthersKept DEF SessionInv, Kept
        <3> QED BY <1>2, <1>3, <2>1, <3>1, <3>2, <3>3
    <2> QED BY <2>6, <2>7
<1> QED BY <1>4, <1>5

-----------------------------------------------------------------------------
(* Unique positions and assets *)

\* No two rows clash in the collection, in what a transaction sees of it and in
\* what a request read; rows that are not committed clash with no others.
UniqueInv ==
    /\ UniqueIn(items)
    /\ \A e \in Edits : UniqueIn(View(e)) /\ UniqueIn(seen[e])
    /\ \A e, f \in Edits : e # f => \A r \in ins[e], t \in ins[f] : ~Clash(r, t)

LEMMA UniqueStep ==
    ASSUME SessionInv, UniqueInv, NEW e \in Edits, Request(e)
    PROVE  UniqueInv'
<1>1. SessionTyped /\ RequestInv(e)
    BY DEF SessionInv, DataTyped
<1>2. ASSUME DeleteItems(e) \/ ItemsDeleted(e) \/ Cascade(e)
      PROVE  items' = items /\ ins[e] = {} /\ ins'[e] = {} /\ seen'[e] = seen[e]
    <2>1. items' = items /\ ins'[e] = ins[e] /\ seen'[e] = seen[e]
        BY <1>2 DEF DeleteItems, ItemsDeleted, Cascade, db
    <2>2. pc[e] \notin Written
        BY <1>2 DEF DeleteItems, ItemsDeleted, Cascade, Written
    <2> QED BY <1>1, <2>1, <2>2 DEF RequestInv
<1>3. UniqueIn(items')
    <2>1. CASE Commit(e)
        BY <2>1, CommitLeaves DEF UniqueInv, View
    <2>2. CASE ~Commit(e)
        BY <2>2, ItemsKept DEF UniqueInv
    <2> QED BY <2>1, <2>2
<1>4. ASSUME NEW f \in Edits
      PROVE  UniqueIn(View(f)')
    <2>1. CASE f = e
        <3>1. CASE DeleteItems(e) \/ ItemsDeleted(e) \/ Cascade(e)
            BY <1>2, <2>1, <3>1 DEF UniqueInv, UniqueIn, View
        <3>2. CASE InsertItems(e) /\ ~InsertFails(e)
            BY <2>1, <3>2, InsertFinds DEF UniqueInv, UniqueIn, View, Clash
        <3>3. CASE Commit(e)
            BY <1>3, <2>1, <3>3, CommitLeaves DEF View
        <3>4. CASE Ended(e)
            BY <2>1, <3>4 DEF Ended, UniqueInv, UniqueIn, View
        <3>5. CASE Stepped(e)
            BY <2>1, <3>5 DEF Stepped, UniqueInv, View
        <3> QED BY <3>1, <3>2, <3>3, <3>4, <3>5, Effect
    <2>2. CASE f # e
        <3>1. dels'[f] = dels[f] /\ ins'[f] = ins[f]
            BY <2>2, OthersKept DEF SessionInv, Kept
        <3>2. CASE ~Commit(e)
            BY <3>1, <3>2, ItemsKept DEF UniqueInv, View
        <3>3. CASE Commit(e)
            <4>1. View(f)' \subseteq View(f) \cup View(e)
                  /\ View(f)' \subseteq View(e) \cup ins[f]
                  /\ View(f)' \subseteq View(f) \cup ins[e]
                BY <3>1, <3>3, CommitLeaves DEF View
            <4>2. UniqueIn(View(e)) /\ UniqueIn(View(f))
                  /\ \A r \in ins[e], t \in ins[f] : ~Clash(r, t)
                BY <2>2 DEF UniqueInv
            <4> SUFFICES ASSUME NEW r \in View(f)', NEW t \in View(f)', Clash(r, t)
                         PROVE  r = t
                BY DEF UniqueIn
            <4>3. Clash(t, r)
                BY DEF Clash
            <4> HIDE DEF View
            <4> QED BY <4>1, <4>2, <4>3 DEF UniqueIn
        <3> QED BY <3>2, <3>3
    <2> QED BY <2>1, <2>2
<1>5. ASSUME NEW f \in Edits
      PROVE  UniqueIn(seen'[f])
    <2>1. CASE f # e
        BY <2>1, OthersKept DEF SessionInv, Kept, UniqueInv
    <2>2. CASE f = e
        <3>1. seen'[e] \in {seen[e], items, {}, View(e)}
            BY <1>2, Effect, InsertFinds, CommitLeaves DEF Ended, Stepped
        <3>2. UniqueIn({})
            BY DEF UniqueIn
        <3> QED BY <2>2, <3>1, <3>2 DEF UniqueInv
    <2> QED BY <2>1, <2>2
<1>6. ASSUME NEW f \in Edits \ {e}
      PROVE  /\ ins'[f] = ins[f]
             /\ \A r \in ins'[e], t \in ins[f] : ~Clash(r, t) /\ ~Clash(t, r)
    <2>1. ins'[f] = ins[f]
        BY OthersKept DEF SessionInv, Kept
    <2>2. \A r \in ins[e], t \in ins[f] : ~Clash(r, t)
        BY DEF UniqueInv
    <2>3. \A r \in ins'[e], t \in ins[f] : ~Clash(r, t)
        <3>1. CASE InsertItems(e) /\ ~InsertFails(e)
            BY <3>1, InsertFinds
        <3>2. CASE ~(InsertItems(e) /\ ~InsertFails(e))
            <4>1. ins'[e] \subseteq ins[e]
                BY <1>2, <3>2, Effect, CommitLeaves DEF Ended, Stepped
            <4> QED BY <2>2, <4>1
        <3> QED BY <3>1, <3>2
    <2> QED BY <2>1, <2>3 DEF Clash
<1>7. \A f, g \in Edits : f # g => \A r \in ins'[f], t \in ins'[g] : ~Clash(r, t)
    <2> SUFFICES ASSUME NEW f \in Edits, NEW g \in Edits, f # g,
                        NEW r \in ins'[f], NEW t \in ins'[g]
                 PROVE  ~Clash(r, t)
        OBVIOUS
    <2> QED BY <1>6 DEF UniqueInv
<1> QED BY <1>3, <1>4, <1>5, <1>7 DEF UniqueInv

-----------------------------------------------------------------------------
(* Deletions: the audit and the commit *)

Auditing(e) == pc[e] \in {"audit", "commit"} /\ Kind(e) = "delete"

\* The profile is charged by one deletion at a time ...
OneCharge == \A e, f \in Edits : Auditing(e) /\ Auditing(f) => e = f

\* ... and what the audit found left of the collection stays until the commit.
AuditInv ==
    \A e \in Edits :
        pc[e] = "commit" /\ Kind(e) = "delete" /\ impacted[e] /\ ~depleted[e]
            => items \ dels[e] # {}

LEMMA AuditingFrom ==
    ASSUME SessionInv, NEW e \in Edits, Request(e), Auditing(e)'
    PROVE  Charge(e) \/ Audit(e)
<1>1. RequestInv(e) /\ SessionTyped
    BY DEF SessionInv, DataTyped
<1>2. pc'[e] \in {"audit", "commit"}
    BY DEF Auditing
<1>3. CASE InsertItems(e) \/ ApplySwap(e) \/ ApplyRestart(e) \/ ApplyEnqueue(e)
    <2>1. Replacing(e) \/ Kind(e) = "enqueue"
        BY <1>1, <1>3 DEF RequestInv, InsertItems, ApplySwap, ApplyRestart, ApplyEnqueue
    <2>2. op' = op
        BY <1>3 DEF InsertItems, ApplySwap, ApplyRestart, ApplyEnqueue, Rollback, Finish
    <2> QED BY <2>1, <2>2 DEF Auditing, Replacing, Kind
<1>4. CASE Begin(e)
    BY <1>1, <1>2, <1>4 DEF Begin, Goto, SessionTyped
<1>5. CASE DeleteItems(e) \/ ItemsDeleted(e) \/ ReadImpact(e) \/ DropAsset(e) \/ Cascade(e)
              \/ Unlink(e) \/ Commit(e) \/ DeadlockVictim(e)
    <2>1. pc'[e] \in {"deleting", "insert", "drop", "cascade", "charge", "done", "unlink", "failed"}
        BY <1>1, <1>5 DEF DeleteItems, ItemsDeleted, ReadImpact, DropAsset, Cascade, Unlink,
           Commit, DeadlockVictim, Rollback, Finish, Goto, SessionTyped
    <2> QED BY <1>2, <2>1
<1>6. CASE Validate(e) \/ FetchItems(e) \/ CheckUsage(e)
    <2>1. pc'[e] \in {"delete", "insert", "apply", "impact", "failed"}
        BY <1>1, <1>6 DEF Validate, FetchItems, CheckUsage, Rollback, Finish, Goto, SessionTyped
    <2> QED BY <1>2, <2>1
<1> QED BY <1>3, <1>4, <1>5, <1>6 DEF Request

LEMMA OneChargeStep ==
    ASSUME SessionInv, OneCharge, NEW e \in Edits, Request(e)
    PROVE  OneCharge'
<1>1. \A f \in Edits \ {e} : Auditing(f)' <=> Auditing(f)
    BY OthersKept DEF SessionInv, Kept, Auditing, Kind
<1>2. ASSUME NEW f \in Edits \ {e}, Auditing(f), Auditing(e)'
      PROVE  FALSE
    <2>1. CASE Charge(e)
        BY <1>2, <2>1 DEF Charge, Charging, Auditing
    <2>2. CASE Audit(e)
        <3>1. Auditing(e)
            BY <2>2 DEF Audit, Auditing, SessionInv, RequestInv
        <3> QED BY <1>2, <3>1 DEF OneCharge
    <2> QED BY <1>2, <2>1, <2>2, AuditingFrom
<1> QED BY <1>1, <1>2 DEF OneCharge

LEMMA AuditStep ==
    ASSUME SessionInv, SettledInv, OneCharge, AuditInv, NEW e \in Edits, Request(e)
    PROVE  AuditInv'
<1> SUFFICES ASSUME NEW f \in Edits, pc'[f] = "commit", Kind(f)' = "delete",
                    impacted'[f], ~depleted'[f]
             PROVE  items' \ dels'[f] # {}
    BY DEF AuditInv
<1>1. Auditing(f)'
    BY DEF Auditing
<1>2. CASE f = e
    <2>1. Audit(e)
        <3>1. Charge(e) => pc'[e] = "audit"
            BY DEF Charge, Goto, SessionInv, DataTyped, SessionTyped
        <3> QED BY <1>1, <1>2, <3>1, AuditingFrom
    <2>2. /\ items' = items /\ dels'[e] = dels[e] /\ impacted'[e] = impacted[e]
          /\ depleted'[e] = (impacted[e] /\ View(e) = {})
        BY <2>1 DEF Audit, db, SessionInv, DataTyped, SessionTyped
    <2>3. ins[e] = {}
        <3>1. pc[e] \notin Written
            BY <2>1 DEF Audit, Written
        <3> QED BY <3>1 DEF SessionInv, RequestInv
    <2> QED BY <1>2, <2>2, <2>3 DEF View
<1>3. CASE f # e
    <2>1. /\ pc[f] = "commit" /\ Kind(f) = "delete" /\ impacted[f] /\ ~depleted[f]
          /\ dels'[f] = dels[f]
        BY <1>3, OthersKept DEF SessionInv, Kept, Kind
    <2>2. items \ dels[f] # {}
        BY <2>1 DEF AuditInv
    <2>3. CASE ~Commit(e)
        BY <2>1, <2>2, <2>3, ItemsKept
    <2>4. CASE Commit(e)
        <3>1. items' = (items \ dels[e]) \cup ins[e] /\ pc[e] = "commit"
            BY <2>4, CommitLeaves
        <3>2. Kind(e) # "delete"
            BY <1>3, <2>1, <3>1 DEF OneCharge, Auditing
        <3>3. CASE Replacing(e)
            <4>1. PICK r \in ins[e] : r.by = e
                BY <3>1, <3>3, OwnRows DEF Writes, Written
            <4>2. r \notin dels[f]
                BY <4>1, SettledStays DEF SettledInv
            <4> QED BY <2>1, <3>1, <4>2
        <3>4. CASE ~Replacing(e)
            <4>1. dels[e] = {}
                BY <3>2, <3>4 DEF SessionInv, RequestInv
            <4> QED BY <2>1, <2>2, <3>1, <4>1
        <3> QED BY <3>3, <3>4
    <2> QED BY <2>3, <2>4
<1> QED BY <1>2, <1>3

-----------------------------------------------------------------------------
(* The running stream *)

Links == Assets \cup {None}

RuntimeTyped ==
    /\ live \in BOOLEAN /\ loop \in BOOLEAN /\ shuffle \in BOOLEAN /\ ticking \in BOOLEAN
    /\ assigned \in Seq(Links) /\ Len(assigned) <= MaxSlots
    /\ slot \in Seq(Links) /\ Len(slot) = Len(assigned)
    /\ queue \in Seq(Assets)
    /\ live => head \in DOMAIN assigned
    /\ launches \in 0..MaxLaunches

LEMMA SubSeqTyped ==
    ASSUME NEW S, NEW s \in Seq(S), NEW m \in Nat \ {0}, NEW n \in 0..Len(s)
    PROVE  /\ SubSeq(s, m, n) \in Seq(S)
           /\ Len(SubSeq(s, m, n)) = IF m <= n THEN n - m + 1 ELSE 0
<1>1. \A i \in m..n : s[i] \in S
    OBVIOUS
<1> QED BY <1>1, SubSeqProperties

\* A launch of a collection that is not empty.
LEMMA LaunchedTyped ==
    ASSUME NEW rows \in RowSets, UniqueIn(rows), rows # {}, Launched(rows),
           launches' \in 0..MaxLaunches
    PROVE  RuntimeTyped'
<1> DEFINE list == AssetsOf(rows)
           count == SlotCount(Len(list))
<1>1. list \in Seq(Assets) /\ Len(list) \in Nat \ {0}
    <2>1. list \in Seq(Assets) /\ Len(list) = Cardinality(rows)
        BY AssetsOfTyped DEF RowSets
    <2>2. Cardinality(rows) # 0
        BY FS_EmptySet DEF RowSets
    <2> QED BY <2>1, <2>2
<1>2. count \in 1..Len(list) /\ count <= MaxSlots
    BY <1>1, PlayoutAssumption DEF SlotCount
<1>3. /\ live' = TRUE /\ head' = 1 /\ ticking' = TRUE
      /\ slot' = SubSeq(list, 1, count) /\ assigned' = [i \in 1..count |-> None]
      /\ queue' = IF SubSeq(list, count + 1, Len(list)) # <<>>
                  THEN SubSeq(list, count + 1, Len(list)) ELSE list
    BY DEF Launched
<1>4. loop' \in BOOLEAN /\ shuffle' \in BOOLEAN
    BY DEF Launched, Loops, Shuffles
<1> HIDE DEF list, count
<1>5. slot' \in Seq(Assets) /\ Len(slot') = count
    BY <1>1, <1>2, <1>3, SubSeqTyped
<1>6. queue' \in Seq(Assets)
    BY <1>1, <1>2, <1>3, SubSeqTyped
<1>7. assigned' \in Seq(Links) /\ Len(assigned') = count /\ DOMAIN assigned' = 1..count
    BY <1>2, <1>3 DEF Links
<1> QED BY <1>2, <1>3, <1>4, <1>5, <1>6, <1>7 DEF RuntimeTyped, Links

\* An asset for the running stream: the empty slots take what they can.
LEMMA EnqueuedTyped ==
    ASSUME RuntimeTyped, files \subseteq Assets, NEW asset \in Assets, Enqueued(asset)
    PROVE  RuntimeTyped'
<1> DEFINE all == Append(queue, asset)
           empty == {i \in DOMAIN assigned : assigned[i] = None}
           upto(i) == {j \in empty : j <= i}
<1>1. all \in Seq(Assets) /\ DOMAIN assigned = 1..Len(assigned) /\ Len(assigned) \in Nat
    BY DEF RuntimeTyped
<1>2. IsFiniteSet(empty) /\ Cardinality(empty) \in Nat
    <2>1. IsFiniteSet(1..Len(assigned)) /\ empty \in SUBSET (1..Len(assigned))
        BY <1>1, FS_Interval
    <2> HIDE DEF empty
    <2>2. IsFiniteSet(empty)
        BY <2>1, FS_Subset
    <2> QED BY <2>2, FS_CardinalityType
<1>3. ASSUME NEW i \in empty
      PROVE  Cardinality(upto(i)) \in Nat \ {0}
    <2>1. upto(i) \in SUBSET empty /\ upto(i) # {}
        BY <1>1
    <2>2. IsFiniteSet(upto(i))
        BY <1>2, <2>1, FS_Subset
    <2> QED BY <2>1, <2>2, FS_CardinalityType, FS_EmptySet
<1>4. assigned' = [i \in DOMAIN assigned |->
                     IF i \in empty /\ Cardinality(upto(i)) <= Len(all)
                     THEN all[Cardinality(upto(i))] ELSE assigned[i]]
    BY DEF Enqueued, Filled
<1>5. \A i \in DOMAIN assigned : assigned'[i] \in Links
    <2> SUFFICES ASSUME NEW i \in DOMAIN assigned PROVE assigned'[i] \in Links
        OBVIOUS
    <2>1. CASE i \in empty /\ Cardinality(upto(i)) <= Len(all)
        <3>1. Cardinality(upto(i)) \in 1..Len(all)
            BY <1>1, <1>3, <2>1
        <3> HIDE DEF all, empty, upto
        <3> QED BY <1>1, <1>4, <2>1, <3>1 DEF Links
    <2>2. CASE ~(i \in empty /\ Cardinality(upto(i)) <= Len(all))
        <3>1. assigned[i] \in Links
            BY DEF RuntimeTyped
        <3> HIDE DEF all, empty, upto
        <3> QED BY <1>4, <2>2, <3>1
    <2> QED BY <2>1, <2>2
<1>6. assigned' \in Seq(Links) /\ Len(assigned') = Len(assigned)
      /\ DOMAIN assigned' = DOMAIN assigned
    <2>1. assigned' \in [1..Len(assigned) -> Links]
        <3> HIDE DEF all, empty, upto
        <3> QED BY <1>1, <1>4, <1>5
    <2> QED BY <1>1, <2>1
<1>7. slot' \in Seq(Links) /\ Len(slot') = Len(slot)
    <2>1. \A i \in DOMAIN slot : LinkTo(assigned'[i]) \in Links /\ slot[i] \in Links
        BY DEF LinkTo, Links, RuntimeTyped
    <2>2. slot' = [i \in DOMAIN slot |->
                      IF assigned'[i] # assigned[i] THEN LinkTo(assigned'[i]) ELSE slot[i]]
        BY DEF Enqueued
    <2>3. slot' \in [1..Len(slot) -> Links] /\ Len(slot) \in Nat
        BY <2>1, <2>2 DEF RuntimeTyped
    <2> QED BY <2>3
<1>8. queue' \in Seq(Assets)
    <2> DEFINE used == IF Cardinality(empty) < Len(all) THEN Cardinality(empty) ELSE Len(all)
    <2>1. queue' = SubSeq(all, used + 1, Len(all))
        BY DEF Enqueued
    <2>2. used + 1 \in Nat \ {0} /\ Len(all) \in 0..Len(all)
        BY <1>1, <1>2
    <2> HIDE DEF used, all
    <2> QED BY <1>1, <2>1, <2>2, SubSeqTyped
<1> HIDE DEF all, empty, upto
<1> QED BY <1>6, <1>7, <1>8 DEF RuntimeTyped, Enqueued

\* Another list for the running stream.
LEMMA ReplacedTyped ==
    ASSUME RuntimeTyped, files \subseteq Assets, NEW rows \in RowSets, UniqueIn(rows), Replaced(rows)
    PROVE  RuntimeTyped'
<1> DEFINE list == AssetsOf(rows)
           at(i) == IF i <= Len(list) THEN list[i] ELSE None
<1>1. list \in Seq(Assets)
    BY AssetsOfTyped DEF RowSets
<1>2. /\ assigned' = [i \in DOMAIN assigned |-> at(i)]
      /\ slot' = [i \in DOMAIN slot |-> IF at(i) = None THEN None ELSE LinkTo(at(i))]
      /\ queue' = SubSeq(list, Len(assigned) + 1, Len(list))
      /\ UNCHANGED <<live, head, ticking, launches>>
    BY DEF Replaced
<1>3. loop' \in BOOLEAN /\ shuffle' \in BOOLEAN
    BY DEF Replaced, Loops, Shuffles
<1> HIDE DEF list
<1>4. \A i \in Nat \ {0} : at(i) \in Links
    BY <1>1 DEF Links
<1> HIDE DEF at
<1>5. /\ DOMAIN assigned = 1..Len(assigned) /\ DOMAIN slot = 1..Len(slot)
      /\ Len(assigned) \in Nat /\ Len(slot) \in Nat
    BY DEF RuntimeTyped
<1>6. assigned' \in [1..Len(assigned) -> Links]
    BY <1>2, <1>4, <1>5
<1>7. slot' \in [1..Len(slot) -> Links]
    BY <1>2, <1>4, <1>5 DEF LinkTo, Links
<1>8. queue' \in Seq(Assets)
    BY <1>1, <1>2, <1>5, SubSeqTyped
<1> QED BY <1>2, <1>3, <1>5, <1>6, <1>7, <1>8 DEF RuntimeTyped

\* The playhead.
LEMMA AdvanceTyped ==
    ASSUME RuntimeTyped, files \subseteq Assets, Advance \/ AdvanceShuffled
    PROVE  RuntimeTyped'
<1>1. /\ live /\ Len(assigned) \in Nat \ {0} /\ DOMAIN assigned = 1..Len(assigned)
      /\ head \in 1..Len(assigned)
    BY DEF RuntimeTyped, Advance, AdvanceShuffled
<1>2. (head % Len(assigned)) + 1 \in 1..Len(assigned)
    BY <1>1
<1>3. CASE AdvanceShuffled
    BY <1>1, <1>2, <1>3 DEF RuntimeTyped, AdvanceShuffled, db, session
<1>4. CASE Advance
    <2> DEFINE next == Recycled(head)
               asset == IF next = <<>> THEN None ELSE next[1]
    <2>1. next \in Seq(Assets)
        BY <1>1 DEF Recycled, RuntimeTyped, Links
    <2>2. /\ queue' = IF next = <<>> THEN <<>> ELSE Tail(next)
          /\ assigned' = [assigned EXCEPT ![head] = asset]
          /\ slot' = [slot EXCEPT ![head] = LinkTo(asset)]
          /\ head' = (head % Len(assigned)) + 1
          /\ UNCHANGED <<live, loop, shuffle, ticking, launches>>
        BY <1>4 DEF Advance
    <2> HIDE DEF next
    <2>3. asset \in Links /\ LinkTo(asset) \in Links
        BY <2>1 DEF Links, LinkTo
    <2> HIDE DEF asset
    <2>4. queue' \in Seq(Assets)
        BY <2>1, <2>2, HeadTailProperties
    <2>5. assigned' \in Seq(Links) /\ Len(assigned') = Len(assigned)
        <3>1. assigned \in [1..Len(assigned) -> Links]
            BY <1>1 DEF RuntimeTyped
        <3>2. assigned' \in [1..Len(assigned) -> Links]
            BY <2>2, <2>3, <3>1
        <3> QED BY <1>1, <3>2
    <2>6. slot' \in Seq(Links) /\ Len(slot') = Len(slot)
        <3>1. slot \in [1..Len(slot) -> Links] /\ Len(slot) \in Nat
            BY DEF RuntimeTyped
        <3>2. slot' \in [1..Len(slot) -> Links]
            BY <2>2, <2>3, <3>1
        <3> QED BY <3>1, <3>2
    <2> QED BY <1>1, <1>2, <2>2, <2>4, <2>5, <2>6 DEF RuntimeTyped
<1> QED BY <1>3, <1>4

\* Requests and launches keep the runtime typed: what they hand over was read
\* from the database, and is not empty when it is launched.
LEMMA RuntimeStep ==
    ASSUME SessionInv, UniqueInv, RuntimeTyped, Next
    PROVE  RuntimeTyped'
<1>1. /\ files \subseteq Assets /\ items \in RowSets /\ UniqueIn(items)
      /\ \A e \in Edits : seen[e] \in RowSets /\ UniqueIn(seen[e])
    BY DEF SessionInv, DataTyped, SessionTyped, UniqueInv
<1>2. CASE Advance \/ AdvanceShuffled
    BY <1>1, <1>2, AdvanceTyped
<1>3. CASE Stop
    BY <1>3 DEF Stop, RuntimeTyped
<1>4. CASE Launch
    <2>1. launches' \in 0..MaxLaunches
        BY <1>4, PlayoutAssumption DEF Launch, RuntimeTyped
    <2> QED BY <1>1, <1>4, <2>1, LaunchedTyped DEF Launch
<1>5. ASSUME NEW e \in Edits, Request(e)
      PROVE  RuntimeTyped'
    <2>1. CASE ApplySwap(e)
        BY <1>1, <2>1, ReplacedTyped DEF ApplySwap, runtime, RuntimeTyped
    <2>2. CASE ApplyRestart(e)
        <3>1. CASE UNCHANGED runtime
            BY <3>1 DEF runtime, RuntimeTyped
        <3>2. CASE ~UNCHANGED runtime
            <4>1. seen[e] # {} /\ Launched(seen[e]) /\ launches' = launches
                BY <2>2, <3>2 DEF ApplyRestart
            <4> QED BY <1>1, <4>1, LaunchedTyped DEF RuntimeTyped
        <3> QED BY <3>1, <3>2
    <2>3. CASE ApplyEnqueue(e)
        <3>1. CASE UNCHANGED runtime
            BY <3>1 DEF runtime, RuntimeTyped
        <3>2. CASE ~UNCHANGED runtime
            <4>1. Enqueued(op[e].asset)
                BY <2>3, <3>2 DEF ApplyEnqueue
            <4>2. op[e].asset \in Assets
                <5>1. op[e] \in Requests /\ op[e].kind = "enqueue"
                    BY <2>3 DEF ApplyEnqueue, SessionInv, RequestInv, Kind
                <5> QED BY <5>1, RequestTyped
            <4> QED BY <1>1, <4>1, <4>2, EnqueuedTyped
        <3> QED BY <3>1, <3>2
    <2>4. CASE UNCHANGED runtime
        BY <2>4 DEF runtime, RuntimeTyped
    <2>5. ApplySwap(e) \/ ApplyRestart(e) \/ ApplyEnqueue(e) \/ UNCHANGED runtime
        BY <1>5 DEF Request, Begin, Validate, DeleteItems, ItemsDeleted, InsertItems, FetchItems,
           CheckUsage, ReadImpact, DropAsset, Cascade, Charge, Audit, Commit, Unlink, DeadlockVictim
    <2> QED BY <2>1, <2>2, <2>3, <2>4, <2>5
<1> QED BY <1>2, <1>3, <1>4, <1>5 DEF Next

-----------------------------------------------------------------------------
(* The inductive invariant *)

\* What speaks of the database and the requests, and the whole.
DatabaseInv ==
    /\ SessionInv
    /\ SettledInv /\ SeenTogether /\ OneWriter /\ ListInv
    /\ UniqueInv
    /\ OneCharge /\ AuditInv

PlayoutInv == DatabaseInv /\ RuntimeTyped

LEMMA InitPlayout == Init => PlayoutInv
<1> SUFFICES ASSUME Init PROVE PlayoutInv
    OBVIOUS
<1>1. /\ items = RowsOf(Initial, None) /\ items \in RowSets /\ UniqueIn(items)
      /\ \A r \in items : r.by = None
      /\ \E r \in items : r.pos = 1
    BY RowsOfTyped, PlayoutAssumption DEF Init, RowSets
<1>2. \A e \in Edits : /\ pc[e] = "idle" /\ seen[e] = {} /\ dels[e] = {} /\ ins[e] = {}
    BY DEF Init
<1>3. SessionInv
    <2>1. {} \in RowSets
        BY FS_EmptySet DEF RowSets
    <2>2. DataTyped
        BY <1>1, <2>1, Zenon DEF Init, DataTyped, SessionTyped, Label
    <2>3. \A e \in Edits : RequestInv(e)
        BY <1>2 DEF RequestInv, Written
    <2> QED BY <2>2, <2>3 DEF SessionInv
<1>4. RuntimeTyped
    <2> DEFINE list == AssetsOf(items)
               count == SlotCount(Len(list))
    <2>1. list \in Seq(Assets) /\ Len(list) \in Nat \ {0}
        <3>1. list \in Seq(Assets) /\ Len(list) = Cardinality(items)
            BY <1>1, AssetsOfTyped DEF RowSets
        <3>2. Cardinality(items) # 0
            BY <1>1, FS_EmptySet DEF RowSets
        <3> QED BY <3>1, <3>2
    <2>2. count \in 1..Len(list) /\ count <= MaxSlots
        BY <2>1, PlayoutAssumption DEF SlotCount
    <2>3. /\ live = TRUE /\ head = 1 /\ ticking = TRUE /\ launches = 0
          /\ slot = SubSeq(list, 1, count) /\ assigned = [i \in 1..count |-> None]
          /\ queue = IF SubSeq(list, count + 1, Len(list)) # <<>>
                     THEN SubSeq(list, count + 1, Len(list)) ELSE list
        BY DEF Init
    <2>4. loop \in BOOLEAN /\ shuffle \in BOOLEAN
        BY DEF Init, Loops, Shuffles
    <2> HIDE DEF list, count
    <2>5. slot \in Seq(Assets) /\ Len(slot) = count
        BY <2>1, <2>2, <2>3, SubSeqTyped
    <2>6. queue \in Seq(Assets)
        BY <2>1, <2>2, <2>3, SubSeqTyped
    <2>7. assigned \in Seq(Links) /\ Len(assigned) = count /\ DOMAIN assigned = 1..count
        BY <2>2, <2>3 DEF Links
    <2> QED BY <2>2, <2>3, <2>4, <2>5, <2>6, <2>7, PlayoutAssumption DEF RuntimeTyped, Links
<1>5. SettledInv /\ SeenTogether
    BY <1>1, <1>2 DEF SettledInv, Settled, SeenTogether
<1>6. OneWriter /\ OneCharge /\ AuditInv
    BY <1>2 DEF OneWriter, Writes, Written, OneCharge, Auditing, AuditInv
<1>7. ListInv
    BY <1>1, <1>2 DEF ListInv, Base, Writes, Written
<1>8. UniqueInv
    BY <1>1, <1>2 DEF UniqueInv, UniqueIn, View
<1> QED BY <1>3, <1>4, <1>5, <1>6, <1>7, <1>8 DEF PlayoutInv, DatabaseInv

LEMMA DatabaseInvKept ==
    ASSUME DatabaseInv, UNCHANGED <<db, session>>
    PROVE  DatabaseInv'
<1>1. /\ UNCHANGED <<alive, files, items, active>>
      /\ UNCHANGED <<pc, op, seen, wants, dels, ins, impacted, depleted>>
    BY DEF db, session
<1>2. \A e \in Edits : NewRows(e)' = NewRows(e) /\ View(e)' = View(e)
    BY <1>1 DEF NewRows, View, Replacing, Kind
<1>3. SessionInv'
    BY <1>1, <1>2 DEF DatabaseInv, SessionInv, DataTyped, SessionTyped, RequestInv, Replacing,
       Kind
<1>4. SettledInv' /\ SeenTogether'
    BY <1>1 DEF DatabaseInv, SettledInv, Settled, SeenTogether, Rewrites, Replacing, Kind
<1>5. OneWriter' /\ OneCharge' /\ AuditInv'
    BY <1>1 DEF DatabaseInv, OneWriter, OneCharge, AuditInv, Writes, Auditing, Replacing, Kind
<1>6. ListInv'
    BY <1>1 DEF DatabaseInv, ListInv, NoDeletion, Base, Writes, Replacing, Kind
<1>7. UniqueInv'
    BY <1>1, <1>2 DEF DatabaseInv, UniqueInv
<1> QED BY <1>3, <1>4, <1>5, <1>6, <1>7 DEF DatabaseInv

LEMMA NextPlayout == PlayoutInv /\ [Next]_vars => PlayoutInv'
<1> SUFFICES ASSUME PlayoutInv, [Next]_vars PROVE PlayoutInv'
    OBVIOUS
<1>1. SessionInv /\ UniqueInv /\ RuntimeTyped /\ DatabaseInv
    BY DEF PlayoutInv, DatabaseInv
<1>2. RuntimeTyped'
    <2>1. CASE UNCHANGED vars
        BY <1>1, <2>1 DEF vars, runtime, RuntimeTyped
    <2> QED BY <1>1, <2>1, RuntimeStep
<1>3. CASE UNCHANGED <<db, session>>
    BY <1>1, <1>2, <1>3, DatabaseInvKept DEF PlayoutInv, DatabaseInv
<1>4. ASSUME NEW e \in Edits, Request(e)
      PROVE  PlayoutInv'
    <2>1. SessionInv'
        BY <1>1, <1>4, DataStep, RequestStep DEF SessionInv
    <2>2. SettledInv' /\ SeenTogether' /\ OneWriter' /\ ListInv'
        BY <1>4, SettledStep, SeenTogetherStep, OneWriterStep, ListStep DEF PlayoutInv,
           DatabaseInv
    <2>3. UniqueInv' /\ OneCharge' /\ AuditInv'
        BY <1>4, UniqueStep, OneChargeStep, AuditStep DEF PlayoutInv, DatabaseInv
    <2> QED BY <1>2, <2>1, <2>2, <2>3 DEF PlayoutInv, DatabaseInv
<1>5. (\E e \in Edits : Request(e)) \/ UNCHANGED <<db, session>>
    BY RuntimeActs DEF Next, vars
<1> QED BY <1>3, <1>4, <1>5

-----------------------------------------------------------------------------
(* Theorems *)

\* The database, the sessions and the slot queue keep their types: slots and
\* queue hold the user's assets, and the playhead of a stream that runs is at
\* one of its slots, whatever lists the requests hand over.
THEOREM TypeCorrect == Spec => []TypeOK
<1>1. PlayoutInv => TypeOK
    BY DEF PlayoutInv, DatabaseInv, SessionInv, DataTyped, SessionTyped, RuntimeTyped, RowSets,
       Links, TypeOK
<1> QED BY <1>1, InitPlayout, NextPlayout, PTL DEF Spec

\* The unique indexes of collection_items hold of what is committed and of what
\* each open transaction sees.
THEOREM PositionsAreUnique == Spec => []UniqueInv
<1>1. PlayoutInv => UniqueInv
    BY DEF PlayoutInv, DatabaseInv
<1> QED BY <1>1, InitPlayout, NextPlayout, PTL DEF Spec

\* Two replacements never end up mixed, for any number of requests: the later
\* one inserts its first row only when it has deleted the first row of the list
\* that is there, and then it saw, and deleted, all of that list.
THEOREM ReplacementsDoNotMix == Spec => []OneEditWins
<1>1. PlayoutInv => OneEditWins
    BY DEF PlayoutInv, DatabaseInv, ListInv, NoDeletion, Base, OneEditWins
<1> QED BY <1>1, InitPlayout, NextPlayout, PTL DEF Spec

\* A deletion that empties a collection which had its asset deactivates it: the
\* lock of the profile keeps what the audit saw true until the commit.
THEOREM DeletionsNoticeDepletion == Spec => DepletionNoticed
<1> DEFINE Step == \A e \in Edits :
                      Commit(e) /\ Kind(e) = "delete" /\ impacted[e] /\ dels[e] # {} /\ items' = {}
                         => ~active'
<1>1. PlayoutInv => Step
    <2> SUFFICES ASSUME PlayoutInv, NEW e \in Edits, Commit(e), Kind(e) = "delete",
                        impacted[e], items' = {}
                 PROVE  ~active'
        OBVIOUS
    <2>1. /\ items' = (items \ dels[e]) \cup ins[e] /\ pc[e] = "commit"
          /\ active' = (active /\ ~depleted[e])
        BY DEF Commit
    <2>2. depleted[e]
        BY <2>1 DEF PlayoutInv, DatabaseInv, AuditInv
    <2> QED BY <2>1, <2>2
<1>2. PlayoutInv /\ [Next]_vars => [Step]_vars
    BY <1>1
<1>3. Spec => [][Step]_vars
    BY <1>2, InitPlayout, NextPlayout, PTL DEF Spec
<1> QED BY <1>3 DEF DepletionNoticed

\* What an enqueue handed to the running stream is in the collection when its
\* transaction commits; it cannot end in another way any more.
THEOREM EnqueuesCommit == Spec => QueuedIsCommitted
<1> DEFINE Step == \A e \in Edits : pc[e] = "commit" /\ pc'[e] # "commit" /\ Kind(e) = "enqueue"
                      => \E r \in items' : r.asset = op[e].asset
<1>1. PlayoutInv /\ [Next]_vars => Step
    <2> SUFFICES ASSUME PlayoutInv, [Next]_vars, NEW e \in Edits,
                        pc[e] = "commit", pc'[e] # "commit", Kind(e) = "enqueue"
                 PROVE  \E r \in items' : r.asset = op[e].asset
        OBVIOUS
    <2>1. SessionInv /\ DataTyped /\ RequestInv(e)
        BY DEF PlayoutInv, DatabaseInv, SessionInv
    <2>2. PICK f \in Edits : Request(f)
        <3>1. ~UNCHANGED <<db, session>>
            BY DEF session
        <3> QED BY <3>1, RuntimeActs DEF Next, vars
    <2>3. f = e
        BY <2>1, <2>2, OthersKept DEF Kept
    <2>4. Commit(e)
        BY <2>2, <2>3 DEF Request, WaitsFor, Begin, Validate, DeleteItems, ItemsDeleted,
           InsertItems, FetchItems, ApplySwap, ApplyRestart, ApplyEnqueue, CheckUsage, ReadImpact,
           DropAsset, Cascade, Charge, Audit, Unlink, DeadlockVictim
    <2>5. ins[e] = NewRows(e) /\ op[e] \in Requests
        BY <2>1 DEF RequestInv, Written
    <2>6. \E r \in NewRows(e) : r.asset = op[e].asset
        BY <2>1, <2>5, NewRowsTyped
    <2> QED BY <2>1, <2>4, <2>5, <2>6, CommitLeaves
<1>2. PlayoutInv /\ [Next]_vars => [Step]_vars
    BY <1>1
<1>3. Spec => [][Step]_vars
    BY <1>2, InitPlayout, NextPlayout, PTL DEF Spec
<1> QED BY <1>3 DEF QueuedIsCommitted
=============================================================================
