-------------------------- MODULE StateSpaceProofs --------------------------
(***************************************************************************)
(* Proofs about StateSpace: for any set of pools, cache capacity of at      *)
(* least two and bound on block numbers, a rollback the cache accepts       *)
(* restores exactly the pools as they were before the block.                *)
(***************************************************************************)
EXTENDS StateSpace, SequenceTheorems, CommonFacts, TLAPS

-----------------------------------------------------------------------------
(* The cache.                                                               *)

LEMMA RecordType ==
    ASSUME NEW cch \in Seq(StateChange), NEW i \in 1..Len(cch)
    PROVE  /\ cch[i] \in StateChange
           /\ cch[i].block_number \in Nat
           /\ cch[i].state_change \in AmmSet
<1>1. cch[i] \in StateChange
  BY ElementOfSeq
<1>2. QED BY <1>1 DEF StateChange

\* push: the record goes to the front; the rest keep their order, and a full
\* deque loses its last record only.
LEMMA PushProperties ==
    ASSUME NEW cch \in Seq(StateChange), Len(cch) <= CAP, NEW change \in StateChange
    PROVE  /\ Kept(cch) \in Seq(StateChange)
           /\ Len(Kept(cch)) = IF Len(cch) = CAP THEN CAP - 1 ELSE Len(cch)
           /\ \A i \in 1..Len(Kept(cch)) : i <= Len(cch) /\ Kept(cch)[i] = cch[i]
           /\ Push(cch, change) \in Seq(StateChange)
           /\ Len(Push(cch, change)) = Len(Kept(cch)) + 1
           /\ Len(Push(cch, change)) <= CAP
           /\ Push(cch, change)[1] = change
           /\ \A i \in 1..Len(Kept(cch)) : Push(cch, change)[i + 1] = cch[i]
<1>1. /\ Kept(cch) \in Seq(StateChange)
      /\ Len(Kept(cch)) = IF Len(cch) = CAP THEN CAP - 1 ELSE Len(cch)
      /\ \A i \in 1..Len(Kept(cch)) : i <= Len(cch) /\ Kept(cch)[i] = cch[i]
  <2>1. CASE Len(cch) = CAP
    <3>1. \A i \in 1..(CAP - 1) : cch[i] \in StateChange
      BY <2>1, CapAssumption
    <3>2. /\ SubSeq(cch, 1, CAP - 1) \in Seq(StateChange)
          /\ Len(SubSeq(cch, 1, CAP - 1)) = CAP - 1
          /\ \A i \in 1..(CAP - 1) : SubSeq(cch, 1, CAP - 1)[i] = cch[i]
      BY <3>1, CapAssumption, SubSeqProperties, Z3
    <3>3. QED BY <2>1, <3>2, CapAssumption DEF Kept, IsFull
  <2>2. CASE Len(cch) # CAP
    BY <2>2, CapAssumption DEF Kept, IsFull
  <2>3. QED BY <2>1, <2>2
<1>2. /\ <<change>> \in Seq(StateChange)
      /\ Len(<<change>>) = 1
      /\ <<change>>[1] = change
  OBVIOUS
<1>3. /\ Push(cch, change) \in Seq(StateChange)
      /\ Len(Push(cch, change)) = 1 + Len(Kept(cch))
      /\ \A i \in 1..(1 + Len(Kept(cch))) :
            Push(cch, change)[i] = IF i <= 1 THEN <<change>>[i] ELSE Kept(cch)[i - 1]
  BY <1>1, <1>2, ConcatProperties DEF Push
<1> DEFINE k == Len(Kept(cch))
<1>4. k \in Nat /\ k + 1 <= CAP
  BY <1>1, CapAssumption, LenProperties
<1>5. Push(cch, change)[1] = change
  BY <1>2, <1>3, <1>4
<1>6. \A i \in 1..k : Push(cch, change)[i + 1] = cch[i]
  <2> SUFFICES ASSUME NEW i \in 1..k
               PROVE  Push(cch, change)[i + 1] = cch[i]
    OBVIOUS
  <2>1. i + 1 \in 1..(1 + k) /\ ~(i + 1 <= 1) /\ (i + 1) - 1 = i
    BY <1>4
  <2>2. Push(cch, change)[i + 1] = Kept(cch)[i]
    BY <1>3, <2>1
  <2>3. QED BY <1>1, <2>2
<1>7. 1 + k = k + 1
  BY <1>4
<1>8. QED BY <1>1, <1>3, <1>4, <1>5, <1>6, <1>7

\* unwind_state_changes finds its pivot: what it drains is of the block or
\* later, and the first record it leaves is older.
LEMMA DrainCountProperties ==
    ASSUME NEW cch \in Seq(StateChange), NEW b \in Int
    PROVE  /\ DrainCount(cch, b) \in 0..Len(cch)
           /\ IsPivot(cch, b, DrainCount(cch, b))
<1> DEFINE Stops == {k \in 0..Len(cch) : k = Len(cch) \/ cch[k + 1].block_number < b}
<1>1. Len(cch) \in Stops /\ Stops \in SUBSET Nat
  BY LenProperties
<1>2. PICK k \in Stops : \A m \in Stops : k <= m
  BY <1>1, LeastNat
<1>3. \A i \in 1..k : cch[i].block_number >= b
  <2> SUFFICES ASSUME NEW i \in 1..k
               PROVE  cch[i].block_number >= b
    OBVIOUS
  <2>1. i - 1 \in 0..Len(cch) /\ i - 1 # Len(cch) /\ i \in 1..Len(cch)
    BY <1>2, LenProperties
  <2>2. i - 1 \notin Stops
    <3>1. k \in Int /\ ~(k <= i - 1)
      BY <1>2, LenProperties
    <3>2. QED BY <1>2, <3>1
  <2>3. ~(cch[i].block_number < b)
    BY <2>1, <2>2
  <2>4. cch[i].block_number \in Nat
    BY <2>1, RecordType
  <2>5. QED BY <2>3, <2>4
<1>4. k \in 0..Len(cch) /\ IsPivot(cch, b, k)
  BY <1>2, <1>3 DEF IsPivot
<1>5. QED BY <1>4 DEF DrainCount

\* What is left of the cache after unwinding.
LEMMA UnwindProperties ==
    ASSUME NEW cch \in Seq(StateChange), NEW b \in Int
    PROVE  LET d == DrainCount(cch, b) IN
           /\ Unwind(cch, b) \in Seq(StateChange)
           /\ Len(Unwind(cch, b)) = Len(cch) - d
           /\ \A i \in 1..(Len(cch) - d) :
                /\ i + d \in 1..Len(cch)
                /\ Unwind(cch, b)[i] = cch[i + d]
<1> DEFINE d == DrainCount(cch, b)
<1>1. d \in 0..Len(cch) /\ Len(cch) \in Nat
  BY DrainCountProperties, LenProperties
<1>2. \A i \in (d + 1)..Len(cch) : cch[i] \in StateChange
  BY <1>1
<1>3. /\ Unwind(cch, b) \in Seq(StateChange)
      /\ Len(Unwind(cch, b)) = IF d + 1 <= Len(cch) THEN Len(cch) - (d + 1) + 1 ELSE 0
      /\ \A i \in 1..(Len(cch) - (d + 1) + 1) : Unwind(cch, b)[i] = cch[(d + 1) + i - 1]
  <2> HIDE DEF d
  <2>1. d + 1 \in Int /\ Len(cch) \in Int
    BY <1>1
  <2>2. /\ SubSeq(cch, d + 1, Len(cch)) \in Seq(StateChange)
        /\ Len(SubSeq(cch, d + 1, Len(cch))) = IF d + 1 <= Len(cch) THEN Len(cch) - (d + 1) + 1 ELSE 0
        /\ \A i \in 1..(Len(cch) - (d + 1) + 1) : SubSeq(cch, d + 1, Len(cch))[i] = cch[(d + 1) + i - 1]
    BY <1>2, <2>1, SubSeqProperties, Z3
  <2>3. Unwind(cch, b) = SubSeq(cch, d + 1, Len(cch))
    BY DEF Unwind, d
  <2>4. QED BY <2>2, <2>3
<1> HIDE DEF d
<1>4. /\ Len(Unwind(cch, b)) = Len(cch) - d
      /\ \A i \in 1..(Len(cch) - d) : i + d \in 1..Len(cch) /\ Unwind(cch, b)[i] = cch[i + d]
  <2>1. Len(cch) - (d + 1) + 1 = Len(cch) - d
    BY <1>1
  <2>2. \A i \in 1..(Len(cch) - d) : (d + 1) + i - 1 = i + d /\ i + d \in 1..Len(cch)
    BY <1>1
  <2>3. Len(Unwind(cch, b)) = Len(cch) - d
    <3>1. CASE d + 1 <= Len(cch)
      BY <1>1, <1>3, <3>1
    <3>2. CASE ~(d + 1 <= Len(cch))
      BY <1>1, <1>3, <3>2
    <3>3. QED BY <3>1, <3>2
  <2>4. \A i \in 1..(Len(cch) - d) : Unwind(cch, b)[i] = cch[i + d]
    BY <1>3, <2>1, <2>2
  <2>5. QED BY <2>2, <2>3, <2>4
<1>5. QED BY <1>3, <1>4 DEF d

\* Pushing the record of a newer block keeps the records ordered; the one
\* record that may be lost is older than the new oldest_block.
LEMMA PushRecords ==
    ASSUME NEW cch \in Seq(StateChange), Len(cch) <= CAP, Ordered(cch),
           NEW change \in StateChange, NEW oldest \in Nat,
           \A r \in RecordsIn(cch) : r.block_number < change.block_number,
           \A r \in RecordsIn(cch) : r.block_number >= oldest,
           oldest <= change.block_number
    PROVE  LET new == Push(cch, change)
               newOldest == OldestAfterPush(cch, oldest)
           IN  /\ new \in Seq(StateChange) /\ Len(new) <= CAP /\ Ordered(new)
               /\ RecordsIn(new) \subseteq RecordsIn(cch) \cup {change}
               /\ change \in RecordsIn(new)
               /\ newOldest \in Nat /\ oldest <= newOldest
               /\ newOldest <= change.block_number
               /\ \A r \in RecordsIn(new) : r.block_number >= newOldest
               /\ \A r \in RecordsIn(cch) :
                      r \in RecordsIn(new) \/ r.block_number < newOldest
<1> DEFINE new == Push(cch, change)
           newOldest == OldestAfterPush(cch, oldest)
           k == IF Len(cch) = CAP THEN CAP - 1 ELSE Len(cch)
<1>1. /\ k \in Nat /\ k <= Len(cch) /\ Len(cch) \in Nat
      /\ Len(cch) = CAP => k >= 1
  BY CapAssumption, LenProperties
<1>2. /\ new \in Seq(StateChange) /\ Len(new) <= CAP
      /\ Len(new) = k + 1
      /\ new[1] = change
      /\ \A i \in 1..k : new[i + 1] = cch[i]
  <2>1. Len(Kept(cch)) = k
    BY PushProperties
  <2>2. \A i \in 1..Len(Kept(cch)) : Push(cch, change)[i + 1] = cch[i]
    BY PushProperties
  <2>3. /\ Push(cch, change) \in Seq(StateChange)
        /\ Len(Push(cch, change)) = Len(Kept(cch)) + 1
        /\ Len(Push(cch, change)) <= CAP
        /\ Push(cch, change)[1] = change
    BY PushProperties
  <2> HIDE DEF k
  <2>4. QED BY <2>1, <2>2, <2>3
<1>3. /\ change.block_number \in Nat
      /\ \A i \in 1..Len(cch) : cch[i].block_number \in Nat /\ cch[i] \in RecordsIn(cch)
  BY RecordType DEF StateChange, RecordsIn
<1>4. \A i \in 2..(k + 1) : i - 1 \in 1..k /\ i - 1 \in 1..Len(cch) /\ new[i] = cch[i - 1]
  <2> SUFFICES ASSUME NEW i \in 2..(k + 1)
               PROVE  i - 1 \in 1..k /\ i - 1 \in 1..Len(cch) /\ new[i] = cch[i - 1]
    OBVIOUS
  <2>1. i - 1 \in 1..k /\ i - 1 \in 1..Len(cch) /\ (i - 1) + 1 = i
    BY <1>1
  <2>2. QED BY <1>2, <2>1
<1> HIDE DEF new, k
<1>5. Ordered(new)
  <2> SUFFICES ASSUME NEW i \in 1..Len(new), NEW j \in 1..Len(new), i < j
               PROVE  new[i].block_number > new[j].block_number
    BY DEF Ordered
  <2>1. j \in 2..(k + 1)
    BY <1>1, <1>2
  <2>2. CASE i = 1
    BY <1>2, <1>3, <1>4, <2>1, <2>2
  <2>3. CASE i # 1
    <3>1. i \in 2..(k + 1) /\ i - 1 < j - 1
      BY <1>1, <1>2, <2>3
    <3>2. QED BY <1>4, <2>1, <3>1 DEF Ordered
  <2>4. QED BY <2>2, <2>3
<1>6. RecordsIn(new) \subseteq RecordsIn(cch) \cup {change}
  <2> SUFFICES ASSUME NEW i \in 1..Len(new)
               PROVE  new[i] = change \/ new[i] \in RecordsIn(cch)
    BY DEF RecordsIn
  <2>1. i = 1 \/ i \in 2..(k + 1)
    BY <1>1, <1>2
  <2>2. QED BY <1>2, <1>3, <1>4, <2>1
<1>7. change \in RecordsIn(new)
  <2>1. 1 \in 1..Len(new)
    BY <1>1, <1>2
  <2>2. QED BY <1>2, <2>1 DEF RecordsIn
<1>8. \A i \in 1..k : cch[i] \in RecordsIn(new)
  <2> SUFFICES ASSUME NEW i \in 1..k
               PROVE  cch[i] \in RecordsIn(new)
    OBVIOUS
  <2>1. i + 1 \in 1..Len(new) /\ new[i + 1] = cch[i]
    BY <1>1, <1>2
  <2>2. QED BY <2>1 DEF RecordsIn
<1>9. CASE Len(cch) = CAP
  <2>1. k = CAP - 1 /\ k \in 1..Len(cch) /\ newOldest = cch[k].block_number
    BY <1>1, <1>9, CapAssumption DEF k, newOldest, OldestAfterPush, IsFull
  <2>2. newOldest \in Nat /\ oldest <= newOldest /\ newOldest < change.block_number
    BY <1>3, <2>1
  <2>3. \A i \in 1..k : cch[i].block_number >= newOldest
    BY <1>1, <1>3, <2>1 DEF Ordered
  <2>4. \A r \in RecordsIn(new) : r.block_number >= newOldest
    <3> SUFFICES ASSUME NEW i \in 1..Len(new)
                 PROVE  new[i].block_number >= newOldest
      BY DEF RecordsIn
    <3>1. i = 1 \/ i \in 2..(k + 1)
      BY <1>1, <1>2
    <3>2. QED BY <1>2, <1>3, <1>4, <2>2, <2>3, <3>1
  <2>5. \A i \in 1..Len(cch) : i \in 1..k \/ cch[i].block_number < newOldest
    BY <1>1, <1>3, <2>1 DEF Ordered
  <2>6. \A r \in RecordsIn(cch) : r \in RecordsIn(new) \/ r.block_number < newOldest
    BY <1>8, <2>5 DEF RecordsIn
  <2>7. newOldest <= change.block_number
    BY <1>3, <2>2
  <2>8. QED BY <1>2, <1>5, <1>6, <1>7, <2>2, <2>4, <2>6, <2>7 DEF new
<1>10. CASE Len(cch) # CAP
  <2>1. k = Len(cch) /\ newOldest = oldest
    BY <1>10 DEF k, newOldest, OldestAfterPush, IsFull
  <2>2. \A r \in RecordsIn(cch) : r \in RecordsIn(new)
    BY <1>8, <2>1 DEF RecordsIn
  <2>3. \A r \in RecordsIn(new) : r.block_number >= newOldest
    BY <1>3, <1>6, <2>1
  <2>4. oldest <= newOldest /\ newOldest <= change.block_number
    BY <2>1
  <2>5. QED BY <1>2, <1>5, <1>6, <1>7, <2>1, <2>2, <2>3, <2>4 DEF new
<1>11. QED BY <1>9, <1>10

\* Unwinding an ordered cache leaves exactly the records older than the block.
LEMMA UnwindRecords ==
    ASSUME NEW cch \in Seq(StateChange), Ordered(cch), NEW b \in Int
    PROVE  /\ Unwind(cch, b) \in Seq(StateChange)
           /\ Len(Unwind(cch, b)) <= Len(cch)
           /\ Ordered(Unwind(cch, b))
           /\ RecordsIn(Unwind(cch, b)) = {r \in RecordsIn(cch) : r.block_number < b}
           /\ \A i \in 1..Len(cch) :
                  i \in 1..DrainCount(cch, b) <=> cch[i].block_number >= b
<1> DEFINE d == DrainCount(cch, b)
           new == Unwind(cch, b)
<1>1. /\ new \in Seq(StateChange)
      /\ Len(new) = Len(cch) - d
      /\ \A i \in 1..(Len(cch) - d) : i + d \in 1..Len(cch) /\ new[i] = cch[i + d]
  BY UnwindProperties
<1>2. /\ d \in 0..Len(cch) /\ Len(cch) \in Nat
      /\ \A i \in 1..d : cch[i].block_number >= b
      /\ d < Len(cch) => cch[d + 1].block_number < b
  BY DrainCountProperties, LenProperties DEF IsPivot
<1>3. \A i \in 1..Len(cch) : cch[i].block_number \in Nat
  BY RecordType
<1> HIDE DEF d, new
<1>4. \A i \in 1..Len(cch) : i > d => cch[i].block_number < b
  <2> SUFFICES ASSUME NEW i \in 1..Len(cch), i > d
               PROVE  cch[i].block_number < b
    OBVIOUS
  <2>1. d + 1 \in 1..Len(cch) /\ d < Len(cch)
    BY <1>2
  <2>2. CASE i = d + 1
    BY <1>2, <2>1, <2>2
  <2>3. CASE i # d + 1
    <3>1. d + 1 < i
      BY <1>2, <2>3
    <3>2. cch[d + 1].block_number > cch[i].block_number
      BY <2>1, <3>1 DEF Ordered
    <3>3. QED BY <1>2, <1>3, <2>1, <3>2
  <2>4. QED BY <2>2, <2>3
<1>5. \A i \in 1..Len(cch) : i \in 1..d <=> cch[i].block_number >= b
  BY <1>2, <1>3, <1>4
<1>6. Ordered(new)
  <2> SUFFICES ASSUME NEW i \in 1..Len(new), NEW j \in 1..Len(new), i < j
               PROVE  new[i].block_number > new[j].block_number
    BY DEF Ordered
  <2>1. i + d \in 1..Len(cch) /\ j + d \in 1..Len(cch) /\ i + d < j + d
    BY <1>1, <1>2
  <2>2. QED BY <1>1, <2>1 DEF Ordered
<1>7. RecordsIn(new) = {r \in RecordsIn(cch) : r.block_number < b}
  <2>1. ASSUME NEW i \in 1..Len(new)
        PROVE  new[i] \in {r \in RecordsIn(cch) : r.block_number < b}
    <3>1. i + d \in 1..Len(cch) /\ i + d > d /\ new[i] = cch[i + d]
      BY <1>1, <1>2
    <3>2. QED BY <1>4, <3>1 DEF RecordsIn
  <2>2. ASSUME NEW i \in 1..Len(cch), cch[i].block_number < b
        PROVE  cch[i] \in RecordsIn(new)
    <3>1. i > d
      BY <1>2, <1>3, <2>2
    <3>2. i - d \in 1..Len(new) /\ i - d \in 1..(Len(cch) - d) /\ (i - d) + d = i
      BY <1>1, <1>2, <3>1
    <3>3. new[i - d] = cch[i]
      BY <1>1, <3>2
    <3>4. QED BY <3>2, <3>3 DEF RecordsIn
  <2>3. QED BY <2>1, <2>2 DEF RecordsIn
<1>8. Len(new) <= Len(cch)
  BY <1>1, <1>2
<1>9. QED BY <1>1, <1>5, <1>6, <1>7, <1>8 DEF d, new

\* What unwinding returns for a pool: nothing when no record of the block or
\* later has it, else what the oldest of those records holds.
LEMMA UnwoundProperties ==
    ASSUME NEW cch \in Seq(StateChange), Ordered(cch), NEW b \in Int, NEW p \in Pools
    PROVE  LET amms == UnwoundAmms(cch, b)
               From(r) == p \in DOMAIN r.state_change /\ r.block_number >= b
           IN  /\ DOMAIN amms \subseteq Pools
               /\ p \notin DOMAIN amms => \A r \in RecordsIn(cch) : ~From(r)
               /\ p \in DOMAIN amms =>
                    \E r \in RecordsIn(cch) :
                        /\ From(r)
                        /\ amms[p] = r.state_change[p]
                        /\ \A s \in RecordsIn(cch) : From(s) => s.block_number >= r.block_number
<1> DEFINE amms == UnwoundAmms(cch, b)
           recs == RecordsOf(cch, b, p)
           d == DrainCount(cch, b)
<1>1. /\ d \in 0..Len(cch) /\ Len(cch) \in Nat
      /\ \A i \in 1..Len(cch) : i \in 1..d <=> cch[i].block_number >= b
  BY UnwindRecords, DrainCountProperties, LenProperties
<1>2. DOMAIN amms = {q \in Pools : RecordsOf(cch, b, q) # {}}
  BY DEF UnwoundAmms
<1>3. recs = {i \in 1..d : p \in DOMAIN cch[i].state_change}
  BY DEF RecordsOf
<1> HIDE DEF d
<1>4. \A i \in 1..Len(cch) :
        i \in recs <=> p \in DOMAIN cch[i].state_change /\ cch[i].block_number >= b
  BY <1>1, <1>3
<1>5. CASE recs = {}
  <2>1. p \notin DOMAIN amms
    BY <1>2, <1>5
  <2>2. \A r \in RecordsIn(cch) : ~(p \in DOMAIN r.state_change /\ r.block_number >= b)
    BY <1>4, <1>5 DEF RecordsIn
  <2>3. QED BY <1>2, <2>1, <2>2
<1>6. CASE recs # {}
  <2>1. recs \subseteq Nat /\ recs \subseteq 1..Len(cch) /\ \A i \in recs : i <= Len(cch)
    BY <1>1, <1>3
  <2>2. \E i \in recs : \A j \in recs : j <= i
    BY <1>1, <1>6, <2>1, GreatestNat
  <2> DEFINE m == OldestRecordOf(cch, b, p)
  <2>3. m \in recs /\ \A j \in recs : j <= m
    BY <2>2 DEF OldestRecordOf
  <2>4. p \in DOMAIN amms /\ amms[p] = cch[m].state_change[p]
    BY <1>2, <1>6 DEF UnwoundAmms
  <2> HIDE DEF m
  <2>5. m \in 1..Len(cch) /\ p \in DOMAIN cch[m].state_change /\ cch[m].block_number >= b
    BY <1>4, <2>1, <2>3
  <2>6. \A j \in 1..Len(cch) :
          p \in DOMAIN cch[j].state_change /\ cch[j].block_number >= b
              => cch[j].block_number >= cch[m].block_number
    <3> SUFFICES ASSUME NEW j \in 1..Len(cch), p \in DOMAIN cch[j].state_change,
                        cch[j].block_number >= b
                 PROVE  cch[j].block_number >= cch[m].block_number
      OBVIOUS
    <3>1. j <= m
      BY <1>4, <2>3
    <3>2. cch[j].block_number \in Nat /\ cch[m].block_number \in Nat
      BY <2>5, RecordType
    <3>3. CASE j = m
      BY <3>2, <3>3
    <3>4. CASE j < m
      BY <2>5, <3>2, <3>4 DEF Ordered
    <3>5. QED BY <2>5, <3>1, <3>3, <3>4
  <2>7. cch[m] \in RecordsIn(cch)
    BY <2>5 DEF RecordsIn
  <2>8. \A s \in RecordsIn(cch) :
          p \in DOMAIN s.state_change /\ s.block_number >= b
              => s.block_number >= cch[m].block_number
    BY <2>6 DEF RecordsIn
  <2>9. QED BY <1>2, <2>4, <2>5, <2>7, <2>8
<1>7. QED BY <1>5, <1>6

LEMMA AmmSetMember ==
    ASSUME NEW amms \in AmmSet
    PROVE  /\ DOMAIN amms \subseteq Pools
           /\ amms = [p \in DOMAIN amms |-> amms[p]]
           /\ \A p \in DOMAIN amms : amms[p] \in AmmStates
<1>1. PICK D \in SUBSET Pools : amms \in [D -> AmmStates]
  BY DEF AmmSet
<1>2. QED BY <1>1

LEMMA AmmSetIntro ==
    ASSUME NEW D \in SUBSET Pools, NEW amms \in [D -> AmmStates]
    PROVE  amms \in AmmSet
BY DEF AmmSet

LEMMA NoAmmsType == NoAmms \in AmmSet /\ DOMAIN NoAmms = {}
<1>1. {} \in SUBSET Pools
  OBVIOUS
<1>2. NoAmms \in [{} -> AmmStates]
  BY DEF NoAmms
<1>3. QED BY <1>1, <1>2 DEF AmmSet

\* What unwinding returns are pools with contents, whatever the cache holds.
LEMMA UnwoundType ==
    ASSUME NEW cch \in Seq(StateChange), NEW b \in Int
    PROVE  /\ DOMAIN UnwoundAmms(cch, b) \subseteq Pools
           /\ \A p \in DOMAIN UnwoundAmms(cch, b) : UnwoundAmms(cch, b)[p] \in AmmStates
<1>1. DOMAIN UnwoundAmms(cch, b) = {q \in Pools : RecordsOf(cch, b, q) # {}}
  BY DEF UnwoundAmms
<1>2. ASSUME NEW p \in Pools, RecordsOf(cch, b, p) # {}
      PROVE  UnwoundAmms(cch, b)[p] \in AmmStates
  <2> DEFINE recs == RecordsOf(cch, b, p)
             m == OldestRecordOf(cch, b, p)
  <2>1. DrainCount(cch, b) \in 0..Len(cch) /\ Len(cch) \in Nat
    BY DrainCountProperties, LenProperties
  <2>2. recs \subseteq Nat /\ recs \subseteq 1..Len(cch) /\ \A i \in recs : i <= Len(cch)
    BY <2>1 DEF RecordsOf
  <2>3. \E i \in recs : \A j \in recs : j <= i
    BY <1>2, <2>1, <2>2, GreatestNat
  <2>4. m \in recs
    BY <2>3 DEF OldestRecordOf
  <2>5. UnwoundAmms(cch, b)[p] = cch[m].state_change[p]
    BY <1>2 DEF UnwoundAmms
  <2>6. m \in 1..Len(cch) /\ p \in DOMAIN cch[m].state_change
    BY <2>2, <2>4 DEF RecordsOf
  <2> HIDE DEF m
  <2>7. cch[m].state_change \in AmmSet
    BY <2>6, RecordType
  <2>8. QED BY <2>5, <2>6, <2>7, AmmSetMember
<1>3. QED BY <1>1, <1>2

LEMMA RevertedType ==
    ASSUME TypeOK, NEW b \in Int
    PROVE  Reverted(b) \in Views
<1>1. cache \in Seq(StateChange) /\ state \in Views
  BY DEF TypeOK
<1>2. \A p \in Pools :
        (IF p \in DOMAIN UnwoundAmms(cache, b) THEN UnwoundAmms(cache, b)[p] ELSE state[p])
            \in AmmStates
  BY <1>1, UnwoundType DEF Views
<1>3. QED BY <1>2 DEF Reverted, Views

-----------------------------------------------------------------------------
(* Types.                                                                   *)

LEMMA VersionFacts ==
    /\ Versions \subseteq Nat
    /\ Top \in Versions
    /\ \A b \in Versions : b <= Top
    /\ \A n \in Blocks : n \in Nat /\ n < Top /\ n <= MaxBlock
    /\ \A n \in Blocks : n > SnapshotBlock <=> n \in Versions
BY BlockAssumption DEF Versions, Top, Blocks

LEMMA RolledBackType ==
    ASSUME TypeOK, NEW n \in Blocks
    PROVE  RolledBack(n) \in [Versions -> Views]
BY DEF TypeOK, RolledBack

LEMMA RecordedType ==
    ASSUME TypeOK, NEW n \in Blocks, NEW p \in Pools, NEW v \in AmmStates
    PROVE  Recorded(n, p, v) \in [Versions -> Views]
<1>1. \A b \in Versions : [versions[b] EXCEPT ![p] = v] \in Views
  BY DEF TypeOK, Views
<1>2. QED BY <1>1 DEF TypeOK, Recorded

LEMMA CacheBlockType ==
    ASSUME TypeOK, CacheBlock
    PROVE  /\ cache' \in Seq(StateChange)
           /\ Len(cache') <= CAP
           /\ oldest_block' \in Nat
           /\ affected_amms' \in SUBSET Pools
<1> DEFINE change == [block_number |-> block_number, state_change |-> cached_amms]
<1>1. cache \in Seq(StateChange) /\ Len(cache) <= CAP /\ change \in StateChange
  BY DEF TypeOK, StateChange
<1>2. cache' \in Seq(StateChange) /\ Len(cache') <= CAP
  BY <1>1, PushProperties DEF CacheBlock
<1>3. oldest_block' \in Nat
  <2>1. CASE IsFull(cache)
    <3>1. CAP - 1 \in 1..Len(cache)
      BY <2>1, CapAssumption DEF IsFull
    <3>2. cache[CAP - 1].block_number \in Nat
      BY <1>1, <3>1, RecordType
    <3>3. QED BY <2>1, <3>2 DEF CacheBlock, OldestAfterPush
  <2>2. CASE ~IsFull(cache)
    BY <2>2 DEF CacheBlock, OldestAfterPush, TypeOK
  <2>3. QED BY <2>1, <2>2
<1>4. affected_amms' \in SUBSET Pools
  BY AmmSetMember DEF CacheBlock, TypeOK
<1>5. QED BY <1>2, <1>3, <1>4

LEMMA AtLogType ==
    ASSUME TypeOK, NEW b \in Blocks, AtLog(b)
    PROVE  /\ cache' \in Seq(StateChange)
           /\ Len(cache') <= CAP
           /\ oldest_block' \in Nat
           /\ affected_amms' \in SUBSET Pools
           /\ block_number' \in 0..MaxBlock
           /\ CachedAt(b) \in AmmSet
<1>2. CachedAt(b) \in AmmSet
  BY NoAmmsType DEF CachedAt, TypeOK
<1>3. block_number' \in 0..MaxBlock
  BY VersionFacts DEF AtLog, Blocks
<1>4. QED BY <1>2, <1>3, CacheBlockType DEF AtLog, TypeOK

LEMMA WithPoolType ==
    ASSUME TypeOK, NEW amms \in AmmSet, NEW p \in Pools
    PROVE  /\ WithPool(amms, p) \in AmmSet
           /\ DOMAIN WithPool(amms, p) = DOMAIN amms \cup {p}
<1>1. DOMAIN amms \cup {p} \in SUBSET Pools
  BY AmmSetMember
<1>2. WithPool(amms, p) \in [DOMAIN amms \cup {p} -> AmmStates]
  BY AmmSetMember DEF WithPool, TypeOK, Views
<1>3. QED BY <1>1, <1>2, AmmSetIntro

\* Type correctness of the state space, whatever reorgs and errors happen.
THEOREM TypeCorrect == Spec => []TypeOK
<1>1. Init => TypeOK
  <2>1. NoAmms \in AmmSet
    BY NoAmmsType
  <2>2. <<>> \in Seq(StateChange) /\ Len(<<>>) <= CAP
    BY CapAssumption
  <2>3. 0 \in 0..MaxBlock
    BY BlockAssumption
  <2> SUFFICES ASSUME Init PROVE TypeOK
    OBVIOUS
  <2>4. state \in Views /\ versions \in [Versions -> Views]
    BY DEF Init
  <2>5. cache \in Seq(StateChange) /\ Len(cache) <= CAP
    BY <2>2 DEF Init
  <2>6. latest_block \in 0..MaxBlock /\ oldest_block \in Nat /\ block_number \in 0..MaxBlock
    BY <2>3 DEF Init
  <2>7. cached_amms \in AmmSet
    BY <2>1 DEF Init
  <2>8. /\ affected_amms \in SUBSET Pools
        /\ touched \in SUBSET Pools
        /\ stale \in BOOLEAN
        /\ phase \in {"idle", "first", "loop", "returned", "failed", "panicked"}
    BY DEF Init
  <2>9. QED BY <2>4, <2>5, <2>6, <2>7, <2>8 DEF TypeOK
<1>2. TypeOK /\ [Next]_vars => TypeOK'
  <2> SUFFICES ASSUME TypeOK, [Next]_vars
               PROVE  TypeOK'
    OBVIOUS
  <2>0. NoAmms \in AmmSet
    BY NoAmmsType
  <2> USE DEF spaceVars, historyVars
  <2>1. ASSUME NEW n \in Blocks, SyncEmpty(n)
        PROVE  TypeOK'
    <3>1. n \in 0..MaxBlock /\ RolledBack(n) \in [Versions -> Views]
      BY VersionFacts, RolledBackType DEF Blocks
    <3>2. (\/ stale \/ n <= SnapshotBlock \/ n < oldest_block
           \/ cache # <<>> /\ cache[1].block_number >= n) \in BOOLEAN
      OBVIOUS
    <3>3. QED BY <2>1, <3>1, <3>2 DEF SyncEmpty, TypeOK
  <2>2. ASSUME NEW n \in Blocks, SyncForward(n)
        PROVE  TypeOK'
    <3>1. n \in 0..MaxBlock /\ RolledBack(n) \in [Versions -> Views]
      BY VersionFacts, RolledBackType DEF Blocks
    <3>2. QED BY <2>0, <2>2, <3>1 DEF SyncForward, EnterLoop, TypeOK
  <2>3. ASSUME NEW n \in Blocks, SyncUnwind(n)
        PROVE  TypeOK'
    <3>1. n \in 0..MaxBlock /\ n \in Int /\ RolledBack(n) \in [Versions -> Views]
      BY VersionFacts, RolledBackType DEF Blocks
    <3>2. Reverted(n) \in Views
      BY <3>1, RevertedType
    <3>3. Unwind(cache, n) \in Seq(StateChange) /\ Len(Unwind(cache, n)) <= CAP
      <4>1. cache \in Seq(StateChange) /\ Len(cache) <= CAP
        BY DEF TypeOK
      <4>2. /\ DrainCount(cache, n) \in 0..Len(cache)
            /\ Len(Unwind(cache, n)) = Len(cache) - DrainCount(cache, n)
            /\ Unwind(cache, n) \in Seq(StateChange)
            /\ Len(cache) \in Nat
        BY <3>1, <4>1, UnwindProperties, DrainCountProperties, LenProperties
      <4>3. QED BY <4>1, <4>2, CapAssumption
    <3>4. QED BY <2>0, <2>3, <3>1, <3>2, <3>3 DEF SyncUnwind, EnterLoop, TypeOK
  <2>4. ASSUME NEW n \in Blocks, SyncPanic(n)
        PROVE  TypeOK'
    BY <2>4 DEF SyncPanic, TypeOK
  <2>5. ASSUME NEW b \in Blocks, NEW p \in Pools, NEW v \in AmmStates, SyncLog(b, p, v)
        PROVE  TypeOK'
    <3>1. AtLog(b)
      BY <2>5 DEF SyncLog
    <3>2. WithPool(CachedAt(b), p) \in AmmSet
      BY <3>1, AtLogType, WithPoolType
    <3>3. [state EXCEPT ![p] = v] \in Views
      BY DEF TypeOK, Views
    <3>4. QED BY <2>5, <3>1, <3>2, <3>3, AtLogType, RecordedType DEF SyncLog, TypeOK
  <2>6. ASSUME NEW b \in Blocks, NEW p \in Pools, NEW v \in AmmStates, SyncLogFails(b, p, v)
        PROVE  TypeOK'
    <3>1. AtLog(b)
      BY <2>6 DEF SyncLogFails
    <3>2. [state EXCEPT ![p] = v] \in Views
      BY DEF TypeOK, Views
    <3>3. QED BY <2>0, <2>6, <3>1, <3>2, AtLogType DEF SyncLogFails, TypeOK
  <2>7. ASSUME NEW b \in Blocks, SkipLog(b)
        PROVE  TypeOK'
    <3>1. AtLog(b)
      BY <2>7 DEF SkipLog
    <3>2. QED BY <2>7, <3>1, AtLogType DEF SkipLog, TypeOK
  <2>8. CASE MissingBlockNumber
    BY <2>0, <2>8 DEF MissingBlockNumber, TypeOK
  <2>9. CASE SyncReturn
    BY <2>0, <2>9, CacheBlockType DEF SyncReturn, TypeOK
  <2>10. CASE StoreLatest
    BY <2>10 DEF StoreLatest, TypeOK
  <2>11. CASE UNCHANGED vars
    BY <2>11 DEF vars, callVars, TypeOK
  <2>12. QED
    BY <2>1, <2>2, <2>3, <2>4, <2>5, <2>6, <2>7, <2>8, <2>9, <2>10, <2>11 DEF Next
<1>3. QED BY <1>1, <1>2, PTL DEF Spec

-----------------------------------------------------------------------------
(* Rollbacks.                                                               *)

\* The two halves of the invariant as operators of the records: what they
\* hold, and that every change of a pool has one.
ExactIn(recs, vers) ==
    \A r \in recs :
        /\ r.block_number \in Versions
        /\ \A p \in DOMAIN r.state_change : r.state_change[p] = vers[r.block_number][p]

CoveredBy(recs, cached, n, oldest, vers) ==
    \A p \in Pools, b, c \in Versions :
        oldest <= b /\ b <= c =>
            \/ vers[b][p] = vers[c][p]
            \/ \E r \in recs : /\ p \in DOMAIN r.state_change
                             /\ b <= r.block_number
                             /\ r.block_number < c
            \/ p \in DOMAIN cached /\ b <= n /\ n < c

\* Ending a block: its record joins the others, newer than all of them.
LEMMA CacheBlockHistory ==
    ASSUME TypeOK, UndoInv, ~stale, phase \in {"first", "loop"}, CacheBlock
    PROVE  LET recs == RecordsIn(cache') IN
           /\ Ordered(cache')
           /\ \A r \in recs : r.block_number >= oldest_block' /\ r.block_number <= block_number
           /\ oldest_block' \in Nat /\ oldest_block <= oldest_block'
           /\ oldest_block' <= block_number
           /\ ExactIn(recs, versions)
           /\ CoveredBy(recs, NoAmms, block_number, oldest_block', versions)
<1> DEFINE change == [block_number |-> block_number, state_change |-> cached_amms]
           recs == RecordsIn(cache')
<1>1. /\ cache \in Seq(StateChange) /\ Len(cache) <= CAP
      /\ change \in StateChange /\ oldest_block \in Nat
      /\ change.block_number = block_number /\ change.state_change = cached_amms
      /\ block_number \in Nat
  BY DEF TypeOK, StateChange
<1>2. /\ Ordered(cache)
      /\ \A r \in RecordsIn(cache) : r.block_number >= oldest_block
      /\ \A r \in RecordsIn(cache) : r.block_number < block_number
      /\ oldest_block <= block_number
      /\ block_number > SnapshotBlock
  BY DEF UndoInv, RecordsOrdered, CallBounds
<1>3. ExactIn(RecordsIn(cache), versions) /\ \A p \in DOMAIN cached_amms : cached_amms[p] = versions[block_number][p]
  BY DEF UndoInv, RecordsExact, ExactIn
<1>4. CoveredBy(RecordsIn(cache), cached_amms, block_number, oldest_block, versions)
  BY DEF UndoInv, ChangesRecorded, CoveredBy
<1>5. cache' = Push(cache, change) /\ oldest_block' = OldestAfterPush(cache, oldest_block)
  BY DEF CacheBlock
<1> HIDE DEF change, recs
<1>6. /\ Ordered(cache')
      /\ RecordsIn(cache') \subseteq RecordsIn(cache) \cup {change}
      /\ change \in RecordsIn(cache')
      /\ oldest_block' \in Nat /\ oldest_block <= oldest_block'
      /\ oldest_block' <= change.block_number
      /\ \A r \in RecordsIn(cache') : r.block_number >= oldest_block'
      /\ \A r \in RecordsIn(cache) : r \in RecordsIn(cache') \/ r.block_number < oldest_block'
  BY <1>1, <1>2, <1>5, PushRecords
<1>7. \A r \in recs : r.block_number <= block_number
  <2>1. \A r \in RecordsIn(cache) : r.block_number \in Nat
    BY <1>1, RecordType DEF RecordsIn
  <2>2. QED BY <1>1, <1>2, <1>6, <2>1 DEF recs
<1>8. ExactIn(recs, versions)
  <2>1. block_number <= MaxBlock
    BY DEF TypeOK
  <2>2. block_number \in Versions
    BY <1>1, <1>2, <2>1, BlockAssumption DEF Versions, Top
  <2>3. QED BY <1>1, <1>3, <1>6, <2>2 DEF ExactIn, recs
<1>9. CoveredBy(recs, NoAmms, block_number, oldest_block', versions)
  <2> SUFFICES ASSUME NEW p \in Pools, NEW b \in Versions, NEW c \in Versions,
                      oldest_block' <= b, b <= c,
                      versions[b][p] # versions[c][p]
               PROVE  \E r \in recs : /\ p \in DOMAIN r.state_change
                                     /\ b <= r.block_number
                                     /\ r.block_number < c
    BY DEF CoveredBy
  <2>1. b \in Nat /\ c \in Nat /\ oldest_block <= b
    BY <1>1, <1>6, VersionFacts
  <2>2. CASE \E r \in RecordsIn(cache) : /\ p \in DOMAIN r.state_change
                                        /\ b <= r.block_number
                                        /\ r.block_number < c
    <3>1. PICK r \in RecordsIn(cache) : /\ p \in DOMAIN r.state_change
                                        /\ b <= r.block_number
                                        /\ r.block_number < c
      BY <2>2
    <3>2. r.block_number \in Nat
      BY <1>1, RecordType DEF RecordsIn
    <3>3. ~(r.block_number < oldest_block')
      BY <1>6, <2>1, <3>1, <3>2
    <3>4. r \in recs
      BY <1>6, <3>3 DEF recs
    <3>5. QED BY <3>1, <3>4
  <2>3. CASE p \in DOMAIN cached_amms /\ b <= block_number /\ block_number < c
    BY <1>1, <1>6, <2>3 DEF recs
  <2>4. QED BY <1>4, <2>1, <2>2, <2>3 DEF CoveredBy
<1>10. QED BY <1>1, <1>6, <1>7, <1>8, <1>9 DEF recs

\* Reaching a log of block b: what the loop then has is right for block b.
LEMMA AtLogHistory ==
    ASSUME TypeOK, UndoInv, ~stale, NEW b \in Blocks, AtLog(b)
    PROVE  LET recs == RecordsIn(cache') IN
           /\ Ordered(cache')
           /\ \A r \in recs : r.block_number >= oldest_block' /\ r.block_number < b
           /\ oldest_block' \in Nat /\ oldest_block' <= b
           /\ ExactIn(recs, versions)
           /\ b \in Versions
           /\ \A p \in DOMAIN CachedAt(b) : CachedAt(b)[p] = versions[b][p]
           /\ CoveredBy(recs, CachedAt(b), b, oldest_block', versions)
<1>1. /\ phase \in {"first", "loop"} /\ block_number <= b
      /\ block_number \in Nat /\ b \in Nat /\ oldest_block \in Nat
      /\ cache \in Seq(StateChange)
  BY VersionFacts DEF AtLog, TypeOK
<1>2. /\ Ordered(cache)
      /\ \A r \in RecordsIn(cache) : r.block_number >= oldest_block
      /\ \A r \in RecordsIn(cache) : r.block_number < block_number
      /\ oldest_block <= block_number
      /\ block_number > SnapshotBlock
  BY <1>1 DEF UndoInv, RecordsOrdered, CallBounds
<1>3. /\ ExactIn(RecordsIn(cache), versions)
      /\ \A p \in DOMAIN cached_amms : cached_amms[p] = versions[block_number][p]
      /\ CoveredBy(RecordsIn(cache), cached_amms, block_number, oldest_block, versions)
  BY <1>1 DEF UndoInv, RecordsExact, ChangesRecorded, ExactIn, CoveredBy
<1>4. b \in Versions
  BY <1>1, <1>2, VersionFacts, BlockAssumption
<1>5. CASE b = block_number
  <2>1. cache' = cache /\ oldest_block' = oldest_block /\ CachedAt(b) = cached_amms
    BY <1>5 DEF AtLog, CachedAt
  <2>2. QED BY <1>1, <1>2, <1>3, <1>4, <1>5, <2>1
<1>6. CASE b # block_number
  <2>1. CacheBlock /\ CachedAt(b) = NoAmms /\ block_number < b
    BY <1>1, <1>6 DEF AtLog, CachedAt
  <2>2. /\ Ordered(cache')
        /\ \A r \in RecordsIn(cache') : r.block_number >= oldest_block' /\ r.block_number <= block_number
        /\ oldest_block' \in Nat /\ oldest_block' <= block_number
        /\ ExactIn(RecordsIn(cache'), versions)
        /\ CoveredBy(RecordsIn(cache'), NoAmms, block_number, oldest_block', versions)
    BY <1>1, <2>1, CacheBlockHistory
  <2>3. \A r \in RecordsIn(cache') : r.block_number < b
    <3>1. \A r \in RecordsIn(cache') : r.block_number \in Nat
      BY <2>2, VersionFacts DEF ExactIn
    <3>2. QED BY <1>1, <2>1, <2>2, <3>1
  <2>4. oldest_block' <= b
    BY <1>1, <2>1, <2>2
  <2>5. CoveredBy(RecordsIn(cache'), NoAmms, b, oldest_block', versions)
    BY <2>2, NoAmmsType DEF CoveredBy
  <2>6. QED BY <1>4, <2>1, <2>2, <2>3, <2>4, <2>5, NoAmmsType
<1>7. QED BY <1>5, <1>6

\* Unwinding to a block the cache accepts gives the pools before that block.
LEMMA RevertedExact ==
    ASSUME TypeOK, UndoInv, ~stale, phase \in {"idle", "returned"},
           NEW b \in Versions, oldest_block <= b
    PROVE  Reverted(b) = versions[b]
<1> DEFINE amms == UnwoundAmms(cache, b)
<1>1. /\ cache \in Seq(StateChange) /\ b \in Int /\ b \in Nat /\ oldest_block \in Nat
      /\ versions[b] \in Views
  BY VersionFacts DEF TypeOK
<1>2. /\ Ordered(cache)
      /\ DOMAIN cached_amms = {}
      /\ \A p \in Pools : state[p] = versions[Top][p]
  BY DEF UndoInv, RecordsOrdered, CallLocals, StateIsCanonical
<1>3. /\ ExactIn(RecordsIn(cache), versions)
      /\ CoveredBy(RecordsIn(cache), cached_amms, block_number, oldest_block, versions)
  BY DEF UndoInv, RecordsExact, ChangesRecorded, ExactIn, CoveredBy
<1> HIDE DEF amms
<1>4. ASSUME NEW p \in Pools
      PROVE  (IF p \in DOMAIN amms THEN amms[p] ELSE state[p]) = versions[b][p]
  <2>1. CASE p \notin DOMAIN amms
    <3>1. \A r \in RecordsIn(cache) : ~(p \in DOMAIN r.state_change /\ r.block_number >= b)
      BY <1>1, <1>2, <2>1, UnwoundProperties DEF amms
    <3>2. \A r \in RecordsIn(cache) : r.block_number \in Nat
      BY <1>1, RecordType DEF RecordsIn
    <3>3. versions[b][p] = versions[Top][p]
      BY <1>1, <1>2, <1>3, <3>1, <3>2, VersionFacts DEF CoveredBy
    <3>4. QED BY <1>2, <2>1, <3>3
  <2>2. CASE p \in DOMAIN amms
    <3>1. PICK r \in RecordsIn(cache) :
             /\ p \in DOMAIN r.state_change /\ r.block_number >= b
             /\ amms[p] = r.state_change[p]
             /\ \A s \in RecordsIn(cache) :
                    p \in DOMAIN s.state_change /\ s.block_number >= b
                        => s.block_number >= r.block_number
      BY <1>1, <1>2, <2>2, UnwoundProperties DEF amms
    <3>2. amms[p] = versions[r.block_number][p] /\ r.block_number \in Versions
      BY <1>3, <3>1 DEF ExactIn
    <3>3. \A s \in RecordsIn(cache) : s.block_number \in Nat
      BY <1>1, RecordType DEF RecordsIn
    <3>4. \A s \in RecordsIn(cache) :
            ~(/\ p \in DOMAIN s.state_change
              /\ b <= s.block_number
              /\ s.block_number < r.block_number)
      BY <1>1, <3>1, <3>3
    <3>5. b <= r.block_number
      BY <1>1, <3>1, <3>3
    <3>6. versions[b][p] = versions[r.block_number][p]
      BY <1>2, <1>3, <3>2, <3>4, <3>5 DEF CoveredBy
    <3>7. QED BY <2>2, <3>2, <3>6
  <2>3. QED BY <2>1, <2>2
<1>5. \A p \in Pools : Reverted(b)[p] = versions[b][p]
  BY <1>4 DEF Reverted, amms
<1>6. Reverted(b) \in Views
  BY <1>1, RevertedType
<1>7. QED BY <1>1, <1>5, <1>6 DEF Views

-----------------------------------------------------------------------------
(* Every step keeps the invariant.                                          *)

\* Blocks from n on are replaced: the records older than n stay exact and
\* complete for the chain that ends before n.
LEMMA RolledBackHistory ==
    ASSUME TypeOK, NEW n \in Blocks, n \in Versions, NEW recs, NEW k, NEW m,
           ExactIn(recs, versions),
           CoveredBy(recs, NoAmms, k, oldest_block, versions)
    PROVE  LET left == {r \in recs : r.block_number < n} IN
           /\ ExactIn(left, RolledBack(n))
           /\ CoveredBy(left, NoAmms, m, oldest_block, RolledBack(n))
           /\ RolledBack(n)[Top] = versions[n]
<1> DEFINE left == {r \in recs : r.block_number < n}
           vers == RolledBack(n)
<1>1. /\ n \in Nat /\ n < Top /\ Top \in Versions /\ Versions \subseteq Nat
      /\ oldest_block \in Nat
  BY VersionFacts DEF TypeOK
<1>2. /\ \A b \in Versions : b > n => vers[b] = versions[n]
      /\ \A b \in Versions : ~(b > n) => vers[b] = versions[b]
  BY DEF RolledBack
<1> HIDE DEF vers
<1>3. vers[Top] = versions[n]
  BY <1>1, <1>2
<1>4. ExactIn(left, vers)
  <2> SUFFICES ASSUME NEW r \in left
               PROVE  /\ r.block_number \in Versions
                      /\ \A p \in DOMAIN r.state_change :
                            r.state_change[p] = vers[r.block_number][p]
    BY DEF ExactIn
  <2>1. r.block_number \in Versions /\ r.block_number < n
    BY DEF ExactIn
  <2>2. vers[r.block_number] = versions[r.block_number]
    <3>1. r.block_number \in Nat
      BY <1>1, <2>1
    <3>2. ~(r.block_number > n)
      BY <1>1, <2>1, <3>1
    <3>3. QED BY <1>2, <2>1, <3>2
  <2>3. QED BY <2>1, <2>2 DEF ExactIn
<1>5. CoveredBy(left, NoAmms, m, oldest_block, vers)
  <2> SUFFICES ASSUME NEW p \in Pools, NEW b \in Versions, NEW c \in Versions,
                      oldest_block <= b, b <= c, vers[b][p] # vers[c][p]
               PROVE  \E r \in left : /\ p \in DOMAIN r.state_change
                                     /\ b <= r.block_number
                                     /\ r.block_number < c
    BY DEF CoveredBy
  <2>1. b \in Nat /\ c \in Nat
    BY <1>1
  <2>2. ~(b > n) /\ vers[b] = versions[b]
    BY <1>1, <1>2, <2>1
  <2>3. PICK e \in Versions : e <= n /\ e <= c /\ b <= e /\ vers[c] = versions[e]
    <3>1. CASE c > n
      BY <1>1, <1>2, <2>1, <2>2, <3>1
    <3>2. CASE ~(c > n)
      BY <1>1, <1>2, <2>1, <3>2
    <3>3. QED BY <3>1, <3>2
  <2>4. PICK r \in recs : /\ p \in DOMAIN r.state_change
                          /\ b <= r.block_number
                          /\ r.block_number < e
    BY <2>2, <2>3, NoAmmsType DEF CoveredBy
  <2>5. r.block_number \in Nat /\ e \in Nat
    BY <1>1, <2>3 DEF ExactIn
  <2>6. r \in left /\ r.block_number < c
    BY <1>1, <2>1, <2>3, <2>4, <2>5
  <2>7. QED BY <2>4, <2>6
<1>6. QED BY <1>3, <1>4, <1>5 DEF vers

\* What holds when sync is called while nothing is stale.
LEMMA IdleHistory ==
    ASSUME TypeOK, UndoInv, ~stale, phase = "idle"
    PROVE  /\ Ordered(cache)
           /\ cache \in Seq(StateChange)
           /\ \A r \in RecordsIn(cache) :
                  /\ r.block_number \in Nat
                  /\ oldest_block <= r.block_number
                  /\ r.block_number <= latest_block
           /\ oldest_block \in Nat /\ latest_block \in Nat
           /\ oldest_block <= latest_block
           /\ \A p \in Pools : state[p] = versions[Top][p]
           /\ ExactIn(RecordsIn(cache), versions)
           /\ CoveredBy(RecordsIn(cache), NoAmms, block_number, oldest_block, versions)
<1>1. cache \in Seq(StateChange) /\ oldest_block \in Nat /\ latest_block \in Nat
  BY DEF TypeOK
<1>2. \A r \in RecordsIn(cache) : r.block_number \in Nat
  BY <1>1, RecordType DEF RecordsIn
<1>3. Ordered(cache) /\ \A r \in RecordsIn(cache) : oldest_block <= r.block_number
  BY <1>1, <1>2 DEF UndoInv, RecordsOrdered
<1>4. /\ oldest_block <= latest_block
      /\ \A r \in RecordsIn(cache) : r.block_number <= latest_block
  BY DEF UndoInv, CallBounds
<1>5. \A p \in Pools : state[p] = versions[Top][p]
  BY DEF UndoInv, StateIsCanonical
<1>6. ExactIn(RecordsIn(cache), versions)
  BY DEF UndoInv, RecordsExact, ExactIn
<1>7. CoveredBy(RecordsIn(cache), NoAmms, block_number, oldest_block, versions)
  <2>1. DOMAIN cached_amms = {} /\ DOMAIN NoAmms = {}
    BY NoAmmsType DEF UndoInv, CallLocals
  <2>2. CoveredBy(RecordsIn(cache), cached_amms, block_number, oldest_block, versions)
    BY DEF UndoInv, ChangesRecorded, CoveredBy
  <2>3. QED BY <2>1, <2>2 DEF CoveredBy
<1>8. QED BY <1>1, <1>2, <1>3, <1>4, <1>5, <1>6, <1>7

\* A call for a block newer than every record: nothing changed since, so the
\* pools are already those of the chain that ends before the block.
LEMMA NothingToUndo ==
    ASSUME TypeOK, UndoInv, ~stale, phase = "idle", NEW n \in Blocks, n \in Versions,
           oldest_block <= n,
           \A r \in RecordsIn(cache) : r.block_number < n
    PROVE  /\ \A p \in Pools : state[p] = versions[n][p]
           /\ {r \in RecordsIn(cache) : r.block_number < n} = RecordsIn(cache)
<1>1. n \in Nat /\ Top \in Versions /\ n <= Top
  BY VersionFacts
<1>2. \A r \in RecordsIn(cache) : ~(n <= r.block_number)
  BY <1>1, IdleHistory
<1>3. \A p \in Pools : versions[n][p] = versions[Top][p]
  BY <1>1, <1>2, IdleHistory, NoAmmsType DEF CoveredBy
<1>4. QED BY <1>3, IdleHistory

LEMMA SyncEmptyKeeps ==
    ASSUME TypeOK, UndoInv, NEW n \in Blocks, SyncEmpty(n)
    PROVE  UndoInv'
<1>1. /\ phase = "idle" /\ phase' = "returned" /\ cached_amms' = cached_amms
      /\ touched' = {} /\ affected_amms' = {} /\ block_number' = n
      /\ cache' = cache /\ oldest_block' = oldest_block /\ state' = state
      /\ versions' = RolledBack(n)
  BY DEF SyncEmpty, spaceVars
<1>2. CallLocals' /\ AffectedAreTouched'
  BY <1>1 DEF UndoInv, CallLocals, AffectedAreTouched
<1>3. CASE stale'
  BY <1>2, <1>3 DEF UndoInv, StateIsCanonical, RecordsOrdered
<1>4. CASE ~stale'
  <2>1. /\ ~stale /\ ~(n <= SnapshotBlock) /\ ~(n < oldest_block)
        /\ cache = <<>> \/ ~(cache[1].block_number >= n)
    BY <1>4 DEF SyncEmpty
  <2>2. /\ n \in Versions /\ n \in Nat /\ oldest_block \in Nat /\ oldest_block <= n
    BY <2>1, VersionFacts, BlockAssumption DEF TypeOK
  <2>3. \A r \in RecordsIn(cache) : r.block_number < n
    <3> SUFFICES ASSUME NEW i \in 1..Len(cache)
                 PROVE  cache[i].block_number < n
      BY DEF RecordsIn
    <3>1. cache \in Seq(StateChange) /\ Ordered(cache)
      BY <1>1, <2>1, IdleHistory
    <3>2. Len(cache) \in Nat /\ 1 \in 1..Len(cache)
      BY <3>1, LenProperties
    <3>3. cache # <<>>
      BY <3>2
    <3>4. cache[1].block_number \in Nat /\ cache[i].block_number \in Nat
      BY <3>1, <3>2, RecordType
    <3>5. cache[1].block_number < n
      BY <2>1, <2>2, <3>3, <3>4
    <3>6. CASE i = 1
      BY <3>5, <3>6
    <3>7. CASE i # 1
      <4>1. 1 < i
        BY <3>7
      <4>2. cache[1].block_number > cache[i].block_number
        BY <3>1, <3>2, <4>1 DEF Ordered
      <4>3. QED BY <2>2, <3>4, <3>5, <4>2
    <3>8. QED BY <3>6, <3>7
  <2>4. /\ \A p \in Pools : state[p] = versions[n][p]
        /\ {r \in RecordsIn(cache) : r.block_number < n} = RecordsIn(cache)
    BY <1>1, <2>1, <2>2, <2>3, NothingToUndo
  <2>5. /\ ExactIn(RecordsIn(cache), RolledBack(n))
        /\ CoveredBy(RecordsIn(cache), NoAmms, n, oldest_block, RolledBack(n))
        /\ RolledBack(n)[Top] = versions[n]
    BY <1>1, <2>1, <2>2, <2>4, IdleHistory, RolledBackHistory
  <2>6. StateIsCanonical' /\ RecordsOrdered'
    <3>1. StateIsCanonical'
      BY <1>1, <2>4, <2>5 DEF StateIsCanonical
    <3>2. RecordsOrdered'
      BY <1>1, <1>4, <2>1 DEF UndoInv, RecordsOrdered
    <3>3. QED BY <3>1, <3>2
  <2>7. CallBounds'
    <3>1. \A r \in RecordsIn(cache) : r.block_number \in Nat
      BY <1>1, <2>1, IdleHistory
    <3>2. QED BY <1>1, <2>2, <2>3, <3>1 DEF CallBounds
  <2>8. RecordsExact' /\ ChangesRecorded'
    <3>1. DOMAIN cached_amms = {} /\ DOMAIN NoAmms = {}
      BY <1>1, NoAmmsType DEF UndoInv, CallLocals
    <3>2. RecordsExact'
      BY <1>1, <2>5, <3>1 DEF RecordsExact, ExactIn
    <3>3. ChangesRecorded'
      BY <1>1, <2>5, <3>1 DEF ChangesRecorded, CoveredBy
    <3>4. QED BY <3>2, <3>3
  <2>9. QED BY <1>2, <2>6, <2>7, <2>8 DEF UndoInv
<1>5. QED BY <1>3, <1>4

\* The first log of a call, once the reorg check is done: the records and the
\* pools are then those of the chain that ends before its block.
LEMMA EnterLoopKeeps ==
    ASSUME TypeOK, UndoInv, phase = "idle", NEW n \in Blocks, EnterLoop(n),
           oldest_block' = oldest_block,
           ~stale' =>
             /\ oldest_block <= n
             /\ Ordered(cache')
             /\ RecordsIn(cache') = {r \in RecordsIn(cache) : r.block_number < n}
             /\ \A p \in Pools : state'[p] = versions[n][p]
    PROVE  UndoInv'
<1>1. /\ phase' = "first" /\ cached_amms' = NoAmms /\ DOMAIN NoAmms = {}
      /\ touched' = {} /\ affected_amms' = {} /\ block_number' = n
      /\ versions' = RolledBack(n)
  BY NoAmmsType DEF EnterLoop
<1>2. CallLocals' /\ AffectedAreTouched'
  BY <1>1 DEF CallLocals, AffectedAreTouched
<1>3. CASE stale'
  BY <1>2, <1>3 DEF UndoInv, StateIsCanonical, RecordsOrdered
<1>4. CASE ~stale'
  <2>1. ~stale /\ ~(n <= SnapshotBlock)
    BY <1>4 DEF EnterLoop
  <2>2. n \in Versions /\ n \in Nat /\ SnapshotBlock < n
    BY <2>1, VersionFacts, BlockAssumption
  <2>3. /\ ExactIn(RecordsIn(cache'), RolledBack(n))
        /\ CoveredBy(RecordsIn(cache'), NoAmms, n, oldest_block, RolledBack(n))
        /\ RolledBack(n)[Top] = versions[n]
    BY <1>4, <2>1, <2>2, IdleHistory, RolledBackHistory
  <2>4. StateIsCanonical'
    BY <1>1, <1>4, <2>3 DEF StateIsCanonical
  <2>5. RecordsOrdered'
    <3>1. \A r \in RecordsIn(cache') : r.block_number >= oldest_block
      BY <1>4, <2>1, IdleHistory
    <3>2. QED BY <1>4, <3>1 DEF RecordsOrdered
  <2>6. CallBounds'
    BY <1>1, <1>4, <2>2 DEF CallBounds
  <2>7. RecordsExact'
    BY <1>1, <2>3 DEF RecordsExact, ExactIn
  <2>8. ChangesRecorded'
    BY <1>1, <2>3 DEF ChangesRecorded, CoveredBy
  <2>9. QED BY <1>2, <2>4, <2>5, <2>6, <2>7, <2>8 DEF UndoInv
<1>5. QED BY <1>3, <1>4

LEMMA SyncForwardKeeps ==
    ASSUME TypeOK, UndoInv, NEW n \in Blocks, SyncForward(n)
    PROVE  UndoInv'
<1>1. /\ phase = "idle" /\ latest_block < n /\ EnterLoop(n)
      /\ cache' = cache /\ oldest_block' = oldest_block /\ state' = state
  BY DEF SyncForward, spaceVars
<1>2. ASSUME ~stale'
      PROVE  /\ oldest_block <= n
             /\ Ordered(cache')
             /\ RecordsIn(cache') = {r \in RecordsIn(cache) : r.block_number < n}
             /\ \A p \in Pools : state'[p] = versions[n][p]
  <2>1. ~stale /\ n \in Versions /\ n \in Nat
    <3>1. ~stale /\ ~(n <= SnapshotBlock)
      BY <1>1, <1>2 DEF EnterLoop
    <3>2. QED BY <3>1, VersionFacts, BlockAssumption
  <2>2. /\ oldest_block <= n
        /\ \A r \in RecordsIn(cache) : r.block_number < n
    BY <1>1, <2>1, IdleHistory
  <2>3. QED BY <1>1, <2>1, <2>2, IdleHistory, NothingToUndo
<1>3. QED BY <1>1, <1>2, EnterLoopKeeps

LEMMA SyncUnwindKeeps ==
    ASSUME TypeOK, UndoInv, NEW n \in Blocks, SyncUnwind(n)
    PROVE  UndoInv'
<1>1. /\ phase = "idle" /\ ~(n < oldest_block) /\ EnterLoop(n)
      /\ cache' = Unwind(cache, n) /\ oldest_block' = oldest_block
      /\ state' = Reverted(n)
  BY DEF SyncUnwind, UnwindPanics
<1>2. ASSUME ~stale'
      PROVE  /\ oldest_block <= n
             /\ Ordered(cache')
             /\ RecordsIn(cache') = {r \in RecordsIn(cache) : r.block_number < n}
             /\ \A p \in Pools : state'[p] = versions[n][p]
  <2>1. /\ ~stale /\ n \in Versions /\ n \in Nat /\ n \in Int
        /\ oldest_block \in Nat /\ oldest_block <= n
    <3>1. ~stale /\ ~(n <= SnapshotBlock)
      BY <1>1, <1>2 DEF EnterLoop
    <3>2. oldest_block \in Nat
      BY DEF TypeOK
    <3>3. QED BY <1>1, <3>1, <3>2, VersionFacts, BlockAssumption
  <2>2. Reverted(n) = versions[n]
    BY <1>1, <2>1, RevertedExact
  <2>3. QED BY <1>1, <2>1, <2>2, IdleHistory, UnwindRecords
<1>3. QED BY <1>1, <1>2, EnterLoopKeeps

\* A log of block b made v of pool p: records and cached pools, which are of
\* earlier blocks or hold the pool as it was, stay exact and complete.
LEMMA RecordedHistory ==
    ASSUME TypeOK, NEW b \in Blocks, b \in Versions, NEW p \in Pools, NEW v \in AmmStates,
           NEW recs, NEW cached, NEW oldest \in Nat,
           \A r \in recs : r.block_number < b,
           ExactIn(recs, versions),
           CoveredBy(recs, cached, b, oldest, versions)
    PROVE  LET vers == Recorded(b, p, v) IN
           /\ ExactIn(recs, vers)
           /\ vers[b] = versions[b]
           /\ vers[Top] = [versions[Top] EXCEPT ![p] = v]
           /\ \A amms : DOMAIN amms = DOMAIN cached \cup {p} =>
                  CoveredBy(recs, amms, b, oldest, vers)
<1> DEFINE vers == Recorded(b, p, v)
<1>1. /\ b \in Nat /\ b < Top /\ Top \in Versions /\ Versions \subseteq Nat
  BY VersionFacts
<1>2. /\ \A c \in Versions : c > b => vers[c] = [versions[c] EXCEPT ![p] = v]
      /\ \A c \in Versions : ~(c > b) => vers[c] = versions[c]
  BY DEF Recorded
<1>3. \A c \in Versions : versions[c] \in [Pools -> AmmStates]
  BY DEF TypeOK, Views
<1> HIDE DEF vers
<1>4. vers[b] = versions[b]
  <2>1. ~(b > b)
    BY <1>1
  <2>2. QED BY <1>2, <2>1
<1>5. vers[Top] = [versions[Top] EXCEPT ![p] = v]
  <2>1. Top > b
    BY <1>1
  <2>2. QED BY <1>1, <1>2, <2>1
<1>6. ExactIn(recs, vers)
  <2> SUFFICES ASSUME NEW r \in recs
               PROVE  /\ r.block_number \in Versions
                      /\ \A q \in DOMAIN r.state_change :
                            r.state_change[q] = vers[r.block_number][q]
    BY DEF ExactIn
  <2>1. r.block_number \in Versions /\ r.block_number < b
    BY DEF ExactIn
  <2>2. r.block_number \in Nat
    BY <1>1, <2>1
  <2>3. ~(r.block_number > b)
    BY <1>1, <2>1, <2>2
  <2>4. vers[r.block_number] = versions[r.block_number]
    BY <1>2, <2>1, <2>3
  <2>5. QED BY <2>1, <2>4 DEF ExactIn
<1>7. ASSUME NEW amms, DOMAIN amms = DOMAIN cached \cup {p}
      PROVE  CoveredBy(recs, amms, b, oldest, vers)
  <2> SUFFICES ASSUME NEW q \in Pools, NEW x \in Versions, NEW y \in Versions,
                      oldest <= x, x <= y, vers[x][q] # vers[y][q],
                      ~(q \in DOMAIN amms /\ x <= b /\ b < y)
               PROVE  \E r \in recs : /\ q \in DOMAIN r.state_change
                                     /\ x <= r.block_number
                                     /\ r.block_number < y
    BY DEF CoveredBy
  <2>1. x \in Nat /\ y \in Nat
    BY <1>1
  <2>2. versions[x][q] # versions[y][q]
    <3>1. CASE q # p
      <4>1. \A c \in Versions : vers[c][q] = versions[c][q]
        BY <1>2, <1>3, <3>1
      <4>2. QED BY <4>1
    <3>2. CASE q = p
      <4>1. ~(x <= b /\ b < y)
        BY <1>7, <3>2
      <4>2. CASE y <= b
        <5>1. ~(x > b) /\ ~(y > b)
          BY <1>1, <2>1, <4>2
        <5>2. QED BY <1>2, <5>1
      <4>3. CASE ~(y <= b)
        <5>1. x > b /\ y > b
          BY <1>1, <2>1, <4>1, <4>3
        <5>2. vers[x][q] = v /\ vers[y][q] = v
          BY <1>2, <1>3, <3>2, <5>1
        <5>3. QED BY <5>2
      <4>4. QED BY <4>2, <4>3
    <3>3. QED BY <3>1, <3>2
  <2>3. ~(q \in DOMAIN cached /\ x <= b /\ b < y)
    BY <1>7
  <2>4. QED BY <2>2, <2>3 DEF CoveredBy
<1>8. QED BY <1>4, <1>5, <1>6, <1>7 DEF vers

LEMMA SyncLogKeeps ==
    ASSUME TypeOK, UndoInv, NEW b \in Blocks, NEW p \in Pools, NEW v \in AmmStates,
           SyncLog(b, p, v)
    PROVE  UndoInv'
<1> DEFINE cached == CachedAt(b)
           amms == WithPool(cached, p)
<1>1. /\ AtLog(b) /\ phase \in {"first", "loop"} /\ phase' = "loop"
      /\ cached_amms' = amms
      /\ state' = [state EXCEPT ![p] = v]
      /\ versions' = Recorded(b, p, v)
      /\ touched' = touched \cup {p} /\ stale' = stale
      /\ block_number' = b
  BY DEF SyncLog, AtLog
<1>2. /\ cached \in AmmSet
      /\ DOMAIN amms = DOMAIN cached \cup {p}
      /\ \A q \in DOMAIN amms : amms[q] = IF q \in DOMAIN cached THEN cached[q] ELSE state[q]
  BY <1>1, AtLogType, WithPoolType DEF WithPool
<1> HIDE DEF amms
<1>3. touched' = affected_amms' \cup DOMAIN cached_amms'
  <2>1. touched = affected_amms \cup DOMAIN cached_amms
    BY <1>1 DEF UndoInv, CallLocals
  <2>2. affected_amms \cup DOMAIN cached_amms = affected_amms' \cup DOMAIN cached
    <3>1. CASE b = block_number
      BY <1>1, <3>1 DEF AtLog, CachedAt
    <3>2. CASE b # block_number
      BY <1>1, <3>2, NoAmmsType DEF AtLog, CachedAt, CacheBlock
    <3>3. QED BY <3>1, <3>2
  <2> HIDE DEF cached
  <2>3. QED BY <1>1, <1>2, <2>1, <2>2
<1>4. CallLocals' /\ AffectedAreTouched'
  BY <1>1, <1>3 DEF CallLocals, AffectedAreTouched
<1>5. CASE stale'
  BY <1>4, <1>5 DEF UndoInv, StateIsCanonical, RecordsOrdered
<1>6. CASE ~stale'
  <2> DEFINE recs == RecordsIn(cache')
  <2>1. /\ Ordered(cache')
        /\ \A r \in recs : r.block_number >= oldest_block' /\ r.block_number < b
        /\ oldest_block' \in Nat /\ oldest_block' <= b
        /\ ExactIn(recs, versions)
        /\ b \in Versions /\ b \in Nat /\ SnapshotBlock < b
        /\ \A q \in DOMAIN cached : cached[q] = versions[b][q]
        /\ CoveredBy(recs, cached, b, oldest_block', versions)
    BY <1>1, <1>6, AtLogHistory, VersionFacts
  <2>2. \A q \in Pools : state[q] = versions[Top][q]
    BY <1>1, <1>6 DEF UndoInv, StateIsCanonical
  <2> HIDE DEF recs, cached
  <2>3. /\ ExactIn(recs, versions')
        /\ versions'[b] = versions[b]
        /\ versions'[Top] = [versions[Top] EXCEPT ![p] = v]
        /\ CoveredBy(recs, amms, b, oldest_block', versions')
    <3> DEFINE oldest == oldest_block'
    <3>1. /\ oldest \in Nat /\ ExactIn(recs, versions)
          /\ CoveredBy(recs, cached, b, oldest, versions)
          /\ \A r \in recs : r.block_number < b
      BY <2>1
    <3> HIDE DEF oldest
    <3>2. /\ ExactIn(recs, Recorded(b, p, v))
          /\ Recorded(b, p, v)[b] = versions[b]
          /\ Recorded(b, p, v)[Top] = [versions[Top] EXCEPT ![p] = v]
      <4>1. ExactIn(recs, Recorded(b, p, v))
        BY <2>1, <3>1, RecordedHistory
      <4>2. Recorded(b, p, v)[b] = versions[b]
        BY <2>1, <3>1, RecordedHistory
      <4>3. Recorded(b, p, v)[Top] = [versions[Top] EXCEPT ![p] = v]
        <5>1. Top \in Versions /\ Top > b
          BY VersionFacts
        <5>2. QED BY <5>1 DEF Recorded
      <4>4. QED BY <4>1, <4>2, <4>3
    <3>3. \A new : DOMAIN new = DOMAIN cached \cup {p} =>
              CoveredBy(recs, new, b, oldest, Recorded(b, p, v))
      BY <2>1, <3>1, RecordedHistory
    <3>4. CoveredBy(recs, amms, b, oldest, Recorded(b, p, v))
      BY <1>2, <3>3
    <3>5. QED BY <1>1, <3>2, <3>4 DEF oldest
  <2>4. StateIsCanonical'
    <3>1. state \in [Pools -> AmmStates] /\ versions[Top] \in [Pools -> AmmStates]
      BY VersionFacts DEF TypeOK, Views
    <3>2. \A q \in Pools : state'[q] = versions'[Top][q]
      BY <1>1, <2>2, <2>3, <3>1
    <3>3. QED BY <3>2 DEF StateIsCanonical
  <2>5. RecordsOrdered'
    BY <2>1 DEF RecordsOrdered, recs
  <2>6. CallBounds'
    BY <1>1, <2>1 DEF CallBounds, recs
  <2>7. RecordsExact'
    <3>1. ASSUME NEW q \in DOMAIN amms
          PROVE  amms[q] = versions'[b][q]
      <4>1. CASE q \in DOMAIN cached
        BY <1>2, <2>1, <2>3, <4>1
      <4>2. CASE q \notin DOMAIN cached
        <5>1. q = p /\ amms[q] = state[q]
          BY <1>2, <4>2
        <5>2. Top \in Versions /\ Top \in Nat /\ b <= Top /\ oldest_block' <= b
          BY <2>1, VersionFacts
        <5>3. \A r \in recs : r.block_number \in Nat
          BY <2>1, VersionFacts DEF ExactIn
        <5>4. \A r \in recs : ~(b <= r.block_number)
          BY <2>1, <5>3
        <5>5. versions[b][q] = versions[Top][q]
          BY <2>1, <4>2, <5>1, <5>2, <5>4 DEF CoveredBy
        <5>6. QED BY <2>2, <2>3, <5>1, <5>5
      <4>3. QED BY <4>1, <4>2
    <3>2. QED BY <1>1, <2>3, <3>1 DEF RecordsExact, ExactIn, recs
  <2>8. ChangesRecorded'
    BY <1>1, <2>3 DEF ChangesRecorded, CoveredBy, recs
  <2>9. QED BY <1>4, <2>4, <2>5, <2>6, <2>7, <2>8 DEF UndoInv
<1>7. QED BY <1>5, <1>6

LEMMA SkipLogKeeps ==
    ASSUME TypeOK, UndoInv, NEW b \in Blocks, SkipLog(b)
    PROVE  UndoInv'
<1>1. /\ AtLog(b) /\ phase \in {"first", "loop"} /\ phase' = "loop"
      /\ cached_amms' = CachedAt(b) /\ state' = state
      /\ versions' = versions /\ touched' = touched /\ stale' = stale
      /\ block_number' = b
  BY DEF SkipLog, AtLog, historyVars
<1>2. touched' = affected_amms' \cup DOMAIN cached_amms'
  <2>1. touched = affected_amms \cup DOMAIN cached_amms
    BY <1>1 DEF UndoInv, CallLocals
  <2>2. CASE b = block_number
    BY <1>1, <2>1, <2>2 DEF AtLog, CachedAt
  <2>3. CASE b # block_number
    BY <1>1, <2>1, <2>3, NoAmmsType DEF AtLog, CachedAt, CacheBlock
  <2>4. QED BY <2>2, <2>3
<1>3. CallLocals' /\ AffectedAreTouched'
  BY <1>1, <1>2 DEF CallLocals, AffectedAreTouched
<1>4. CASE stale'
  BY <1>3, <1>4 DEF UndoInv, StateIsCanonical, RecordsOrdered
<1>5. CASE ~stale'
  <2>1. /\ Ordered(cache')
        /\ \A r \in RecordsIn(cache') : r.block_number >= oldest_block' /\ r.block_number < b
        /\ oldest_block' \in Nat /\ oldest_block' <= b
        /\ ExactIn(RecordsIn(cache'), versions)
        /\ b \in Versions /\ b \in Nat /\ SnapshotBlock < b
        /\ \A q \in DOMAIN CachedAt(b) : CachedAt(b)[q] = versions[b][q]
        /\ CoveredBy(RecordsIn(cache'), CachedAt(b), b, oldest_block', versions)
    BY <1>1, <1>5, AtLogHistory, VersionFacts
  <2>2. StateIsCanonical'
    BY <1>1 DEF UndoInv, StateIsCanonical
  <2>3. RecordsOrdered'
    BY <2>1 DEF RecordsOrdered
  <2>4. CallBounds'
    BY <1>1, <2>1 DEF CallBounds
  <2>5. RecordsExact' /\ ChangesRecorded'
    BY <1>1, <2>1 DEF RecordsExact, ChangesRecorded, ExactIn, CoveredBy
  <2>6. QED BY <1>3, <2>2, <2>3, <2>4, <2>5 DEF UndoInv
<1>6. QED BY <1>4, <1>5

LEMMA SyncLogFailsKeeps ==
    ASSUME TypeOK, UndoInv, NEW b \in Blocks, NEW p \in Pools, NEW v \in AmmStates,
           SyncLogFails(b, p, v)
    PROVE  UndoInv'
<1>1. /\ AtLog(b) /\ phase \in {"first", "loop"} /\ phase' = "failed"
      /\ cached_amms' = NoAmms
      /\ state' = [state EXCEPT ![p] = v]
      /\ versions' = versions
      /\ touched' = touched \cup {p} /\ stale' = stale
  BY DEF SyncLogFails, AtLog
<1>2. CallLocals' /\ AffectedAreTouched'
  BY <1>1, NoAmmsType DEF CallLocals, AffectedAreTouched
<1>3. CASE stale'
  BY <1>2, <1>3 DEF UndoInv, StateIsCanonical, RecordsOrdered
<1>4. CASE ~stale'
  <2>1. Ordered(cache') /\ \A r \in RecordsIn(cache') : r.block_number >= oldest_block'
    BY <1>1, <1>4, AtLogHistory
  <2>2. RecordsOrdered'
    BY <2>1 DEF RecordsOrdered
  <2>3. StateIsCanonical'
    <3>1. \A q \in Pools : state[q] = versions[Top][q]
      BY <1>1, <1>4 DEF UndoInv, StateIsCanonical
    <3>2. \A q \in Pools : q # p => state'[q] = state[q]
      BY <1>1 DEF TypeOK, Views
    <3>3. QED BY <1>1, <3>1, <3>2 DEF StateIsCanonical
  <2>4. CallBounds'
    BY <1>1 DEF CallBounds
  <2>5. QED BY <1>1, <1>2, <2>2, <2>3, <2>4 DEF UndoInv
<1>5. QED BY <1>3, <1>4

LEMMA SyncReturnKeeps ==
    ASSUME TypeOK, UndoInv, SyncReturn
    PROVE  UndoInv'
<1>1. /\ phase = "loop" /\ phase' = "returned" /\ cached_amms' = NoAmms
      /\ DOMAIN NoAmms = {}
      /\ state' = state /\ block_number' = block_number /\ versions' = versions
      /\ touched' = touched /\ stale' = stale
  BY NoAmmsType DEF SyncReturn, historyVars
<1>2. touched' = affected_amms'
  <2>1. touched = affected_amms \cup DOMAIN cached_amms
    BY <1>1 DEF UndoInv, CallLocals
  <2>2. QED BY <1>1, <2>1 DEF SyncReturn, CacheBlock
<1>3. CallLocals' /\ AffectedAreTouched'
  BY <1>1, <1>2 DEF CallLocals, AffectedAreTouched
<1>4. CASE stale'
  BY <1>3, <1>4 DEF UndoInv, StateIsCanonical, RecordsOrdered
<1>5. CASE ~stale'
  <2>1. /\ Ordered(cache')
        /\ \A r \in RecordsIn(cache') :
              r.block_number >= oldest_block' /\ r.block_number <= block_number
        /\ oldest_block' <= block_number
        /\ ExactIn(RecordsIn(cache'), versions)
        /\ CoveredBy(RecordsIn(cache'), NoAmms, block_number, oldest_block', versions)
    <3>1. CASE DOMAIN cached_amms = {}
      <4>1. cache' = cache /\ oldest_block' = oldest_block
        BY <3>1 DEF SyncReturn
      <4>2. /\ Ordered(cache)
            /\ \A r \in RecordsIn(cache) :
                  r.block_number >= oldest_block /\ r.block_number < block_number
            /\ oldest_block <= block_number
        BY <1>1, <1>5 DEF UndoInv, RecordsOrdered, CallBounds
      <4>3. \A r \in RecordsIn(cache) : r.block_number \in Nat
        BY RecordType DEF RecordsIn, TypeOK
      <4>4. \A r \in RecordsIn(cache) : r.block_number <= block_number
        BY <4>2, <4>3 DEF TypeOK
      <4>5. /\ ExactIn(RecordsIn(cache), versions)
            /\ CoveredBy(RecordsIn(cache), cached_amms, block_number, oldest_block, versions)
        BY <1>1, <1>5 DEF UndoInv, RecordsExact, ChangesRecorded, ExactIn, CoveredBy
      <4>6. CoveredBy(RecordsIn(cache), NoAmms, block_number, oldest_block, versions)
        BY <1>1, <3>1, <4>5 DEF CoveredBy
      <4>7. QED BY <4>1, <4>2, <4>4, <4>5, <4>6
    <3>2. CASE DOMAIN cached_amms # {}
      <4>1. CacheBlock
        BY <3>2 DEF SyncReturn
      <4>2. QED BY <1>1, <1>5, <4>1, CacheBlockHistory
    <3>3. QED BY <3>1, <3>2
  <2>2. StateIsCanonical'
    BY <1>1 DEF UndoInv, StateIsCanonical
  <2>3. RecordsOrdered'
    BY <2>1 DEF RecordsOrdered
  <2>4. CallBounds'
    BY <1>1, <2>1 DEF CallBounds
  <2>5. RecordsExact' /\ ChangesRecorded'
    BY <1>1, <2>1 DEF RecordsExact, ChangesRecorded, ExactIn, CoveredBy
  <2>6. QED BY <1>3, <2>2, <2>3, <2>4, <2>5 DEF UndoInv
<1>6. QED BY <1>4, <1>5

\* The steps that leave the records and the history as they are.
LEMMA OtherStepsKeep ==
    ASSUME TypeOK, UndoInv,
           \/ \E n \in Blocks : SyncPanic(n)
           \/ MissingBlockNumber
           \/ StoreLatest
           \/ UNCHANGED vars
    PROVE  UndoInv'
<1>0. DOMAIN NoAmms = {}
  BY NoAmmsType
<1>1. ASSUME NEW n \in Blocks, SyncPanic(n)
      PROVE  UndoInv'
  <2>1. /\ phase = "idle" /\ phase' = "panicked"
        /\ UNCHANGED <<spaceVars, block_number, cached_amms, affected_amms, historyVars>>
    BY <1>1 DEF SyncPanic
  <2>2. QED
    BY <2>1 DEF spaceVars, historyVars, UndoInv, CallLocals, AffectedAreTouched,
       StateIsCanonical, RecordsOrdered, CallBounds, RecordsExact, ChangesRecorded
<1>2. CASE MissingBlockNumber
  <2>1. /\ phase \in {"idle", "loop"} /\ phase' = "failed" /\ cached_amms' = NoAmms
        /\ UNCHANGED <<spaceVars, versions, stale>>
    BY <1>2 DEF MissingBlockNumber
  <2>2. QED
    BY <1>0, <2>1 DEF spaceVars, UndoInv, CallLocals, AffectedAreTouched,
       StateIsCanonical, RecordsOrdered, CallBounds
<1>3. CASE StoreLatest
  <2>1. /\ phase = "returned" /\ phase' = "idle" /\ latest_block' = block_number
        /\ UNCHANGED <<state, oldest_block, cache, block_number, cached_amms,
                       affected_amms, historyVars>>
    BY <1>3 DEF StoreLatest
  <2>2. QED
    BY <2>1 DEF historyVars, UndoInv, CallLocals, AffectedAreTouched,
       StateIsCanonical, RecordsOrdered, CallBounds, RecordsExact, ChangesRecorded
<1>4. CASE UNCHANGED vars
  BY <1>4 DEF vars, spaceVars, callVars, historyVars, UndoInv, CallLocals,
     AffectedAreTouched, StateIsCanonical, RecordsOrdered, CallBounds, RecordsExact,
     ChangesRecorded
<1>5. QED BY <1>1, <1>2, <1>3, <1>4

LEMMA InitUndo ==
    ASSUME Init
    PROVE  UndoInv
<1>1. /\ phase = "idle" /\ cached_amms = NoAmms /\ DOMAIN NoAmms = {}
      /\ latest_block = 0 /\ oldest_block = 0
  BY NoAmmsType DEF Init
<1>2. cache = <<>>
  BY DEF Init
<1>3. RecordsIn(cache) = {} /\ Ordered(cache)
  BY <1>2 DEF RecordsIn, Ordered
<1>4. /\ versions = [b \in Versions |-> state]
      /\ Top \in Versions
  BY VersionFacts DEF Init
<1>5. CallLocals /\ AffectedAreTouched
  BY <1>1 DEF CallLocals, AffectedAreTouched
<1>6. StateIsCanonical
  BY <1>4 DEF StateIsCanonical
<1>7. RecordsOrdered /\ CallBounds
  BY <1>1, <1>3 DEF RecordsOrdered, CallBounds
<1>8. RecordsExact /\ ChangesRecorded
  BY <1>1, <1>3, <1>4 DEF RecordsExact, ChangesRecorded
<1>9. QED BY <1>5, <1>6, <1>7, <1>8 DEF UndoInv

\* The undo records are at all times exact and complete for every block the
\* cache still accepts a rollback to, in the middle of a call as between
\* calls, until an error ends them or a reorg goes unnoticed (UndoInv).
THEOREM UndoCorrect == Spec => []UndoInv
<1>1. Init => UndoInv
  BY InitUndo
<1>2. TypeOK /\ UndoInv /\ [Next]_vars => UndoInv'
  <2> SUFFICES ASSUME TypeOK, UndoInv, [Next]_vars
               PROVE  UndoInv'
    OBVIOUS
  <2>1. ASSUME NEW n \in Blocks, SyncEmpty(n) \/ SyncForward(n) \/ SyncUnwind(n)
        PROVE  UndoInv'
    BY <2>1, SyncEmptyKeeps, SyncForwardKeeps, SyncUnwindKeeps
  <2>2. ASSUME NEW b \in Blocks, NEW p \in Pools, NEW v \in AmmStates,
               SyncLog(b, p, v) \/ SyncLogFails(b, p, v)
        PROVE  UndoInv'
    BY <2>2, SyncLogKeeps, SyncLogFailsKeeps
  <2>3. ASSUME NEW b \in Blocks, SkipLog(b)
        PROVE  UndoInv'
    BY <2>3, SkipLogKeeps
  <2>4. CASE SyncReturn
    BY <2>4, SyncReturnKeeps
  <2>5. ASSUME NEW n \in Blocks, SyncPanic(n)
        PROVE  UndoInv'
    BY <2>5, OtherStepsKeep
  <2>6. CASE MissingBlockNumber \/ StoreLatest \/ UNCHANGED vars
    BY <2>6, OtherStepsKeep
  <2>7. QED BY <2>1, <2>2, <2>3, <2>4, <2>5, <2>6 DEF Next
<1>3. QED BY <1>1, <1>2, TypeCorrect, PTL DEF Spec

\* Between calls, unwind_state_changes would restore exactly the pools as they
\* were before any block it does not panic at (RollbackExact).
THEOREM RollbackIsExact == Spec => []RollbackExact
<1>1. TypeOK /\ UndoInv => RollbackExact
  <2> SUFFICES ASSUME TypeOK, UndoInv, phase \in {"idle", "returned"}, ~stale,
                      NEW b \in Versions, ~(b < oldest_block)
               PROVE  Reverted(b) = versions[b]
    BY DEF RollbackExact, Between, UnwindPanics
  <2>1. oldest_block <= b
    BY VersionFacts DEF TypeOK
  <2>2. QED BY <2>1, RevertedExact
<1>2. QED BY <1>1, TypeCorrect, UndoCorrect, PTL

\* Whatever reorgs the cache accepts, the pools are those of the chain as its
\* logs were delivered (StateIsCanonical).
THEOREM StateCorrect == Spec => []StateIsCanonical
<1>1. UndoInv => StateIsCanonical
  BY DEF UndoInv
<1>2. QED BY <1>1, UndoCorrect, PTL

\* The block numbers of the records strictly decrease from the newest to the
\* oldest, and none is below the oldest block (RecordsOrdered).
THEOREM OrderCorrect == Spec => []RecordsOrdered
<1>1. UndoInv => RecordsOrdered
  BY DEF UndoInv
<1>2. QED BY <1>1, UndoCorrect, PTL

\* sync reports exactly the pools its logs were applied to
\* (AffectedAreTouched).
THEOREM AffectedCorrect == Spec => []AffectedAreTouched
<1>1. UndoInv => AffectedAreTouched
  BY DEF UndoInv
<1>2. QED BY <1>1, UndoCorrect, PTL
=============================================================================
