------------------------- MODULE SavePipelineProofs -------------------------
(* Theorems of SaveReceipts, for every set of runs and every limit, and of  *)
(* SavePipeline, for every number of runs, workers, jobs and pending        *)
(* commits.                                                                 *)
EXTENDS SavePipeline, SequenceTheorems, FiniteSetTheorems, TLAPS

-----------------------------------------------------------------------------
(***************************************************************************)
(* Part one: what a reader is told (SaveReceipts).                         *)
(***************************************************************************)

(* The operators on sequences. *)

\* Appending adds one element.
LEMMA AppendSet ==
    ASSUME NEW S, NEW s \in Seq(S), NEW e \in S
    PROVE  /\ Append(s, e) \in Seq(S)
           /\ Len(Append(s, e)) = Len(s) + 1
           /\ ToSet(Append(s, e)) = ToSet(s) \cup {e}
<1> DEFINE t == Append(s, e)
<1>1. /\ t \in Seq(S) /\ Len(t) = Len(s) + 1
      /\ t[Len(s) + 1] = e
      /\ \A i \in 1 .. Len(s) : t[i] = s[i]
  BY AppendProperties
<1>2. DOMAIN t = 1 .. Len(s) + 1 /\ DOMAIN s = 1 .. Len(s)
  BY <1>1, LenProperties
<1>3. ToSet(t) \subseteq ToSet(s) \cup {e}
  BY <1>1, <1>2, LenProperties DEF ToSet
<1>4. ToSet(s) \subseteq ToSet(t)
  BY <1>1, <1>2, LenProperties DEF ToSet
<1>5. e \in ToSet(t)
  BY <1>1, <1>2, LenProperties DEF ToSet
<1> QED
  BY <1>1, <1>3, <1>4, <1>5

\* Newest keeps the limit and drops from the front, never the last entry.
LEMMA NewestSeq ==
    ASSUME NEW S, NEW s \in Seq(S), NEW limit \in Nat \ {0}
    PROVE  /\ Newest(limit, s) \in Seq(S)
           /\ Len(Newest(limit, s)) <= limit
           /\ ToSet(Newest(limit, s)) \subseteq ToSet(s)
           /\ s # <<>> => s[Len(s)] \in ToSet(Newest(limit, s))
<1>1. CASE Len(s) <= limit
  BY <1>1 DEF Newest, ToSet
<1>2. CASE Len(s) > limit
  <2> DEFINE m == Len(s) - limit + 1
             t == SubSeq(s, m, Len(s))
  <2>1. /\ t \in Seq(S) /\ Len(t) = limit
        /\ \A i \in 1 .. limit : t[i] = s[i + m - 1]
    BY <1>2, SubSeqProperties
  <2>2. ToSet(t) \subseteq ToSet(s)
    BY <1>2, <2>1 DEF ToSet
  <2>3. s[Len(s)] \in ToSet(t)
    <3>1. t[limit] = s[Len(s)] /\ limit \in DOMAIN t
      BY <1>2, <2>1
    <3> QED
      BY <3>1 DEF ToSet
  <2> QED
    BY <1>2, <2>1, <2>2, <2>3 DEF Newest, ToSet
<1> QED
  BY <1>1, <1>2

-----------------------------------------------------------------------------
(* Type correctness.  A run of another origin never has a receipt, because  *)
(* its request never waits for one.                                         *)

Origins == \A r \in OtherOrigin : request[r] # "analysed" /\ record[r] = NoRecord

ReceiptsInv == ReceiptsTypeOK /\ Origins

LEMMA PutTyped ==
    ASSUME ReceiptsInv, NEW r \in Runs, Put(r)
    PROVE  ReceiptsInv'
<1>1. held' \in Seq(Runs) /\ Len(held') <= RunLimit
  BY AppendSet, NewestSeq, ReceiptsAssumption DEF Put, ReceiptsInv, ReceiptsTypeOK
<1> QED
  BY <1>1 DEF Put, ReceiptsInv, ReceiptsTypeOK, Origins

LEMMA OpenTyped ==
    ASSUME ReceiptsInv, NEW r \in Runs, Open(r)
    PROVE  ReceiptsInv' /\ record'[r] # NoRecord /\ r \notin OtherOrigin
<1> USE DEF ReceiptsInv, ReceiptsTypeOK
<1> DEFINE all == Append(opened, r)
<1>1. /\ all \in Seq(Runs) /\ Len(all) = Len(opened) + 1
      /\ ToSet(all) = ToSet(opened) \cup {r}
  BY AppendSet
<1>2. opened' = Newest(ReceiptLimit, all) /\ opened' \in Seq(Runs) /\ Len(opened') <= ReceiptLimit
  BY <1>1, NewestSeq, ReceiptsAssumption DEF Open
<1>3. ToSet(opened') \subseteq ToSet(opened) \cup {r} /\ r \in ToSet(opened')
  <2>1. all # <<>> /\ all[Len(all)] = r
    BY <1>1, AppendProperties
  <2>2. /\ ToSet(Newest(ReceiptLimit, all)) \subseteq ToSet(all)
        /\ all[Len(all)] \in ToSet(Newest(ReceiptLimit, all))
    BY <1>1, <2>1, NewestSeq, ReceiptsAssumption
  <2> QED
    BY <1>1, <1>2, <2>1, <2>2
<1>4. r \notin OtherOrigin
  BY DEF Open, Origins
<1>5. /\ record' \in [Runs -> States \cup {NoRecord}]
      /\ \A x \in Runs : record'[x] = NoRecord <=> x \notin ToSet(opened')
  BY <1>3 DEF Open, States, Settled, NoRecord
<1>6. Origins'
  BY <1>3, <1>4, ReceiptsAssumption DEF Open, Origins
<1> QED
  BY <1>2, <1>3, <1>4, <1>5, <1>6 DEF Open

LEMMA PollStoreTyped ==
    ASSUME ReceiptsInv, NEW readable \in BOOLEAN, PollStore(readable)
    PROVE  /\ ReceiptsInv'
           /\ poll.run \in Runs
           /\ told'[poll.run] = "SAVED" => poll.run \in stored
<1> USE DEF ReceiptsInv, ReceiptsTypeOK
<1>1. poll \in [run : Runs, held : BOOLEAN]
  BY DEF PollStore
<1>2. Unrecorded(poll.run, poll.held, Returns(poll.run, readable))
        \in States \cup {NotFound}
  BY DEF Unrecorded, States, Settled
<1>3. Unrecorded(poll.run, poll.held, Returns(poll.run, readable)) = "SAVED"
        => poll.run \in stored
  BY <1>1 DEF Unrecorded, Returns, NotFound
<1> QED
  BY <1>1, <1>2, <1>3 DEF PollStore, Idle, Origins

LEMMA ReceiptsInductive ==
    /\ ReceiptsInit => ReceiptsInv
    /\ ReceiptsInv /\ [ReceiptsNext]_receiptVars => ReceiptsInv'
<1>1. ReceiptsInit => ReceiptsInv
  BY ReceiptsAssumption
     DEF ReceiptsInit, ReceiptsInv, ReceiptsTypeOK, Origins, ToSet, Idle, NoRecord
<1>2. ASSUME ReceiptsInv, [ReceiptsNext]_receiptVars PROVE ReceiptsInv'
  <2> USE <1>2 DEF ReceiptsInv, ReceiptsTypeOK, Origins
  <2>1. ASSUME NEW r \in Runs, Put(r) PROVE ReceiptsInv'
    BY <2>1, PutTyped
  <2>2. ASSUME NEW r \in Runs, Open(r) PROVE ReceiptsInv'
    BY <2>2, OpenTyped
  <2>3. ASSUME NEW r \in Runs, Commit(r) PROVE ReceiptsInv'
    BY <2>3 DEF Commit
  <2>4. ASSUME NEW r \in Runs, PollRecord(r) PROVE ReceiptsInv'
    <3> DEFINE isHeld == r \in ToSet(held)
               P == [run : Runs, held : BOOLEAN] \cup {Idle}
    <3>1. \A b \in BOOLEAN : [run |-> r, held |-> b] \in P
      BY DEF Idle
    <3>2. isHeld \in BOOLEAN
      OBVIOUS
    <3>3. [run |-> r, held |-> isHeld] \in P
      <4> HIDE DEF isHeld, P
      <4> QED
        BY <3>1, <3>2, Zenon
    <3>4. poll \in P
      OBVIOUS
    <3>5. poll' \in P
      <4>1. UNCHANGED poll \/ poll' = [run |-> r, held |-> isHeld]
        BY <2>4, Zenon DEF PollRecord
      <4> HIDE DEF isHeld, P
      <4> QED
        BY <4>1, <3>3, <3>4, Zenon
    <3>6. told' \in [Runs -> States \cup {NotFound, NoAnswer}]
      BY <2>4 DEF PollRecord
    <3> QED
      BY <2>4, <3>5, <3>6 DEF PollRecord
  <2>5. ASSUME NEW r \in Runs, NEW state \in Settled, Settle(r, state) PROVE ReceiptsInv'
    BY <2>5 DEF Settle, SettleRecord, SettledRecord, Settled, States, NoRecord
  <2>6. ASSUME NEW readable \in BOOLEAN, PollStore(readable) PROVE ReceiptsInv'
    BY <2>6, PollStoreTyped
  <2>7. ASSUME Restart PROVE ReceiptsInv'
    BY <2>7, ReceiptsAssumption DEF Restart, ToSet, Idle
  <2>8. ASSUME UNCHANGED receiptVars PROVE ReceiptsInv'
    BY <2>8 DEF receiptVars
  <2> QED
    BY <2>1, <2>2, <2>3, <2>4, <2>5, <2>6, <2>7, <2>8 DEF ReceiptsNext
<1> QED
  BY <1>1, <1>2

\* The receipts keep their shape and both limits, whatever the constants.
THEOREM ReceiptsTyped == ReceiptsSpec => []ReceiptsTypeOK
<1>1. ReceiptsInv => ReceiptsTypeOK
  BY DEF ReceiptsInv
<1> QED
  BY <1>1, ReceiptsInductive, PTL DEF ReceiptsSpec

-----------------------------------------------------------------------------
(* Who is told SAVED: the record and the database may say it, and both only *)
(* of a stored run.  The database forgets nothing.                          *)

RecordedIsStored == \A r \in Runs : record[r] = "SAVED" => r \in stored

\* Whoever was told SAVED was told of a run the database holds.
THEOREM ReceiptsToldSaved == ReceiptsSpec => []ToldSavedIsStored
<1> DEFINE Inv == ReceiptsInv /\ RecordedIsStored /\ ToldSavedIsStored
<1> USE DEF RecordedIsStored, ToldSavedIsStored
<1>1. ReceiptsInit => Inv
  BY ReceiptsInductive DEF ReceiptsInit, NoRecord, NoAnswer
<1>2. Inv /\ [ReceiptsNext]_receiptVars => Inv'
  <2> SUFFICES ASSUME Inv, [ReceiptsNext]_receiptVars
               PROVE  (RecordedIsStored /\ ToldSavedIsStored)'
    BY ReceiptsInductive
  <2> USE DEF ReceiptsInv, ReceiptsTypeOK
  <2>1. ASSUME NEW r \in Runs, Put(r) PROVE (RecordedIsStored /\ ToldSavedIsStored)'
    BY <2>1 DEF Put
  <2>2. ASSUME NEW r \in Runs, Open(r) PROVE (RecordedIsStored /\ ToldSavedIsStored)'
    BY <2>2 DEF Open, NoRecord
  <2>3. ASSUME NEW r \in Runs, Commit(r) PROVE (RecordedIsStored /\ ToldSavedIsStored)'
    BY <2>3 DEF Commit
  <2>4. ASSUME NEW r \in Runs, PollRecord(r) PROVE (RecordedIsStored /\ ToldSavedIsStored)'
    BY <2>4 DEF PollRecord, NotFound
  <2>5. ASSUME NEW r \in Runs, NEW state \in Settled, Settle(r, state)
        PROVE  (RecordedIsStored /\ ToldSavedIsStored)'
    BY <2>5 DEF Settle, SettleRecord, SettledRecord, Settled
  <2>6. ASSUME NEW readable \in BOOLEAN, PollStore(readable)
        PROVE  (RecordedIsStored /\ ToldSavedIsStored)'
    BY <2>6, PollStoreTyped DEF PollStore
  <2>7. ASSUME Restart PROVE (RecordedIsStored /\ ToldSavedIsStored)'
    BY <2>7 DEF Restart, NoRecord
  <2>8. ASSUME UNCHANGED receiptVars PROVE (RecordedIsStored /\ ToldSavedIsStored)'
    BY <2>8 DEF receiptVars
  <2> QED
    BY <2>1, <2>2, <2>3, <2>4, <2>5, <2>6, <2>7, <2>8 DEF ReceiptsNext
<1> QED
  BY <1>1, <1>2, PTL DEF ReceiptsSpec
-----------------------------------------------------------------------------
(***************************************************************************)
(* A run that is still shown keeps its receipt, when the limits leave room *)
(* for the requests that overtake one another.                             *)
(***************************************************************************)
Distinct(s) == \A i, j \in DOMAIN s : s[i] = s[j] => i = j

\* The entries of s that are younger than x.
After(s, x) == {s[j] : j \in {n \in DOMAIN s : \E i \in DOMAIN s : i < n /\ s[i] = x}}

\* The last n entries of a sequence without duplicates are n.
LEMMA AfterCount ==
    ASSUME NEW S, NEW s \in Seq(S), Distinct(s), NEW i \in DOMAIN s
    PROVE  /\ IsFiniteSet(After(s, s[i]))
           /\ Cardinality(After(s, s[i])) = Len(s) - i
           /\ s[i] \notin After(s, s[i])
           /\ After(s, s[i]) \subseteq ToSet(s)
<1> DEFINE I == i+1 .. Len(s)
           f == [j \in I |-> s[j]]
<1>1. DOMAIN s = 1 .. Len(s) /\ Len(s) \in Nat
  OBVIOUS
<1>2. After(s, s[i]) = {s[j] : j \in I}
  <2>1. {n \in DOMAIN s : \E k \in DOMAIN s : k < n /\ s[k] = s[i]} = I
    BY <1>1 DEF Distinct
  <2> QED
    BY <2>1 DEF After
<1>3. f \in Bijection(I, After(s, s[i]))
  <2>1. \A j, k \in I : f[j] = f[k] => j = k
    BY <1>1 DEF Distinct
  <2>2. \A x \in After(s, s[i]) : \E j \in I : f[j] = x
    BY <1>2
  <2>3. f \in [I -> After(s, s[i])]
    BY <1>2
  <2> HIDE DEF f
  <2> QED
    BY <2>1, <2>2, <2>3 DEF Bijection, Injection, Surjection, IsInjective
<1>4. IsFiniteSet(I) /\ Cardinality(I) = Len(s) - i
  <2>1. i + 1 \in Int /\ Len(s) \in Int /\ i <= Len(s)
    BY <1>1
  <2>2. IsFiniteSet(I) /\ Cardinality(I) = IF i + 1 > Len(s) THEN 0 ELSE Len(s) - (i + 1) + 1
    BY <2>1, FS_Interval
  <2> QED
    BY <2>1, <2>2
<1>5. ExistsBijection(I, After(s, s[i]))
  BY <1>3 DEF ExistsBijection
<1>6. s[i] \notin After(s, s[i])
  BY <1>1, <1>2 DEF Distinct
<1>7. After(s, s[i]) \subseteq ToSet(s)
  BY DEF After, ToSet
<1> HIDE DEF I
<1> QED
  BY <1>4, <1>5, <1>6, <1>7, FS_Bijection

\* A new entry at the end, the oldest one perhaps dropped for it.
LEMMA NewestOrder ==
    ASSUME NEW S, NEW s \in Seq(S), Distinct(s), NEW e \in S, e \notin ToSet(s),
           NEW limit \in Nat \ {0}, Len(s) <= limit,
           NEW t, t = Newest(limit, Append(s, e))
    PROVE  /\ Distinct(t)
           /\ e \in ToSet(t) /\ After(t, e) = {}
           /\ \A x \in ToSet(t) \ {e} : x \in ToSet(s) /\ After(t, x) = After(s, x) \cup {e}
           /\ \A x \in ToSet(s) \ ToSet(t) : Len(s) = limit /\ x = s[1]
<1> DEFINE u == Append(s, e)
           n == Len(s) + 1
<1>1. /\ u \in Seq(S) /\ Len(u) = n /\ u[n] = e
      /\ \A i \in 1 .. Len(s) : u[i] = s[i]
  BY AppendProperties
<1>2. PICK k \in {0, 1} :
         /\ t \in Seq(S) /\ Len(t) = n - k
         /\ \A i \in 1 .. n - k : t[i] = u[i + k]
         /\ k = 1 => Len(s) = limit
  <2>1. CASE n <= limit
    <3>1. t = u
      BY <1>1, <2>1 DEF Newest
    <3> QED
      BY <1>1, <2>1, <3>1
  <2>2. CASE n > limit
    <3>1. limit = Len(s)
      BY <2>2
    <3>2. t = SubSeq(u, 2, n)
      BY <1>1, <2>2, <3>1 DEF Newest
    <3>3. t \in Seq(S) /\ Len(t) = n - 1 /\ \A i \in 1 .. n - 1 : t[i] = u[i + 1]
      <4>1. 2 \in 1 .. n /\ n \in 1 .. Len(u)
        BY <1>1, <3>1
      <4> QED
        BY <1>1, <3>2, <4>1, SubSeqProperties
    <3> QED
      BY <3>1, <3>3
  <2> QED
    BY <2>1, <2>2
<1>3. Distinct(u)
  BY <1>1 DEF Distinct, ToSet
<1>4. /\ DOMAIN t = 1 .. n - k /\ DOMAIN u = 1 .. n /\ DOMAIN s = 1 .. n - 1
      /\ n \in Nat \ {0} /\ Len(s) = n - 1 /\ k \in Int
  BY <1>1, <1>2
<1> HIDE DEF u, n
<1>5. Distinct(t)
  <2> SUFFICES ASSUME NEW i \in 1 .. n - k, NEW j \in 1 .. n - k, t[i] = t[j] PROVE i = j
    BY <1>4 DEF Distinct
  <2>1. u[i + k] = u[j + k]
    BY <1>2
  <2>2. i + k \in 1 .. n /\ j + k \in 1 .. n
    BY <1>2, <1>4
  <2>3. i + k = j + k
    BY <1>3, <1>4, <2>1, <2>2 DEF Distinct
  <2> QED
    BY <1>4, <2>3
<1>6. t[n - k] = e /\ n - k \in DOMAIN t
  <2>1. Len(s) = limit => n - 1 >= 1
    BY <1>4
  <2> QED
    BY <1>1, <1>2, <1>4, <2>1
<1>7. e \in ToSet(t) /\ After(t, e) = {}
  BY <1>4, <1>5, <1>6 DEF ToSet, After, Distinct
<1>8. ASSUME NEW x \in ToSet(t) \ {e}
      PROVE  x \in ToSet(s) /\ After(t, x) = After(s, x) \cup {e}
  <2>1. PICK i \in 1 .. n - k : t[i] = x
    BY <1>4 DEF ToSet
  <2>2. i + k \in 1 .. n - 1 /\ s[i + k] = x
    BY <1>1, <1>2, <1>4, <1>6, <2>1
  <2>3. x \in ToSet(s)
    BY <1>4, <2>2 DEF ToSet
  <2>4. After(t, x) = {t[j] : j \in i + 1 .. n - k}
    <3>1. {m \in DOMAIN t : \E h \in DOMAIN t : h < m /\ t[h] = x} = i + 1 .. n - k
      BY <1>4, <1>5, <2>1 DEF Distinct
    <3> QED
      BY <3>1 DEF After
  <2>5. After(s, x) = {s[j] : j \in i + k + 1 .. n - 1}
    <3>1. {m \in DOMAIN s : \E h \in DOMAIN s : h < m /\ s[h] = x} = i + k + 1 .. n - 1
      BY <1>4, <2>2 DEF Distinct
    <3> QED
      BY <3>1 DEF After
  <2>6. ASSUME NEW y \in After(t, x) PROVE y \in After(s, x) \cup {e}
    <3>1. PICK j \in i + 1 .. n - k : t[j] = y
      BY <2>4
    <3>2. CASE j = n - k
      BY <1>6, <3>1, <3>2
    <3>3. CASE j # n - k
      <4>1. j + k \in i + k + 1 .. n - 1 /\ s[j + k] = y
        BY <1>1, <1>2, <1>4, <3>1, <3>3
      <4> QED
        BY <2>5, <4>1
    <3> QED
      BY <3>2, <3>3
  <2>7. ASSUME NEW y \in After(s, x) PROVE y \in After(t, x)
    <3>1. PICK j \in i + k + 1 .. n - 1 : s[j] = y
      BY <2>5
    <3>2. /\ j - k \in i + 1 .. n - k /\ j - k \in 1 .. n - k
          /\ (j - k) + k = j /\ j \in 1 .. Len(s)
      BY <1>2, <1>4, <2>1, <3>1
    <3>3. t[j - k] = u[j]
      BY <1>2, <3>2
    <3>4. t[j - k] = y
      BY <1>1, <3>1, <3>2, <3>3
    <3> QED
      BY <2>4, <3>2, <3>4
  <2>8. e \in After(t, x)
    <3>1. i # n - k
      BY <1>6, <2>1
    <3> QED
      BY <1>4, <1>6, <2>1, <2>4, <3>1
  <2> QED
    BY <2>3, <2>6, <2>7, <2>8
<1>9. ASSUME NEW x \in ToSet(s) \ ToSet(t) PROVE Len(s) = limit /\ x = s[1]
  <2>1. PICK j \in 1 .. n - 1 : s[j] = x
    BY <1>4 DEF ToSet
  <2>2. ~(j - k \in 1 .. n - k)
    <3>1. j - k \in 1 .. n - k => t[j - k] = x
      BY <1>1, <1>2, <1>4, <2>1
    <3> QED
      BY <1>4, <3>1 DEF ToSet
  <2> QED
    BY <1>2, <1>4, <2>1, <2>2
<1> QED
  BY <1>5, <1>7, <1>8, <1>9
\* The margin between the two limits covers the requests in flight.
Margin == ReceiptLimit >= RunLimit + MaxRequests - 1

\* What may have pushed the receipt of r, or still may, though r entered the run
\* store after it: the requests that r has overtaken.
Late(r) == (Serving \cup After(opened, r)) \ ({r} \cup After(held, r))

\* Each run enters each record once, and no more than the other requests in flight
\* were overtaken when a run entered the store.
Order ==
    /\ Distinct(held) /\ Distinct(opened)
    /\ \A r \in ToSet(held) : request[r] \in {"analysed", "scheduled"}
    /\ \A r \in ToSet(opened) : request[r] = "scheduled"
    /\ IsFiniteSet(Serving)
    /\ \A r \in ToSet(held) \ OtherOrigin :
          /\ IsFiniteSet(Late(r)) /\ Cardinality(Late(r)) <= MaxRequests - 1
          /\ request[r] = "scheduled" => r \in ToSet(opened)

\* Fewer were overtaken than before, or as many.
LEMMA Fewer ==
    ASSUME NEW L, IsFiniteSet(L), Cardinality(L) <= MaxRequests - 1, NEW M, M \subseteq L
    PROVE  IsFiniteSet(M) /\ Cardinality(M) <= MaxRequests - 1
<1>1. IsFiniteSet(M) /\ Cardinality(M) <= Cardinality(L)
  BY FS_Subset
<1>2. Cardinality(M) \in Nat /\ Cardinality(L) \in Nat
  BY <1>1, FS_CardinalityType
<1> QED
  BY <1>1, <1>2, ReceiptsAssumption

LEMMA PutOrder ==
    ASSUME ReceiptsInv, Order, NEW y \in Runs, Put(y) PROVE Order'
<1> USE ReceiptsAssumption DEF ReceiptsInv, ReceiptsTypeOK, Order
<1>1. y \notin ToSet(held) /\ y \notin ToSet(opened) /\ y \notin Serving
  BY DEF Put, Serving
<1>2. /\ opened' = opened
      /\ request' = [request EXCEPT ![y] = IF y \in OtherOrigin THEN "scheduled"
                                                                 ELSE "analysed"]
      /\ Serving' = IF y \in OtherOrigin THEN Serving ELSE Serving \cup {y}
  BY DEF Put, Serving
<1>3. /\ Distinct(held')
      /\ y \in ToSet(held') /\ After(held', y) = {}
      /\ \A x \in ToSet(held') \ {y} :
            x \in ToSet(held) /\ After(held', x) = After(held, x) \cup {y}
  BY <1>1, NewestOrder DEF Put
<1>4. IsFiniteSet(Serving')
  BY <1>2, FS_AddElement
<1>5. \A r \in ToSet(held') : request'[r] \in {"analysed", "scheduled"}
  BY <1>2, <1>3
<1>6. \A r \in ToSet(opened') : request'[r] = "scheduled"
  BY <1>1, <1>2 DEF ToSet
<1>7. ASSUME NEW r \in ToSet(held') \ OtherOrigin
      PROVE  /\ IsFiniteSet(Late(r)') /\ Cardinality(Late(r)') <= MaxRequests - 1
             /\ request'[r] = "scheduled" => r \in ToSet(opened')
  <2>1. CASE r = y
    <3>1. After(opened, y) = {}
      BY <1>1 DEF After, ToSet
    <3>2. Late(r)' = Serving
      BY <1>1, <1>2, <1>3, <1>7, <2>1, <3>1 DEF Late
    <3>3. Cardinality(Serving) <= MaxRequests - 1
      BY FS_CardinalityType DEF Put
    <3>4. request'[r] = "analysed"
      BY <1>2, <1>7, <2>1
    <3> QED
      BY <3>2, <3>3, <3>4
  <2>2. CASE r # y
    <3>1. r \in ToSet(held) \ OtherOrigin /\ request'[r] = request[r]
      BY <1>2, <1>3, <1>7, <2>2
    <3>2. Late(r)' \subseteq Late(r)
      BY <1>2, <1>3, <1>7, <2>2 DEF Late
    <3> QED
      BY <1>2, <3>1, <3>2, Fewer
  <2> QED
    BY <2>1, <2>2
<1> QED
  BY <1>2, <1>3, <1>4, <1>5, <1>6, <1>7

LEMMA OpenOrder ==
    ASSUME Margin, ReceiptsInv, Order, NEW x \in Runs, Open(x) PROVE Order'
<1> USE ReceiptsAssumption DEF ReceiptsInv, ReceiptsTypeOK, Order
<1>1. x \notin ToSet(opened) /\ x \in Serving
  BY DEF Open, Serving
<1>2. /\ held' = held
      /\ request' = [request EXCEPT ![x] = "scheduled"]
      /\ Serving' = Serving \ {x}
  BY DEF Open, Serving
<1>3. /\ Distinct(opened')
      /\ x \in ToSet(opened') /\ After(opened', x) = {}
      /\ \A r \in ToSet(opened') \ {x} :
            r \in ToSet(opened) /\ After(opened', r) = After(opened, r) \cup {x}
      /\ \A r \in ToSet(opened) \ ToSet(opened') :
            Len(opened) = ReceiptLimit /\ r = opened[1]
  BY <1>1, NewestOrder DEF Open
<1>4. IsFiniteSet(Serving')
  BY <1>2, FS_RemoveElement
<1>5. \A r \in ToSet(held') : request'[r] \in {"analysed", "scheduled"}
  BY <1>2
<1>6. \A r \in ToSet(opened') : request'[r] = "scheduled"
  BY <1>2, <1>3
<1>7. ASSUME NEW r \in ToSet(held') \ OtherOrigin
      PROVE  /\ IsFiniteSet(Late(r)') /\ Cardinality(Late(r)') <= MaxRequests - 1
             /\ request'[r] = "scheduled" => r \in ToSet(opened')
  <2>1. r \in Runs /\ r \in ToSet(held) \ OtherOrigin
    BY <1>2, <1>7 DEF ToSet
  <2>2. CASE r = x
    <3>1. Late(r)' \subseteq Late(r)
      BY <1>2, <1>3, <2>2 DEF Late
    <3> QED
      BY <1>3, <2>1, <2>2, <3>1, Fewer
  <2>3. CASE r # x /\ r \notin ToSet(opened)
    <3>1. request[r] # "scheduled" /\ request'[r] = request[r]
      BY <1>2, <2>1, <2>3
    <3>2. After(opened', r) = {}
      <4>1. r \notin ToSet(opened')
        BY <1>3, <2>3
      <4> QED
        BY <4>1 DEF After, ToSet
    <3>3. Late(r)' \subseteq Late(r)
      BY <1>2, <3>2 DEF Late
    <3> QED
      BY <2>1, <3>1, <3>3, Fewer
  <2>4. CASE r # x /\ r \in ToSet(opened) /\ r \in ToSet(opened')
    <3>1. Late(r)' \subseteq Late(r)
      BY <1>1, <1>2, <1>3, <2>4 DEF Late
    <3> QED
      BY <2>1, <2>4, <3>1, Fewer
  <2>5. CASE r # x /\ r \in ToSet(opened) /\ r \notin ToSet(opened')
    <3>1. Len(opened) = ReceiptLimit /\ r = opened[1] /\ 1 \in DOMAIN opened
      BY <1>3, <2>5
    <3>2. /\ IsFiniteSet(After(opened, r))
          /\ Cardinality(After(opened, r)) = ReceiptLimit - 1
          /\ r \notin After(opened, r) /\ After(opened, r) \subseteq ToSet(opened)
      BY <3>1, AfterCount
    <3>3. PICK i \in DOMAIN held : held[i] = r
      BY <2>1 DEF ToSet
    <3>4. IsFiniteSet(After(held, r)) /\ Cardinality(After(held, r)) <= RunLimit - 1
      <4>1. IsFiniteSet(After(held, r)) /\ Cardinality(After(held, r)) = Len(held) - i
        BY <3>3, AfterCount
      <4>2. i \in 1 .. Len(held) /\ Len(held) \in Nat
        OBVIOUS
      <4> QED
        BY <4>1, <4>2
    <3> DEFINE A == After(opened, r) \cup {x}
               B == Late(r) \cup After(held, r)
    <3>5. A \subseteq B
      BY <1>1, <2>5, <3>2 DEF Late
    <3>6. x \notin After(opened, r)
      BY <1>1, <3>2
    <3>7. IsFiniteSet(A) /\ Cardinality(A) = ReceiptLimit
      <4>1. IsFiniteSet(A) /\ Cardinality(A) = Cardinality(After(opened, r)) + 1
        BY <3>2, <3>6, FS_AddElement
      <4> HIDE DEF A
      <4> QED
        BY <3>2, <4>1
    <3>8. IsFiniteSet(Late(r)) /\ Cardinality(Late(r)) <= MaxRequests - 1
      BY <2>1
    <3>9. /\ IsFiniteSet(B)
          /\ Cardinality(B) = Cardinality(Late(r)) + Cardinality(After(held, r))
                                 - Cardinality(Late(r) \cap After(held, r))
      BY <3>4, <3>8, FS_Union
    <3>10. Late(r) \cap After(held, r) = {}
      BY DEF Late
    <3>11. Cardinality(B) = Cardinality(Late(r)) + Cardinality(After(held, r))
      <4>1. Cardinality(Late(r)) \in Nat /\ Cardinality(After(held, r)) \in Nat
        BY <3>4, <3>8, FS_CardinalityType
      <4>2. Cardinality(Late(r) \cap After(held, r)) = 0
        BY <3>10, FS_EmptySet
      <4> HIDE DEF B
      <4> QED
        BY <3>9, <4>1, <4>2
    <3>12. Cardinality(A) <= Cardinality(B)
      BY <3>5, <3>9, FS_Subset
    <3> HIDE DEF A, B
    <3>13. Cardinality(Late(r)) \in Nat /\ Cardinality(After(held, r)) \in Nat
      BY <3>4, <3>8, FS_CardinalityType
    <3> QED
      BY <3>4, <3>7, <3>8, <3>11, <3>12, <3>13 DEF Margin
  <2> QED
    BY <2>2, <2>3, <2>4, <2>5
<1> QED
  BY <1>2, <1>3, <1>4, <1>5, <1>6, <1>7

LEMMA OrderInductive ==
    /\ ReceiptsInit => Order
    /\ Margin /\ ReceiptsInv /\ Order /\ [ReceiptsNext]_receiptVars => Order'
<1>1. ASSUME ReceiptsInit PROVE Order
  <2>1. Serving = {} /\ ToSet(held) = {} /\ ToSet(opened) = {}
    BY <1>1 DEF ReceiptsInit, Serving, ToSet
  <2> QED
    BY <1>1, <2>1, FS_EmptySet DEF ReceiptsInit, Order, Distinct
<1>2. ASSUME Margin, ReceiptsInv, Order, [ReceiptsNext]_receiptVars PROVE Order'
  <2>1. CASE UNCHANGED <<request, held, opened>>
    <3>1. Serving' = Serving /\ \A r : Late(r)' = Late(r)
      BY <2>1 DEF Serving, Late
    <3> QED
      BY <1>2, <2>1, <3>1 DEF Order
  <2>2. CASE Restart
    <3>1. Serving' = {} /\ ToSet(held') = {} /\ ToSet(opened') = {}
      BY <2>2 DEF Restart, Serving, ToSet
    <3> QED
      BY <2>2, <3>1, FS_EmptySet DEF Restart, Order, Distinct
  <2>3. \/ UNCHANGED <<request, held, opened>> \/ Restart
        \/ \E r \in Runs : Put(r) \/ Open(r)
    BY <1>2 DEF ReceiptsNext, Commit, PollRecord, Settle, SettleRecord, PollStore, receiptVars
  <2> QED
    BY <1>2, <2>1, <2>2, <2>3, PutOrder, OpenOrder
<1> QED
  BY <1>1, <1>2

LEMMA OrderKept == ASSUME Margin PROVE ReceiptsSpec => [](ReceiptsInv /\ Order)
<1> DEFINE Inv == ReceiptsInv /\ Order
<1>1. ReceiptsInit => Inv
  BY ReceiptsInductive, OrderInductive
<1>2. Inv /\ [ReceiptsNext]_receiptVars => Inv'
  BY ReceiptsInductive, OrderInductive
<1> QED
  BY <1>1, <1>2, PTL DEF ReceiptsSpec

LEMMA OrderShows == ReceiptsInv /\ Order => ShownKeepsReceipt
BY DEF ReceiptsInv, ReceiptsTypeOK, Order, ShownKeepsReceipt, ToSet

\* No run that is still shown loses its receipt, for every pair of limits whose
\* margin covers the requests served at once.
THEOREM ReceiptsShown == ASSUME Margin PROVE ReceiptsSpec => []ShownKeepsReceipt
BY OrderKept, OrderShows, PTL
-----------------------------------------------------------------------------
(***************************************************************************)
(* An answer SAVED stands.  A receipt that is read from the database is of *)
(* a run this process no longer shows (that is ShownKeepsReceipt), so an   *)
(* unreadable database is answered NOT_FOUND and never FAILED; and a       *)
(* stateless process has said SAVED of nothing.                            *)
(***************************************************************************)
Standing ==
    /\ poll # Idle =>
          /\ request[poll.run] \in {"scheduled", "past"}
          /\ record[poll.run] = NoRecord /\ ~poll.held
    /\ \A r \in Runs : told[r] # NoAnswer => request[r] \in {"scheduled", "past"}
    /\ \A r \in Runs : told[r] = "SAVED" => record[r] \in {NoRecord, "SAVED"}
    /\ stateless => \A r \in Runs : record[r] \in {NoRecord, "NOT_RETAINED"}
    /\ stateless => \A r \in Runs : told[r] = "SAVED" => request[r] = "past"

\* What a poll of the database tells.
LEMMA PollStoreTells ==
    ASSUME ReceiptsInv, Standing, NEW readable \in BOOLEAN, PollStore(readable)
    PROVE  /\ poll.run \in Runs
           /\ told' = [told EXCEPT ![poll.run] = told'[poll.run]]
           /\ told'[poll.run] \in {"SAVED", "NOT_RETAINED", NotFound}
           /\ stateless => told'[poll.run] # "SAVED"
           /\ told[poll.run] = "SAVED" => told'[poll.run] \in {"SAVED", NotFound}
<1> USE DEF ReceiptsInv, ReceiptsTypeOK, Standing
<1>1. poll \in [run : Runs, held : BOOLEAN]
  BY DEF PollStore
<1> DEFINE u == Unrecorded(poll.run, poll.held, Returns(poll.run, readable))
<1>2. ~poll.held
  BY DEF PollStore
<1>3. u \in {"SAVED", "NOT_RETAINED", NotFound} /\ (stateless => u # "SAVED")
  BY <1>2 DEF Unrecorded, NotFound
<1>4. told[poll.run] = "SAVED" => u \in {"SAVED", NotFound}
  BY <1>1, <1>2 DEF Unrecorded, Returns
<1>5. told' = [told EXCEPT ![poll.run] = u]
  BY DEF PollStore
<1> HIDE DEF u
<1> QED
  BY <1>1, <1>3, <1>4, <1>5

LEMMA StandingInductive ==
    /\ ReceiptsInit => Standing
    /\ ReceiptsInv /\ Order /\ Standing /\ [ReceiptsNext]_receiptVars => Standing'
<1>1. ReceiptsInit => Standing
  BY DEF ReceiptsInit, Standing, NoRecord, NoAnswer
<1>2. ASSUME ReceiptsInv, Order, Standing, [ReceiptsNext]_receiptVars PROVE Standing'
  <2> USE <1>2 DEF ReceiptsInv, ReceiptsTypeOK, Standing
  <2>1. ASSUME NEW r \in Runs, Put(r) PROVE Standing'
    BY <2>1 DEF Put, Idle
  <2>2. ASSUME NEW r \in Runs, Open(r) PROVE Standing'
    <3>1. /\ request' = [request EXCEPT ![r] = "scheduled"] /\ request[r] = "analysed"
          /\ poll' = poll /\ told' = told /\ stateless' = stateless
          /\ \A x \in Runs : x # r => record'[x] \in {record[x], NoRecord}
          /\ record'[r] \in {NoRecord, IF stateless THEN "NOT_RETAINED" ELSE "PENDING"}
      BY <2>2 DEF Open
    <3>2. told[r] # "SAVED" /\ (poll # Idle => poll.run # r /\ poll.run \in Runs)
      BY <3>1 DEF NoAnswer
    <3> QED
      BY <3>1, <3>2
  <2>3. ASSUME NEW r \in Runs, Commit(r) PROVE Standing'
    BY <2>3 DEF Commit
  <2>4. ASSUME NEW r \in Runs, PollRecord(r) PROVE Standing'
    <3>1. /\ request[r] \in {"scheduled", "past"} /\ poll = Idle
          /\ UNCHANGED <<request, held, opened, record, stored, stateless>>
      BY <2>4 DEF PollRecord
    <3>2. CASE poll' = poll /\ told' = [told EXCEPT ![r] = NotFound]
      BY <3>1, <3>2 DEF NotFound
    <3>3. CASE poll' = poll /\ told' = [told EXCEPT ![r] = record[r]] /\ record[r] # NoRecord
      BY <3>1, <3>3
    <3>4. CASE /\ record[r] = NoRecord /\ ~(r \in OtherOrigin /\ r \in ToSet(held))
               /\ poll' = [run |-> r, held |-> r \in ToSet(held)] /\ told' = told
      <4>1. r \notin ToSet(held)
        <5>1. r \in ToSet(held) => request[r] = "scheduled"
          BY <3>1 DEF Order
        <5> QED
          BY <3>4, <5>1, OrderShows DEF ShownKeepsReceipt
      <4>2. poll'.run = r /\ ~poll'.held
        BY <3>4, <4>1
      <4> QED
        BY <3>1, <3>4, <4>2
    <3> QED
      BY <2>4, <3>2, <3>3, <3>4 DEF PollRecord
  <2>5. ASSUME NEW r \in Runs, NEW state \in Settled, Settle(r, state) PROVE Standing'
    <3>1. CASE record' = record
      BY <2>5, <3>1 DEF Settle, SettleRecord
    <3>2. CASE record[r] = "PENDING" /\ record' = [record EXCEPT ![r] = state]
      <4>1. /\ told[r] # "SAVED" /\ ~stateless
            /\ poll # Idle => poll.run # r /\ poll.run \in Runs
        BY <3>2 DEF NoRecord
      <4> QED
        BY <2>5, <3>2, <4>1 DEF Settle, SettleRecord
    <3> QED
      BY <2>5, <3>1, <3>2 DEF Settle, SettleRecord, SettledRecord
  <2>6. ASSUME NEW readable \in BOOLEAN, PollStore(readable) PROVE Standing'
    <3>1. /\ poll # Idle /\ poll' = Idle
          /\ UNCHANGED <<request, held, opened, record, stored, stateless>>
      BY <2>6 DEF PollStore
    <3> QED
      BY <2>6, <3>1, PollStoreTells
  <2>7. ASSUME Restart PROVE Standing'
    BY <2>7 DEF Restart, NoAnswer
  <2>8. ASSUME UNCHANGED receiptVars PROVE Standing'
    BY <2>8 DEF receiptVars
  <2> QED
    BY <2>1, <2>2, <2>3, <2>4, <2>5, <2>6, <2>7, <2>8 DEF ReceiptsNext
<1> QED
  BY <1>1, <1>2

\* A run once told SAVED is only ever told SAVED again or no longer found, through
\* evictions, settles, unreadable databases, restarts and changes of environment.
THEOREM ReceiptsSavedStands == ASSUME Margin PROVE ReceiptsSpec => SavedIsNotTakenBack
<1> DEFINE Inv == ReceiptsInv /\ Order /\ Standing
<1>1. ReceiptsInit => Inv
  BY ReceiptsInductive, OrderInductive, StandingInductive
<1>2. Inv /\ [ReceiptsNext]_receiptVars => Inv'
  BY ReceiptsInductive, OrderInductive, StandingInductive
<1>3. Inv /\ [ReceiptsNext]_receiptVars
        => [\A r \in Runs : told[r] = "SAVED" => told'[r] \in {"SAVED", NotFound}]_told
  <2> SUFFICES ASSUME Inv, [ReceiptsNext]_receiptVars, NEW r \in Runs, told[r] = "SAVED"
               PROVE  told'[r] \in {"SAVED", NotFound}
    OBVIOUS
  <2> USE DEF ReceiptsInv, ReceiptsTypeOK, Standing
  <2>1. CASE told' = told
    BY <2>1
  <2>2. ASSUME NEW x \in Runs, PollRecord(x) PROVE told'[r] \in {"SAVED", NotFound}
    BY <2>2 DEF PollRecord
  <2>3. ASSUME NEW readable \in BOOLEAN, PollStore(readable)
        PROVE  told'[r] \in {"SAVED", NotFound}
    BY <2>3, PollStoreTells
  <2> QED
    BY <2>1, <2>2, <2>3
       DEF ReceiptsNext, receiptVars, Put, Open, Commit, Settle, SettleRecord, Restart
<1> QED
  BY <1>1, <1>2, <1>3, PTL DEF ReceiptsSpec, SavedIsNotTakenBack

-----------------------------------------------------------------------------
(***************************************************************************)
(* Part two: how a run is saved (SavePipeline).                            *)
(***************************************************************************)

(***************************************************************************)
(* The inductive invariant, in layers.  Types first; then Progress, which  *)
(* ties the stage of a save to its request, its transaction and its        *)
(* receipt; the properties of the receipts and of the reconciliation rest  *)
(* on it.                                                                  *)
(***************************************************************************)
Stages == Admitted \cup {"none", "scheduled", "done", "past"}
Receipts == {"NONE", "SAVED", "NOT_SAVED", "COMMIT_UNKNOWN"}

\* Each actor's own state.
WorkTypes ==
    /\ stage \in [Runs -> Stages]
    /\ bundle \in [Runs -> {"whole", "partial", "none"}]
    /\ auxOk \in [Runs -> BOOLEAN]
    /\ receipt \in [Runs -> Receipts]
    /\ rpc \in [Runs -> {"none", "open", "committed", "rolledback"}]
    /\ answer \in [Runs -> {"none", "stored", "absent", "unreadable"}]

\* The lists of unknown commits and what is told of them.
ListTypes ==
    /\ unknown \in Seq(UnknownCommit) /\ Len(unknown) <= UnknownCapacity
    /\ due \in [Runs -> Seq(UnknownCommit)]
    /\ finals \in [Runs -> Seq(Reasons)]

CircuitType ==
    circuit \in [status : {"OK", "UNAVAILABLE"}, cooling : BOOLEAN, trial : BOOLEAN]

\* Before its bundle is sent a save has no transaction, and before it settles
\* it has no receipt.
BeforeSend == {"none", "scheduled", "queued", "aux", "auxwait", "bundle", "send"}
BeforeSettle == BeforeSend \cup {"sent"}

Progress ==
    \A r \in Runs :
        /\ stage[r] \notin {"none", "past"} => request[r] = "scheduled"
        /\ stage[r] = "past" => request[r] = "past"
        /\ stage[r] \in BeforeSend => rpc[r] = "none"
        /\ stage[r] \in BeforeSettle \cup {"past"} => receipt[r] = "NONE"
        /\ stage[r] = "none" /\ r \notin OtherOrigin => record[r] = NoRecord
        /\ rpc[r] = "committed" /\ r \notin OtherOrigin => r \in stored

\* What a receipt says of the transaction.
Truthful ==
    \A r \in Runs :
        /\ receipt[r] = "SAVED" => bundle[r] = "whole" /\ rpc[r] = "committed"
        /\ receipt[r] = "NOT_SAVED" => bundle[r] # "whole" \/ rpc[r] = "none"
        /\ record[r] = "SAVED" => bundle[r] = "whole" /\ rpc[r] = "committed"

\* A round of reads: what has been read is the oldest entry of the snapshot.
Reading ==
    \A r \in Runs :
        /\ stage[r] \in {"reading", "decide"} => due[r] # <<>>
        /\ stage[r] = "decide" <=> answer[r] # "none"
        /\ answer[r] = "stored" => rpc[Head(due[r]).run] = "committed"
        /\ stage[r] \in {"round", "reading", "decide"} => receipt[r] = "SAVED"

\* The executor's queue holds each run that waits in it, once.
Queued ==
    /\ queue \in Seq(Runs)
    /\ \A i \in 1 .. Len(queue) : stage[queue[i]] = "queued"
    /\ \A i, j \in 1 .. Len(queue) : queue[i] = queue[j] => i = j
    /\ \A r \in Runs : stage[r] = "queued" => \E i \in 1 .. Len(queue) : queue[i] = r

PermitsExact == IsFiniteSet(In(Admitted)) /\ permits \in Nat /\ PermitsAddUp

PipeInv ==
    /\ ReceiptsInv /\ WorkTypes /\ ListTypes /\ CircuitType
    /\ Progress /\ Truthful /\ Reading /\ Queued
    /\ ReconciledIsCommitted /\ UnknownIsAccounted /\ TrialIsInFlight /\ PermitsExact

-----------------------------------------------------------------------------
(* Every step of the pipeline is one of SaveReceipts, or leaves the receipts *)
(* alone: a receipt is settled SAVED only once the database holds the run.   *)

LEMMA SettleKeepsPromise ==
    ASSUME PipeInv, NEW r \in Runs, stage[r] \notin {"none", "past"},
           NEW state \in Settled, state = "SAVED" => rpc[r] = "committed",
           SettleRecord(r, state)
    PROVE  Settle(r, state) \/ UNCHANGED receiptVars
<1>1. CASE r \in OtherOrigin
  <2>1. record[r] = NoRecord
    BY <1>1 DEF PipeInv, ReceiptsInv, Origins
  <2> QED
    BY <2>1 DEF SettleRecord, SettledRecord, NoRecord, receiptVars
<1>2. CASE r \notin OtherOrigin
  BY <1>2 DEF PipeInv, Progress, Settle
<1> QED
  BY <1>1, <1>2

LEMMA StepsAreReceiptSteps ==
    ASSUME PipeInv, [PipelineNext]_pipelineVars
    PROVE  [ReceiptsNext]_receiptVars
<1>1. ASSUME NEW r \in Runs, Analyse(r) PROVE ReceiptsNext
  BY <1>1 DEF Analyse, ReceiptsNext
<1>2. ASSUME NEW r \in Runs, Schedule(r) PROVE [ReceiptsNext]_receiptVars
  BY <1>2 DEF Schedule, ReceiptsNext
<1>3. ASSUME NEW r \in Runs, SubmitRefused(r) PROVE [ReceiptsNext]_receiptVars
  <2>1. stage[r] \notin {"none", "past"} /\ SettleRecord(r, "FAILED") /\ "FAILED" \in Settled
    BY <1>3 DEF SubmitRefused, Settled
  <2>2. Settle(r, "FAILED") \/ UNCHANGED receiptVars
    BY <2>1, SettleKeepsPromise
  <2> QED
    BY <2>1, <2>2 DEF ReceiptsNext
<1>4. ASSUME NEW r \in Runs, SettleReceipt(r) PROVE [ReceiptsNext]_receiptVars
  <2> DEFINE state == IF receipt[r] = "SAVED" THEN "SAVED" ELSE "FAILED"
  <2>1. state \in Settled /\ (state = "SAVED" => rpc[r] = "committed")
    BY DEF Settled, PipeInv, Truthful
  <2>2. stage[r] \notin {"none", "past"} /\ SettleRecord(r, state)
    BY <1>4 DEF SettleReceipt
  <2>3. Settle(r, state) \/ UNCHANGED receiptVars
    BY <2>1, <2>2, SettleKeepsPromise
  <2> QED
    BY <2>1, <2>3 DEF ReceiptsNext
<1>5. ASSUME NEW r \in Runs, ServerCommits(r) PROVE [ReceiptsNext]_receiptVars
  BY <1>5 DEF ServerCommits, ReceiptsNext
<1>6. ASSUME NEW r \in Runs, NEW ok \in BOOLEAN,
                Submit(r) \/ StartSave(r) \/ SaveAux(r) \/ SaveRaises(r)
             \/ AuxReply(r, ok) \/ CheckCircuit(r) \/ SendBundle(r)
             \/ BundleConfirmed(r) \/ BundleUnconfirmed(r) \/ AddUnknown(r)
             \/ TakeDue(r) \/ RoundEnds(r) \/ ReadCore(r) \/ ReadReply(r, ok)
             \/ Decide(r, ok) \/ ServerRollsBack(r)
      PROVE  UNCHANGED receiptVars
  BY <1>6 DEF Submit, StartSave, SaveAux, SaveRaises, AuxReply, CheckCircuit,
      SendBundle, BundleConfirmed, BundleUnconfirmed, AddUnknown, TakeDue,
      RoundEnds, ReadCore, ReadReply, Decide, ServerRollsBack
<1>7. ASSUME Cool PROVE UNCHANGED receiptVars
  BY <1>7 DEF Cool
<1>8. ASSUME ProcessRestart PROVE ReceiptsNext
  BY <1>8 DEF ProcessRestart, ReceiptsNext
<1>9. ASSUME UNCHANGED pipelineVars PROVE UNCHANGED receiptVars
  BY <1>9 DEF pipelineVars
<1> QED
  BY <1>1, <1>2, <1>3, <1>4, <1>5, <1>6, <1>7, <1>8, <1>9
     DEF PipelineNext, WorkerStep, SubmitStep

-----------------------------------------------------------------------------
(* The layers of the invariant, one after the other. *)

LEMMA StepWorkTypes ==
    ASSUME PipeInv, [PipelineNext]_pipelineVars
    PROVE  WorkTypes'
<1>0. WorkTypes
  BY DEF PipeInv
<1> USE <1>0 DEF WorkTypes, Stages, Receipts, Admitted, Goto
<1>1. ASSUME NEW r \in Runs, Schedule(r) \/ Submit(r) \/ SubmitRefused(r) \/ StartSave(r)
      PROVE  WorkTypes'
  BY <1>1 DEF Schedule, Submit, SubmitRefused, StartSave, sharedVars
<1>2. ASSUME NEW r \in Runs, NEW ok \in BOOLEAN,
             SaveAux(r) \/ AuxReply(r, ok) \/ SaveRaises(r) \/ CheckCircuit(r)
      PROVE  WorkTypes'
  <2>1. CASE SaveAux(r) \/ AuxReply(r, ok)
    BY <2>1 DEF SaveAux, AuxReply
  <2>2. CASE SaveRaises(r) \/ CheckCircuit(r)
    BY <2>2 DEF SaveRaises, CheckCircuit, Receipt, sharedVars
  <2> QED
    BY <1>2, <2>1, <2>2
<1>3. ASSUME NEW r \in Runs,
             SendBundle(r) \/ BundleConfirmed(r) \/ BundleUnconfirmed(r) \/ SettleReceipt(r)
      PROVE  WorkTypes'
  BY <1>3 DEF SendBundle, BundleConfirmed, BundleUnconfirmed, SettleReceipt, Receipt,
      Confirmed, Finish
<1>4. ASSUME NEW r \in Runs, AddUnknown(r) \/ TakeDue(r) \/ RoundEnds(r) \/ ReadCore(r)
      PROVE  WorkTypes'
  BY <1>4 DEF AddUnknown, TakeDue, RoundEnds, ReadCore, Answered, Finish, sharedVars
<1>5. ASSUME NEW r \in Runs, NEW ok \in BOOLEAN, ReadReply(r, ok) \/ Decide(r, ok)
      PROVE  WorkTypes'
  BY <1>5 DEF ReadReply, Decide, Answered
<1>6. ASSUME NEW r \in Runs, Analyse(r) \/ ServerCommits(r) \/ ServerRollsBack(r)
      PROVE  WorkTypes'
  BY <1>6 DEF Analyse, ServerCommits, ServerRollsBack, workVars, sharedVars
<1>7. ASSUME ProcessRestart PROVE WorkTypes'
  BY <1>7 DEF ProcessRestart
<1>8. ASSUME Cool \/ UNCHANGED pipelineVars PROVE WorkTypes'
  BY <1>8 DEF Cool, pipelineVars, workVars, sharedVars
<1> QED
  BY <1>1, <1>2, <1>3, <1>4, <1>5, <1>6, <1>7, <1>8 DEF PipelineNext, WorkerStep, SubmitStep

LEMMA StepCircuit ==
    ASSUME PipeInv, [PipelineNext]_pipelineVars
    PROVE  CircuitType'
<1>1. UNCHANGED circuit \/ Attempt \/ MarkOk \/ MarkUnavailable
      \/ circuit' = [circuit EXCEPT !.cooling = FALSE]
  <2>1. ASSUME NEW r \in Runs, NEW ok \in BOOLEAN,
                  SaveAux(r) \/ AuxReply(r, ok) \/ SaveRaises(r) \/ SendBundle(r)
               \/ BundleConfirmed(r) \/ BundleUnconfirmed(r) \/ SettleReceipt(r)
               \/ ReadCore(r) \/ ReadReply(r, ok) \/ SubmitRefused(r)
        PROVE  UNCHANGED circuit \/ Attempt \/ MarkOk \/ MarkUnavailable
    BY <2>1 DEF SaveAux, AuxReply, SaveRaises, SendBundle, BundleConfirmed,
        BundleUnconfirmed, SettleReceipt, ReadCore, ReadReply, SubmitRefused
  <2>2. ASSUME NEW r \in Runs, NEW ok \in BOOLEAN,
                  Analyse(r) \/ Schedule(r) \/ Submit(r) \/ StartSave(r)
               \/ CheckCircuit(r) \/ AddUnknown(r) \/ TakeDue(r) \/ RoundEnds(r)
               \/ Decide(r, ok) \/ ServerCommits(r) \/ ServerRollsBack(r)
        PROVE  UNCHANGED circuit
    BY <2>2 DEF Analyse, Schedule, Submit, StartSave, CheckCircuit, AddUnknown, TakeDue,
        RoundEnds, Decide, ServerCommits, ServerRollsBack, sharedVars
  <2>3. CASE ProcessRestart
    BY <2>3 DEF ProcessRestart, MarkOk
  <2>4. CASE Cool
    BY <2>4 DEF Cool
  <2>5. CASE UNCHANGED pipelineVars
    BY <2>5 DEF pipelineVars, sharedVars
  <2> QED
    BY <2>1, <2>2, <2>3, <2>4, <2>5 DEF PipelineNext, WorkerStep, SubmitStep
<1>2. CASE UNCHANGED circuit
  BY <1>2 DEF PipeInv, CircuitType
<1>3. CASE MarkOk
  BY <1>3 DEF CircuitType, MarkOk, Closed
<1>4. CASE MarkUnavailable
  BY <1>4 DEF CircuitType, MarkUnavailable, Unavailable
<1>5. CASE Attempt \/ circuit' = [circuit EXCEPT !.cooling = FALSE]
  BY <1>5 DEF PipeInv, CircuitType, Attempt
<1> QED
  BY <1>1, <1>2, <1>3, <1>4, <1>5

LEMMA StepProgress ==
    ASSUME PipeInv, [PipelineNext]_pipelineVars
    PROVE  Progress'
<1> USE DEF PipeInv, WorkTypes, Progress, Stages, Admitted, BeforeSettle, BeforeSend, Goto
<1>1. ASSUME NEW r \in Runs, Analyse(r) PROVE Progress'
  BY <1>1 DEF Analyse, Put, workVars, sharedVars
<1>2. ASSUME NEW r \in Runs, Schedule(r) PROVE Progress'
  <2>1. CASE Open(r)
    BY <1>2, <2>1 DEF Schedule, Open, sharedVars, ReceiptsInv, ReceiptsTypeOK
  <2>2. CASE r \in OtherOrigin /\ request[r] = "scheduled" /\ UNCHANGED receiptVars
    BY <1>2, <2>2 DEF Schedule, sharedVars, receiptVars
  <2> QED
    BY <1>2, <2>1, <2>2 DEF Schedule
<1>3. ASSUME NEW r \in Runs, Submit(r) \/ SubmitRefused(r) PROVE Progress'
  BY <1>3 DEF Submit, SubmitRefused, SettleRecord, SettledRecord, receiptVars,
      ReceiptsInv, ReceiptsTypeOK
<1>4. ASSUME NEW r \in Runs, StartSave(r) PROVE Progress'
  <2>1. stage[r] = "queued"
    BY <1>4 DEF StartSave, Queued
  <2> QED
    BY <1>4, <2>1 DEF StartSave, receiptVars
<1>5. ASSUME NEW r \in Runs, NEW ok \in BOOLEAN,
             SaveAux(r) \/ AuxReply(r, ok) \/ SaveRaises(r) \/ CheckCircuit(r)
      PROVE  Progress'
  BY <1>5 DEF SaveAux, AuxReply, SaveRaises, CheckCircuit, Receipt, receiptVars, sharedVars
<1>6. ASSUME NEW r \in Runs, SendBundle(r) \/ BundleConfirmed(r) \/ BundleUnconfirmed(r)
      PROVE  Progress'
  BY <1>6 DEF SendBundle, BundleConfirmed, BundleUnconfirmed, Receipt, receiptVars
<1>7. ASSUME NEW r \in Runs, SettleReceipt(r) PROVE Progress'
  BY <1>7 DEF SettleReceipt, SettleRecord, SettledRecord, Finish
<1>8. ASSUME NEW r \in Runs, NEW ok \in BOOLEAN,
                AddUnknown(r) \/ TakeDue(r) \/ RoundEnds(r) \/ ReadCore(r)
             \/ ReadReply(r, ok) \/ Decide(r, ok)
      PROVE  Progress'
  <2>1. /\ stage[r] \in {"reconcile", "round", "reading", "decide"}
        /\ \E next \in {"done", "round", "reading", "decide"} : Goto(r, next)
        /\ UNCHANGED <<receiptVars, receipt, rpc>>
    BY <1>8 DEF AddUnknown, TakeDue, RoundEnds, ReadCore, ReadReply, Decide, Answered,
        Finish, sharedVars
  <2> QED
    BY <2>1 DEF receiptVars
<1>9. ASSUME NEW r \in Runs, ServerCommits(r) \/ ServerRollsBack(r) PROVE Progress'
  BY <1>9 DEF ServerCommits, ServerRollsBack, Commit, receiptVars, workVars
<1>10. ASSUME ProcessRestart PROVE Progress'
  BY <1>10 DEF ProcessRestart, Restart
<1>11. ASSUME Cool \/ UNCHANGED pipelineVars PROVE Progress'
  BY <1>11 DEF Cool, pipelineVars, receiptVars, workVars, sharedVars
<1> QED
  BY <1>1, <1>2, <1>3, <1>4, <1>5, <1>6, <1>7, <1>8, <1>9, <1>10, <1>11
     DEF PipelineNext, WorkerStep, SubmitStep

LEMMA StepTruthful ==
    ASSUME PipeInv, [PipelineNext]_pipelineVars
    PROVE  Truthful'
<1> USE DEF PipeInv, WorkTypes, Progress, Truthful, Admitted, BeforeSettle, BeforeSend, Goto
<1>1. ASSUME NEW r \in Runs, Schedule(r) PROVE Truthful'
  <2>1. CASE Open(r)
    <3>1. \A x \in Runs : record'[x] = "SAVED" => record[x] = "SAVED" /\ x # r
      BY <2>1 DEF Open, NoRecord
    <3> QED
      BY <1>1, <3>1 DEF Schedule, sharedVars
  <2>2. CASE r \in OtherOrigin /\ request[r] = "scheduled" /\ UNCHANGED receiptVars
    BY <1>1, <2>2 DEF Schedule, sharedVars, receiptVars, ReceiptsInv, Origins, NoRecord
  <2> QED
    BY <1>1, <2>1, <2>2 DEF Schedule
<1>2. ASSUME NEW r \in Runs, SubmitRefused(r) \/ SettleReceipt(r) PROVE Truthful'
  BY <1>2 DEF SubmitRefused, SettleReceipt, SettleRecord, SettledRecord, Finish,
      ReceiptsInv, ReceiptsTypeOK
<1>3. ASSUME NEW r \in Runs, SaveRaises(r) \/ CheckCircuit(r) PROVE Truthful'
  BY <1>3 DEF SaveRaises, CheckCircuit, Receipt, receiptVars, sharedVars
<1>4. ASSUME NEW r \in Runs, SendBundle(r) \/ BundleConfirmed(r) \/ BundleUnconfirmed(r)
      PROVE  Truthful'
  BY <1>4 DEF SendBundle, BundleConfirmed, BundleUnconfirmed, Receipt, Confirmed, receiptVars
<1>5. ASSUME NEW r \in Runs, ServerCommits(r) \/ ServerRollsBack(r) PROVE Truthful'
  BY <1>5 DEF ServerCommits, ServerRollsBack, Commit, receiptVars, workVars
<1>6. ASSUME NEW r \in Runs, NEW ok \in BOOLEAN,
                Submit(r) \/ StartSave(r) \/ SaveAux(r) \/ AuxReply(r, ok)
             \/ AddUnknown(r) \/ TakeDue(r) \/ RoundEnds(r) \/ ReadCore(r)
             \/ ReadReply(r, ok) \/ Decide(r, ok)
      PROVE  Truthful'
  <2>1. UNCHANGED <<bundle, receipt, rpc, record, stored>>
    BY <1>6 DEF Submit, StartSave, SaveAux, AuxReply, AddUnknown, TakeDue, RoundEnds,
        ReadCore, ReadReply, Decide, receiptVars, sharedVars
  <2> QED
    BY <2>1
<1>7. ASSUME NEW r \in Runs, Analyse(r) PROVE Truthful'
  BY <1>7 DEF Analyse, Put, workVars, sharedVars
<1>8. ASSUME ProcessRestart PROVE Truthful'
  BY <1>8 DEF ProcessRestart, Restart, NoRecord
<1>9. ASSUME Cool \/ UNCHANGED pipelineVars PROVE Truthful'
  BY <1>9 DEF Cool, pipelineVars, receiptVars, workVars, sharedVars
<1> QED
  BY <1>1, <1>2, <1>3, <1>4, <1>5, <1>6, <1>7, <1>8, <1>9
     DEF PipelineNext, WorkerStep, SubmitStep

-----------------------------------------------------------------------------
(* The list of unknown commits. *)

\* What a list becomes when the entry k is removed.
LEMMA EntryRemoved ==
    ASSUME NEW s \in Seq(UnknownCommit), NEW k \in 1 .. Len(s)
    PROVE  /\ RemoveAt(s, k) \in Seq(UnknownCommit)
           /\ Len(RemoveAt(s, k)) = Len(s) - 1
           /\ \A i \in 1 .. Len(s) - 1 : RemoveAt(s, k)[i] = IF i < k THEN s[i] ELSE s[i + 1]
<1> DEFINE n == Len(s)
           a == SubSeq(s, 1, k - 1)
           b == SubSeq(s, k + 1, n)
           t == a \o b
<1>0. n \in Nat /\ k \in Nat
  BY LenProperties
<1>1. RemoveAt(s, k) = t
  BY DEF RemoveAt
<1>2. a \in Seq(UnknownCommit) /\ Len(a) = k - 1 /\ \A i \in 1 .. k - 1 : a[i] = s[i]
  BY SubSeqProperties
<1>3. b \in Seq(UnknownCommit) /\ Len(b) = n - k /\ \A i \in 1 .. n - k : b[i] = s[i + k]
  BY SubSeqProperties
<1> HIDE DEF n, a, b
<1>4. /\ t \in Seq(UnknownCommit) /\ Len(t) = Len(a) + Len(b)
      /\ \A i \in 1 .. Len(a) + Len(b) : t[i] = IF i <= Len(a) THEN a[i] ELSE b[i - Len(a)]
  BY <1>2, <1>3, ConcatProperties
<1> HIDE DEF t
<1>5. Len(a) + Len(b) = n - 1
  BY <1>0, <1>2, <1>3
<1>6. ASSUME NEW i \in 1 .. n - 1 PROVE t[i] = IF i < k THEN s[i] ELSE s[i + 1]
  <2>1. CASE i < k
    <3>1. i \in 1 .. k - 1 /\ i <= Len(a)
      BY <1>0, <1>2, <2>1
    <3> QED
      BY <1>2, <1>4, <1>5, <2>1, <3>1
  <2>2. CASE ~(i < k)
    <3>1. ~(i <= Len(a)) /\ i - Len(a) \in 1 .. n - k /\ i - Len(a) + k = i + 1
      BY <1>0, <1>2, <2>2
    <3>2. t[i] = b[i - Len(a)]
      BY <1>4, <1>5, <3>1
    <3> QED
      BY <1>3, <2>2, <3>1, <3>2
  <2> QED
    BY <2>1, <2>2
<1> QED
  BY <1>1, <1>4, <1>5, <1>6 DEF n

\* Applying a decision removes at most the entries of its own run, and those
\* only when it is final.
LEMMA AppliedList ==
    ASSUME unknown \in Seq(UnknownCommit), NEW p \in UnknownCommit, NEW final \in BOOLEAN
    PROVE  /\ Applied(p, final) \in Seq(UnknownCommit)
           /\ Len(Applied(p, final)) <= Len(unknown)
           /\ \A i \in 1 .. Len(unknown) : unknown[i].run # p.run \/ ~final =>
                 \E j \in 1 .. Len(Applied(p, final)) :
                    Applied(p, final)[j].run = unknown[i].run
<1> DEFINE k == Position(p.run)
           n == Len(unknown)
<1>1. CASE p.run \notin Listed
  BY <1>1 DEF Applied
<1>2. ASSUME p.run \in Listed
      PROVE  k \in 1 .. n /\ unknown[k].run = p.run
  BY <1>2 DEF Listed, Position
<1>3. CASE p.run \in Listed /\ final
  <2> DEFINE t == RemoveAt(unknown, k)
  <2>0. n \in Nat
    BY LenProperties
  <2>1. Applied(p, final) = t
    BY <1>3 DEF Applied
  <2>4. /\ t \in Seq(UnknownCommit) /\ Len(t) = n - 1
        /\ \A i \in 1 .. k - 1 : t[i] = unknown[i]
        /\ \A i \in k .. n - 1 : t[i] = unknown[i + 1]
    <3>1. k \in 1 .. n
      BY <1>2, <1>3
    <3> HIDE DEF k
    <3>2. /\ t \in Seq(UnknownCommit) /\ Len(t) = n - 1
          /\ \A i \in 1 .. n - 1 : t[i] = IF i < k THEN unknown[i] ELSE unknown[i + 1]
      BY <3>1, EntryRemoved
    <3> HIDE DEF t
    <3> QED
      BY <2>0, <3>1, <3>2
  <2>5. ASSUME NEW i \in 1 .. n, unknown[i].run # p.run
        PROVE  \E j \in 1 .. Len(t) : t[j].run = unknown[i].run
    <3> HIDE DEF t, k
    <3>1. CASE i < k
      <4>1. i \in 1 .. k - 1 /\ i \in 1 .. n - 1
        BY <1>2, <1>3, <2>0, <3>1
      <4> QED
        BY <2>4, <4>1
    <3>2. CASE i > k
      <4>1. i - 1 \in k .. n - 1 /\ i - 1 \in 1 .. n - 1 /\ i - 1 + 1 = i
        BY <1>2, <1>3, <2>0, <3>2
      <4> QED
        BY <2>4, <4>1
    <3> QED
      <4>1. i # k
        BY <1>2, <1>3, <2>5
      <4> QED
        BY <1>2, <1>3, <2>0, <3>1, <3>2, <4>1
  <2> HIDE DEF t
  <2>6. Len(t) <= n
    BY <2>0, <2>4
  <2> QED
    BY <1>3, <2>1, <2>4, <2>5, <2>6
<1>4. CASE p.run \in Listed /\ ~final
  <2>1. Applied(p, final) = [unknown EXCEPT ![k].attempts = @ + 1]
    BY <1>4 DEF Applied
  <2>2. unknown[k] \in UnknownCommit
    BY <1>2, <1>4
  <2>3. [unknown[k] EXCEPT !.attempts = @ + 1] \in UnknownCommit
    BY <2>2 DEF UnknownCommit
  <2> DEFINE e == [unknown[k] EXCEPT !.attempts = @ + 1]
  <2>4. e.run = unknown[k].run
    BY <2>2 DEF UnknownCommit
  <2> HIDE DEF e
  <2>5. /\ [unknown EXCEPT ![k] = e] \in Seq(UnknownCommit)
        /\ Len([unknown EXCEPT ![k] = e]) = n
        /\ \A i \in 1 .. n : [unknown EXCEPT ![k] = e][i] = IF i = k THEN e ELSE unknown[i]
    <3> HIDE DEF k
    <3> QED
      BY <1>2, <1>4, <2>3, ExceptSeq DEF e
  <2>6. Applied(p, final) = [unknown EXCEPT ![k] = e]
    <3> HIDE DEF k
    <3> QED
      BY <2>1 DEF e
  <2> QED
    BY <2>4, <2>5, <2>6, LenProperties
<1> QED
  BY <1>1, <1>3, <1>4

\* Which steps touch the lists.
LEMMA ListSteps ==
    ASSUME [PipelineNext]_pipelineVars
    PROVE  \/ UNCHANGED <<unknown, due, finals>>
           \/ \E r \in Runs : TakeDue(r) \/ AddUnknown(r)
           \/ \E r \in Runs, old \in BOOLEAN : Decide(r, old)
           \/ ProcessRestart
<1>1. ASSUME NEW r \in Runs, NEW ok \in BOOLEAN,
                Analyse(r) \/ Schedule(r) \/ Submit(r) \/ SubmitRefused(r)
             \/ StartSave(r) \/ SaveAux(r) \/ AuxReply(r, ok) \/ SaveRaises(r)
             \/ CheckCircuit(r) \/ SendBundle(r) \/ BundleConfirmed(r)
             \/ BundleUnconfirmed(r) \/ SettleReceipt(r) \/ RoundEnds(r) \/ ReadCore(r)
             \/ ReadReply(r, ok) \/ ServerCommits(r) \/ ServerRollsBack(r)
      PROVE  UNCHANGED <<unknown, due, finals>>
  BY <1>1 DEF Analyse, Schedule, Submit, SubmitRefused, StartSave, SaveAux, AuxReply,
      SaveRaises, CheckCircuit, SendBundle, BundleConfirmed, BundleUnconfirmed,
      SettleReceipt, RoundEnds, ReadCore, ReadReply, ServerCommits, ServerRollsBack,
      workVars, sharedVars
<1>2. ASSUME Cool \/ UNCHANGED pipelineVars PROVE UNCHANGED <<unknown, due, finals>>
  BY <1>2 DEF Cool, pipelineVars, workVars, sharedVars
<1> QED
  BY <1>1, <1>2 DEF PipelineNext, WorkerStep, SubmitStep

\* The oldest entry of a list that is not empty.
LEMMA OldestEntry ==
    ASSUME NEW s \in Seq(UnknownCommit), s # <<>>
    PROVE  /\ Head(s) = s[1] /\ Head(s) \in UnknownCommit
           /\ Head(s).run \in Runs
           /\ Tail(s) \in Seq(UnknownCommit)
<1>1. Len(s) \in Nat /\ Len(s) # 0 /\ Head(s) = s[1]
  BY EmptySeq, LenProperties
<1>2. s[1] \in UnknownCommit
  BY <1>1, ElementOfSeq
<1>3. s[1].run \in Runs
  BY <1>2 DEF UnknownCommit
<1>4. Tail(s) \in Seq(UnknownCommit)
  BY HeadTailProperties
<1> QED
  BY <1>1, <1>2, <1>3, <1>4

\* Telling one more decision of a run adds it to those told before.
LEMMA DecisionTold ==
    \A s \in Seq(Reasons), e \in Reasons :
        /\ Append(s, e) \in Seq(Reasons)
        /\ Append(s, e) # <<>>
        /\ ToSet(Append(s, e)) = ToSet(s) \cup {e}
<1> TAKE s \in Seq(Reasons), e \in Reasons
<1>1. Append(s, e) \in Seq(Reasons) /\ Append(s, e) # <<>>
  BY AppendProperties
<1>2. ToSet(Append(s, e)) = ToSet(s) \cup {e}
  BY AppendSet
<1> QED
  BY <1>1, <1>2

\* An unknown commit is appended, and the oldest is evicted when it must be.
LEMMA AddUnknownList ==
    ASSUME unknown \in Seq(UnknownCommit), Len(unknown) <= UnknownCapacity,
           finals \in [Runs -> Seq(Reasons)], NEW r \in Runs, AddUnknown(r)
    PROVE  /\ unknown' \in Seq(UnknownCommit) /\ Len(unknown') <= UnknownCapacity
           /\ finals' \in [Runs -> Seq(Reasons)]
           /\ r \in Listed'
           /\ \A x \in Runs : x \in Listed => x \in Listed' \/ finals'[x] # <<>>
           /\ \A x \in Runs : finals[x] # <<>> => finals'[x] # <<>>
           /\ \A x \in Runs :
                 "COMMITTED" \in ToSet(finals'[x]) => "COMMITTED" \in ToSet(finals[x])
<1> DEFINE e == [run |-> r, attempts |-> 0]
           all == Append(unknown, e)
           n == Len(unknown)
<1>1. e \in UnknownCommit /\ e.run = r
  BY DEF UnknownCommit
<1>2. n \in Nat /\ UnknownCapacity \in Nat \ {0}
  BY LenProperties, PipelineAssumption
<1>3. /\ all \in Seq(UnknownCommit) /\ Len(all) = n + 1 /\ all[n + 1] = e
      /\ \A i \in 1 .. n : all[i] = unknown[i]
  BY <1>1, AppendProperties
<1>4. CASE Len(all) > UnknownCapacity
  <2> DEFINE h == Head(all).run
  <2>1. unknown' = Tail(all) /\ finals' = [finals EXCEPT ![h] = Append(@, "EXPIRED")]
    BY <1>4 DEF AddUnknown
  <2> HIDE DEF e, all
  <2>2. all # <<>> /\ Head(all) = all[1] /\ all[1] \in UnknownCommit /\ h \in Runs
    <3>1. all # <<>>
      BY <1>2, <1>3, EmptySeq
    <3> QED
      BY <1>3, <3>1, OldestEntry
  <2>3. /\ unknown' \in Seq(UnknownCommit) /\ Len(unknown') = n
        /\ \A i \in 1 .. n : unknown'[i] = all[i + 1]
    BY <1>2, <1>3, <2>1, <2>2, HeadTailProperties
  <2>4. n >= 1
    BY <1>2, <1>3, <1>4
  <2>5. r \in Listed'
    <3>1. n \in 1 .. n
      BY <1>2, <2>4
    <3>2. unknown'[n] = e
      BY <1>3, <2>3, <3>1
    <3> QED
      BY <1>1, <2>3, <3>1, <3>2 DEF Listed
  <2>6. /\ Append(finals[h], "EXPIRED") \in Seq(Reasons)
        /\ Append(finals[h], "EXPIRED") # <<>>
        /\ ToSet(Append(finals[h], "EXPIRED")) = ToSet(finals[h]) \cup {"EXPIRED"}
    <3>1. finals[h] \in Seq(Reasons) /\ "EXPIRED" \in Reasons
      BY <2>2 DEF Reasons
    <3> HIDE DEF h
    <3> QED
      BY <3>1, DecisionTold
  <2>7. ASSUME NEW x \in Runs, x \in Listed, x # h PROVE x \in Listed'
    <3>1. PICK i \in 1 .. n : unknown[i].run = x
      BY <2>7 DEF Listed
    <3>2. i # 1
      BY <1>3, <2>2, <2>7, <3>1
    <3>3. i - 1 \in 1 .. n /\ i - 1 + 1 = i
      BY <1>2, <3>1, <3>2
    <3>4. unknown'[i - 1].run = x
      BY <1>3, <2>3, <3>1, <3>3
    <3> QED
      BY <2>3, <3>3, <3>4 DEF Listed
  <2> QED
    BY <2>1, <2>2, <2>3, <2>5, <2>6, <2>7
<1>5. CASE ~(Len(all) > UnknownCapacity)
  <2>1. unknown' = all /\ finals' = finals
    BY <1>5 DEF AddUnknown
  <2> HIDE DEF e, all
  <2>2. r \in Listed'
    BY <1>1, <1>2, <1>3, <2>1 DEF Listed
  <2>3. ASSUME NEW x \in Runs, x \in Listed PROVE x \in Listed'
    BY <1>2, <1>3, <2>1, <2>3 DEF Listed
  <2> QED
    BY <1>2, <1>3, <1>5, <2>1, <2>2, <2>3
<1> QED
  BY <1>4, <1>5

\* A decision removes what it has told of, and tells COMMITTED of a run only
\* when the read found it.
LEMMA DecideList ==
    ASSUME PipeInv, NEW r \in Runs, NEW old \in BOOLEAN, Decide(r, old)
    PROVE  /\ unknown' \in Seq(UnknownCommit) /\ Len(unknown') <= UnknownCapacity
           /\ finals' \in [Runs -> Seq(Reasons)]
           /\ due' \in [Runs -> Seq(UnknownCommit)]
           /\ \A x \in Runs : x \in Listed => x \in Listed' \/ finals'[x] # <<>>
           /\ \A x \in Runs : finals[x] # <<>> => finals'[x] # <<>>
           /\ \A x \in Runs : "COMMITTED" \in ToSet(finals'[x]) =>
                 "COMMITTED" \in ToSet(finals[x]) \/ rpc[x] = "committed"
<1> DEFINE p == Head(due[r])
           final == Final(p, answer[r], old)
           reason == Reason(answer[r])
<1>0. final \in BOOLEAN
  BY DEF Final
<1>1. due[r] \in Seq(UnknownCommit) /\ due[r] # <<>> /\ answer[r] # "none"
  BY DEF PipeInv, ListTypes, Reading, Decide
<1>2. p \in UnknownCommit /\ Tail(due[r]) \in Seq(UnknownCommit) /\ p.run \in Runs
  BY <1>1, OldestEntry
<1>3. reason \in Reasons /\ (reason = "COMMITTED" => rpc[p.run] = "committed")
  <2>1. answer[r] \in {"stored", "absent", "unreadable"}
    BY <1>1 DEF PipeInv, WorkTypes
  <2>2. answer[r] = "stored" => rpc[p.run] = "committed"
    BY DEF PipeInv, Reading
  <2> QED
    BY <2>1, <2>2 DEF Reason, Reasons
<1>4. /\ unknown' = Applied(p, final)
      /\ finals' = IF final THEN [finals EXCEPT ![p.run] = Append(@, reason)] ELSE finals
      /\ due' = [due EXCEPT ![r] = IF answer[r] = "unreadable" THEN <<>> ELSE Tail(@)]
  BY DEF Decide
<1> HIDE DEF p, final, reason
<1>5. /\ unknown' \in Seq(UnknownCommit) /\ Len(unknown') <= Len(unknown)
      /\ \A i \in 1 .. Len(unknown) : unknown[i].run # p.run \/ ~final =>
             \E j \in 1 .. Len(unknown') : unknown'[j].run = unknown[i].run
  <2>1. unknown \in Seq(UnknownCommit)
    BY DEF PipeInv, ListTypes
  <2>2. /\ Applied(p, final) \in Seq(UnknownCommit) /\ Len(Applied(p, final)) <= Len(unknown)
        /\ \A i \in 1 .. Len(unknown) : unknown[i].run # p.run \/ ~final =>
               \E j \in 1 .. Len(Applied(p, final)) :
                  Applied(p, final)[j].run = unknown[i].run
    BY <1>2, <1>0, <2>1, AppliedList
  <2> QED
    BY <1>4, <2>2
<1>6. \A x \in Runs : x \in Listed => x \in Listed' \/ (final /\ x = p.run)
  BY <1>5 DEF Listed
<1>7. finals \in [Runs -> Seq(Reasons)]
  BY DEF PipeInv, ListTypes
<1>8. /\ Append(finals[p.run], reason) \in Seq(Reasons)
      /\ Append(finals[p.run], reason) # <<>>
      /\ ToSet(Append(finals[p.run], reason)) = ToSet(finals[p.run]) \cup {reason}
  <2>1. finals[p.run] \in Seq(Reasons) /\ reason \in Reasons
    BY <1>2, <1>3, <1>7
  <2> QED
    BY <2>1, DecisionTold
<1>9. Len(unknown') <= UnknownCapacity
  BY <1>5, LenProperties, PipelineAssumption DEF PipeInv, ListTypes
<1>10. due' \in [Runs -> Seq(UnknownCommit)]
  BY <1>1, <1>2, <1>4 DEF PipeInv, ListTypes, p
<1> QED
  BY <1>2, <1>3, <1>4, <1>5, <1>6, <1>7, <1>8, <1>9, <1>10

LEMMA StepLists ==
    ASSUME PipeInv, [PipelineNext]_pipelineVars
    PROVE  ListTypes'
<1>1. CASE UNCHANGED <<unknown, due, finals>>
  BY <1>1 DEF PipeInv, ListTypes
<1>2. ASSUME NEW r \in Runs, TakeDue(r) PROVE ListTypes'
  BY <1>2 DEF PipeInv, ListTypes, TakeDue, sharedVars
<1>3. ASSUME NEW r \in Runs, AddUnknown(r) PROVE ListTypes'
  <2>1. due' = due
    BY <1>3 DEF AddUnknown
  <2> QED
    BY <1>3, <2>1, AddUnknownList DEF PipeInv, ListTypes
<1>4. ASSUME NEW r \in Runs, NEW old \in BOOLEAN, Decide(r, old) PROVE ListTypes'
  BY <1>4, DecideList DEF ListTypes
<1>5. CASE ProcessRestart
  BY <1>5, EmptySeq, PipelineAssumption DEF PipeInv, ListTypes, ProcessRestart
<1> QED
  BY <1>1, <1>2, <1>3, <1>4, <1>5, ListSteps

LEMMA StepReading ==
    ASSUME PipeInv, [PipelineNext]_pipelineVars
    PROVE  Reading'
<1> USE DEF PipeInv, WorkTypes, Stages, Admitted, Progress, BeforeSettle, BeforeSend,
        Reading, Goto
<1>0. \A r \in Runs : due[r] # <<>> => Head(due[r]).run \in Runs
  BY OldestEntry DEF ListTypes
<1>1. ASSUME NEW r \in Runs,
                Schedule(r) \/ Submit(r) \/ SubmitRefused(r) \/ SettleReceipt(r)
             \/ AddUnknown(r) \/ RoundEnds(r)
      PROVE  Reading'
  <2>1. /\ stage[r] \notin {"reading", "decide"}
        /\ \E next \in {"scheduled", "queued", "done", "reconcile"} : Goto(r, next)
        /\ UNCHANGED <<due, answer, rpc, receipt>>
    BY <1>1 DEF Schedule, Submit, SubmitRefused, SettleReceipt, AddUnknown, RoundEnds,
        Finish, sharedVars
  <2> QED
    BY <2>1
<1>2. ASSUME NEW r \in Runs, StartSave(r) PROVE Reading'
  <2>1. stage[r] = "queued"
    BY <1>2 DEF StartSave, Queued
  <2> QED
    BY <1>2, <2>1 DEF StartSave
<1>3. ASSUME NEW r \in Runs, NEW ok \in BOOLEAN,
                SaveAux(r) \/ AuxReply(r, ok) \/ SaveRaises(r) \/ CheckCircuit(r)
             \/ BundleConfirmed(r) \/ BundleUnconfirmed(r)
      PROVE  Reading'
  BY <1>3 DEF SaveAux, AuxReply, SaveRaises, CheckCircuit, BundleConfirmed,
      BundleUnconfirmed, Receipt, sharedVars
<1>4. ASSUME NEW r \in Runs, SendBundle(r) PROVE Reading'
  <2>1. rpc[r] = "none" /\ \A x \in Runs : x # r => rpc'[x] = rpc[x]
    BY <1>4 DEF SendBundle
  <2>2. \A x \in Runs : rpc[x] = "committed" => rpc'[x] = "committed"
    BY <2>1
  <2>3. /\ stage[r] = "send" /\ \E next \in {"sent", "settle"} : Goto(r, next)
        /\ UNCHANGED <<due, answer>>
        /\ \A x \in Runs : x # r => receipt'[x] = receipt[x]
    BY <1>4 DEF SendBundle, Receipt
  <2>4. ASSUME NEW x \in Runs, answer[x] = "stored"
        PROVE  rpc'[Head(due[x]).run] = "committed"
    BY <1>0, <2>2, <2>4
  <2> QED
    BY <2>3, <2>4
<1>5. ASSUME NEW r \in Runs, TakeDue(r) PROVE Reading'
  BY <1>5 DEF TakeDue, sharedVars
<1>6. ASSUME NEW r \in Runs, ReadCore(r) PROVE Reading'
  BY <1>6 DEF ReadCore, Answered
<1>7. ASSUME NEW r \in Runs, NEW ok \in BOOLEAN, ReadReply(r, ok) PROVE Reading'
  BY <1>7 DEF ReadReply, Answered
<1>8. ASSUME NEW r \in Runs, NEW ok \in BOOLEAN, Decide(r, ok) PROVE Reading'
  BY <1>8 DEF Decide, Answered
<1>9. ASSUME NEW r \in Runs, ServerCommits(r) \/ ServerRollsBack(r) PROVE Reading'
  BY <1>0, <1>9 DEF ServerCommits, ServerRollsBack, workVars
<1>10. ASSUME NEW r \in Runs, Analyse(r) PROVE Reading'
  BY <1>10 DEF Analyse, workVars, sharedVars
<1>11. ASSUME ProcessRestart PROVE Reading'
  BY <1>11 DEF ProcessRestart
<1>12. ASSUME Cool \/ UNCHANGED pipelineVars PROVE Reading'
  BY <1>12 DEF Cool, pipelineVars, workVars, sharedVars
<1> QED
  BY <1>1, <1>2, <1>3, <1>4, <1>5, <1>6, <1>7, <1>8, <1>9, <1>10, <1>11, <1>12
     DEF PipelineNext, WorkerStep, SubmitStep

LEMMA StepReconciled ==
    ASSUME PipeInv, [PipelineNext]_pipelineVars
    PROVE  ReconciledIsCommitted'
<1>1. \A x \in Runs : rpc[x] = "committed" => rpc'[x] = "committed"
  <2>1. ASSUME NEW r \in Runs, SendBundle(r) PROVE UNCHANGED rpc \/ rpc[r] = "none"
    BY <2>1 DEF SendBundle, PipeInv, Progress, BeforeSend
  <2>2. ASSUME NEW r \in Runs, SendBundle(r) PROVE \A x \in Runs : x # r => rpc'[x] = rpc[x]
    BY <2>2 DEF SendBundle, PipeInv, WorkTypes
  <2>3. ASSUME NEW r \in Runs, ServerCommits(r) \/ ServerRollsBack(r)
        PROVE  \A x \in Runs : rpc[x] = "committed" => rpc'[x] = "committed"
    BY <2>3 DEF ServerCommits, ServerRollsBack, PipeInv, WorkTypes
  <2>4. ASSUME NEW r \in Runs, NEW ok \in BOOLEAN,
                  Analyse(r) \/ Schedule(r) \/ Submit(r) \/ SubmitRefused(r)
               \/ StartSave(r) \/ SaveAux(r) \/ AuxReply(r, ok) \/ SaveRaises(r)
               \/ CheckCircuit(r) \/ BundleConfirmed(r) \/ BundleUnconfirmed(r)
               \/ SettleReceipt(r) \/ AddUnknown(r) \/ TakeDue(r) \/ RoundEnds(r)
               \/ ReadCore(r) \/ ReadReply(r, ok) \/ Decide(r, ok)
        PROVE  UNCHANGED rpc
    BY <2>4 DEF Analyse, Schedule, Submit, SubmitRefused, StartSave, SaveAux, AuxReply,
        SaveRaises, CheckCircuit, BundleConfirmed, BundleUnconfirmed, SettleReceipt,
        AddUnknown, TakeDue, RoundEnds, ReadCore, ReadReply, Decide, sharedVars
  <2>5. ASSUME Cool \/ ProcessRestart \/ UNCHANGED pipelineVars PROVE UNCHANGED rpc
    BY <2>5 DEF Cool, ProcessRestart, pipelineVars, sharedVars
  <2> QED
    BY <2>1, <2>2, <2>3, <2>4, <2>5 DEF PipelineNext, WorkerStep, SubmitStep
<1>2. \A x \in Runs : "COMMITTED" \in ToSet(finals'[x]) =>
          "COMMITTED" \in ToSet(finals[x]) \/ rpc[x] = "committed"
  <2>1. ASSUME NEW r \in Runs, AddUnknown(r)
        PROVE  \A x \in Runs :
                  "COMMITTED" \in ToSet(finals'[x]) => "COMMITTED" \in ToSet(finals[x])
    BY <2>1, AddUnknownList DEF PipeInv, ListTypes
  <2>2. ASSUME NEW r \in Runs, TakeDue(r) PROVE UNCHANGED finals
    BY <2>2 DEF TakeDue, sharedVars
  <2>3. ASSUME ProcessRestart PROVE UNCHANGED finals
    BY <2>3 DEF ProcessRestart
  <2> QED
    BY <2>1, <2>2, <2>3, DecideList, ListSteps
<1> QED
  BY <1>1, <1>2 DEF PipeInv, ReconciledIsCommitted

LEMMA StepUnknown ==
    ASSUME PipeInv, [PipelineNext]_pipelineVars
    PROVE  UnknownIsAccounted'
<1> DEFINE Lost(x) == receipt[x] = "COMMIT_UNKNOWN" /\ stage[x] = "done"
<1>1. ASSUME NEW x \in Runs, Lost(x)' PROVE Lost(x) \/ AddUnknown(x)
  <2> USE DEF PipeInv, WorkTypes, Goto
  <2>1. ASSUME NEW r \in Runs, SubmitRefused(r) PROVE Lost(x)
    BY <1>1, <2>1 DEF SubmitRefused, Progress, BeforeSettle, BeforeSend
  <2>2. ASSUME NEW r \in Runs, SettleReceipt(r) PROVE Lost(x)
    BY <1>1, <2>2 DEF SettleReceipt, Finish
  <2>3. ASSUME NEW r \in Runs, RoundEnds(r) PROVE Lost(x)
    BY <1>1, <2>3 DEF RoundEnds, Finish, Reading
  <2>4. ASSUME NEW r \in Runs, AddUnknown(r) PROVE Lost(x) \/ AddUnknown(x)
    BY <1>1, <2>4 DEF AddUnknown, Finish
  <2>5. ASSUME NEW r \in Runs, NEW ok \in BOOLEAN,
                  SaveRaises(r) \/ CheckCircuit(r) \/ SendBundle(r)
               \/ BundleConfirmed(r) \/ BundleUnconfirmed(r)
        PROVE  Lost(x)
    BY <1>1, <2>5 DEF SaveRaises, CheckCircuit, SendBundle, BundleConfirmed,
        BundleUnconfirmed, Receipt
  <2>6. ASSUME NEW r \in Runs, NEW ok \in BOOLEAN,
                  Analyse(r) \/ Schedule(r) \/ Submit(r) \/ StartSave(r) \/ SaveAux(r)
               \/ AuxReply(r, ok) \/ TakeDue(r) \/ ReadCore(r) \/ ReadReply(r, ok)
               \/ Decide(r, ok) \/ ServerCommits(r) \/ ServerRollsBack(r)
        PROVE  Lost(x)
    BY <1>1, <2>6 DEF Analyse, Schedule, Submit, StartSave, SaveAux, AuxReply, TakeDue,
        ReadCore, ReadReply, Decide, Answered, ServerCommits, ServerRollsBack, workVars,
        sharedVars
  <2>7. CASE ProcessRestart
    BY <1>1, <2>7 DEF ProcessRestart
  <2>8. CASE Cool \/ UNCHANGED pipelineVars
    BY <1>1, <2>8 DEF Cool, pipelineVars, workVars
  <2> QED
    BY <2>1, <2>2, <2>3, <2>4, <2>5, <2>6, <2>7, <2>8 DEF PipelineNext, WorkerStep, SubmitStep
<1>2. CASE ProcessRestart
  BY <1>2 DEF ProcessRestart, UnknownIsAccounted
<1>3. ASSUME ~ProcessRestart
      PROVE  /\ \A x \in Runs : x \in Listed => x \in Listed' \/ finals'[x] # <<>>
             /\ \A x \in Runs : finals[x] # <<>> => finals'[x] # <<>>
  <2>1. CASE UNCHANGED <<unknown, due, finals>>
    BY <2>1 DEF Listed
  <2>2. ASSUME NEW r \in Runs, TakeDue(r) PROVE UNCHANGED <<unknown, finals>>
    BY <2>2 DEF TakeDue, sharedVars
  <2>3. ASSUME NEW r \in Runs, TakeDue(r) PROVE Listed' = Listed /\ finals' = finals
    BY <2>2, <2>3 DEF Listed
  <2>4. ASSUME NEW r \in Runs, AddUnknown(r)
        PROVE  /\ \A x \in Runs : x \in Listed => x \in Listed' \/ finals'[x] # <<>>
               /\ \A x \in Runs : finals[x] # <<>> => finals'[x] # <<>>
    BY <2>4, AddUnknownList DEF PipeInv, ListTypes
  <2> QED
    BY <1>3, <2>1, <2>3, <2>4, DecideList, ListSteps
<1>4. \A x \in Runs : AddUnknown(x) => x \in Listed'
  BY AddUnknownList DEF PipeInv, ListTypes
<1> QED
  BY <1>1, <1>2, <1>3, <1>4 DEF PipeInv, UnknownIsAccounted

-----------------------------------------------------------------------------
(* The stages, the queue and the permits. *)

\* How a step may move a save along its stages.
LEMMA StageMoves ==
    ASSUME PipeInv, [PipelineNext]_pipelineVars
    PROVE  \/ UNCHANGED <<stage, permits, queue>>
           \/ \E r \in Runs :
                 /\ \/ stage[r] = "none" /\ Goto(r, "scheduled")
                    \/ stage[r] = "scheduled" /\ Goto(r, "done")
                    \/ stage[r] \in Running /\ \E next \in Running : Goto(r, next)
                 /\ UNCHANGED <<permits, queue>>
           \/ \E r \in Runs : Submit(r) \/ StartSave(r)
           \/ \E r \in Runs : stage[r] \in Running /\ Finish(r) /\ UNCHANGED queue
           \/ ProcessRestart
<1> USE DEF Running, Admitted
<1>1. ASSUME NEW r \in Runs, Schedule(r)
      PROVE  stage[r] = "none" /\ Goto(r, "scheduled") /\ UNCHANGED <<permits, queue>>
  BY <1>1 DEF Schedule, sharedVars
<1>2. ASSUME NEW r \in Runs, SubmitRefused(r)
      PROVE  stage[r] = "scheduled" /\ Goto(r, "done") /\ UNCHANGED <<permits, queue>>
  BY <1>2 DEF SubmitRefused
<1>3. ASSUME NEW r \in Runs, NEW ok \in BOOLEAN,
                SaveAux(r) \/ AuxReply(r, ok) \/ SaveRaises(r) \/ CheckCircuit(r)
             \/ SendBundle(r) \/ BundleConfirmed(r) \/ BundleUnconfirmed(r)
             \/ TakeDue(r) \/ ReadCore(r) \/ ReadReply(r, ok) \/ Decide(r, ok)
      PROVE  /\ stage[r] \in Running /\ \E next \in Running : Goto(r, next)
             /\ UNCHANGED <<permits, queue>>
  BY <1>3 DEF SaveAux, AuxReply, SaveRaises, CheckCircuit, SendBundle, BundleConfirmed,
      BundleUnconfirmed, TakeDue, ReadCore, ReadReply, Decide, Receipt, Answered, sharedVars
<1>4. ASSUME NEW r \in Runs, SettleReceipt(r)
      PROVE  /\ stage[r] \in Running /\ UNCHANGED queue
             /\ Finish(r) \/ (Goto(r, "reconcile") /\ UNCHANGED permits)
  BY <1>4 DEF SettleReceipt
<1>5. ASSUME NEW r \in Runs, AddUnknown(r) \/ RoundEnds(r)
      PROVE  stage[r] \in Running /\ Finish(r) /\ UNCHANGED queue
  BY <1>5 DEF AddUnknown, RoundEnds
<1>6. ASSUME NEW r \in Runs, Analyse(r) \/ ServerCommits(r) \/ ServerRollsBack(r)
      PROVE  UNCHANGED <<stage, permits, queue>>
  BY <1>6 DEF Analyse, ServerCommits, ServerRollsBack, workVars, sharedVars
<1>7. ASSUME Cool \/ UNCHANGED pipelineVars
      PROVE  UNCHANGED <<stage, permits, queue>>
  BY <1>7 DEF Cool, pipelineVars, workVars, sharedVars
<1>8. "reconcile" \in Running
  OBVIOUS
<1> HIDE DEF Running, Admitted
<1> QED
  BY <1>1, <1>2, <1>3, <1>4, <1>5, <1>6, <1>7, <1>8 DEF PipelineNext, WorkerStep, SubmitStep

LEMMA StepQueued ==
    ASSUME PipeInv, [PipelineNext]_pipelineVars
    PROVE  Queued'
<1>0. WorkTypes /\ Queued
  BY DEF PipeInv
<1> USE <1>0 DEF WorkTypes, Queued
<1>1. CASE UNCHANGED <<stage, permits, queue>>
  BY <1>1
<1>2. ASSUME NEW r \in Runs, NEW next, stage[r] # "queued", next # "queued",
             Goto(r, next), UNCHANGED queue
      PROVE  Queued'
  BY <1>2 DEF Goto
<1>3. ASSUME NEW r \in Runs, Submit(r) PROVE Queued'
  <2>1. queue' = Append(queue, r) /\ stage[r] = "scheduled" /\ Goto(r, "queued")
    BY <1>3 DEF Submit
  <2>2. /\ queue' \in Seq(Runs) /\ Len(queue') = Len(queue) + 1
        /\ queue'[Len(queue) + 1] = r
        /\ \A i \in 1 .. Len(queue) : queue'[i] = queue[i]
    BY <2>1, AppendProperties
  <2>3. \A i \in 1 .. Len(queue) : queue[i] # r
    BY <2>1
  <2>4. Len(queue) \in Nat
    BY LenProperties
  <2>5. \A i \in 1 .. Len(queue') : i \in 1 .. Len(queue) \/ i = Len(queue) + 1
    BY <2>2, <2>4
  <2>6. /\ \A i \in 1 .. Len(queue) : i \in 1 .. Len(queue')
        /\ Len(queue) + 1 \in 1 .. Len(queue')
    BY <2>2, <2>4
  <2>7. \A x \in Runs : stage'[x] = IF x = r THEN "queued" ELSE stage[x]
    BY <2>1 DEF Goto
  <2>8. ASSUME NEW i \in 1 .. Len(queue') PROVE stage'[queue'[i]] = "queued"
    <3>1. CASE i \in 1 .. Len(queue)
      BY <2>2, <2>7, <3>1
    <3>2. CASE i = Len(queue) + 1
      BY <2>2, <2>7, <3>2
    <3> QED
      BY <2>5, <3>1, <3>2
  <2>9. \A i, j \in 1 .. Len(queue') : queue'[i] = queue'[j] => i = j
    BY <2>2, <2>3, <2>5
  <2>10. \A x \in Runs : stage'[x] = "queued" => \E i \in 1 .. Len(queue') : queue'[i] = x
    BY <2>2, <2>6, <2>7
  <2> QED
    BY <2>2, <2>8, <2>9, <2>10
<1>4. ASSUME NEW r \in Runs, StartSave(r) PROVE Queued'
  <2>1. queue # <<>> /\ r = Head(queue) /\ queue' = Tail(queue) /\ Goto(r, "aux")
    BY <1>4 DEF StartSave
  <2>2. /\ queue' \in Seq(Runs) /\ Len(queue') = Len(queue) - 1
        /\ \A i \in 1 .. Len(queue') : queue'[i] = queue[i + 1]
        /\ Len(queue) \in Nat \ {0} /\ r = queue[1]
    BY <2>1, HeadTailProperties, LenProperties, EmptySeq
  <2>3. \A i \in 1 .. Len(queue') : i + 1 \in 1 .. Len(queue) /\ i + 1 # 1
    BY <2>2
  <2>4. \A x \in Runs : stage'[x] = IF x = r THEN "aux" ELSE stage[x]
    BY <2>1 DEF Goto
  <2>5. 1 \in 1 .. Len(queue)
    BY <2>2
  <2>6. \A i \in 1 .. Len(queue') : stage'[queue'[i]] = "queued"
    BY <2>2, <2>3, <2>4, <2>5
  <2>7. ASSUME NEW i \in 1 .. Len(queue'), NEW j \in 1 .. Len(queue'), queue'[i] = queue'[j]
        PROVE  i = j
    <3>1. i + 1 \in 1 .. Len(queue) /\ j + 1 \in 1 .. Len(queue)
      BY <2>3
    <3>2. queue[i + 1] = queue[j + 1]
      BY <2>2, <2>7
    <3>3. i + 1 = j + 1
      BY <3>1, <3>2
    <3> QED
      BY <2>2, <3>3
  <2>8. ASSUME NEW x \in Runs, stage'[x] = "queued"
        PROVE  \E i \in 1 .. Len(queue') : queue'[i] = x
    <3>1. x # r /\ stage[x] = "queued"
      BY <2>4, <2>8
    <3>2. PICK k \in 1 .. Len(queue) : queue[k] = x
      BY <3>1
    <3>3. k # 1
      BY <2>2, <3>1, <3>2
    <3>4. k - 1 \in 1 .. Len(queue') /\ k - 1 + 1 = k
      BY <2>2, <3>3
    <3> QED
      BY <2>2, <3>2, <3>4
  <2> QED
    BY <2>2, <2>6, <2>7, <2>8
<1>5. CASE ProcessRestart
  BY <1>5, EmptySeq DEF ProcessRestart
<1>6. \A r \in Runs : stage[r] \in Running => stage[r] # "queued"
  BY DEF Running
<1>7. \A next \in Running : next # "queued"
  BY DEF Running
<1> QED
  BY <1>1, <1>2, <1>3, <1>4, <1>5, <1>6, <1>7, StageMoves DEF Finish

LEMMA StepPermits ==
    ASSUME PipeInv, [PipelineNext]_pipelineVars
    PROVE  PermitsExact'
<1> USE DEF PipeInv, WorkTypes, PermitsExact, PermitsAddUp
<1>0. MaxJobs \in Nat /\ Cardinality(In(Admitted)) \in Nat
  BY PipelineAssumption, FS_CardinalityType
<1>1. ASSUME In(Admitted)' = In(Admitted), permits' = permits PROVE PermitsExact'
  BY <1>1
<1>2. CASE UNCHANGED <<stage, permits, queue>>
  BY <1>1, <1>2 DEF In
<1>3. ASSUME NEW r \in Runs, NEW next, Goto(r, next), permits' = permits,
             stage[r] \in Admitted <=> next \in Admitted
      PROVE  PermitsExact'
  BY <1>1, <1>3 DEF In, Goto
<1>4. ASSUME NEW r \in Runs, Submit(r) PROVE PermitsExact'
  <2>1. In(Admitted)' = In(Admitted) \cup {r} /\ r \notin In(Admitted)
    BY <1>4 DEF Submit, In, Goto, Admitted
  <2>2. permits' = permits - 1 /\ permits > 0
    BY <1>4 DEF Submit
  <2> QED
    <3>1. /\ IsFiniteSet(In(Admitted)')
          /\ Cardinality(In(Admitted)') = Cardinality(In(Admitted)) + 1
      BY <2>1, FS_AddElement
    <3> QED
      BY <1>0, <2>2, <3>1
<1>5. ASSUME NEW r \in Runs, StartSave(r) PROVE PermitsExact'
  <2>1. stage[r] = "queued" /\ Goto(r, "aux") /\ permits' = permits
    BY <1>5 DEF StartSave, Queued
  <2> QED
    BY <1>3, <2>1 DEF Admitted
<1>6. ASSUME NEW r \in Runs, stage[r] \in Running, Finish(r) PROVE PermitsExact'
  <2>1. In(Admitted)' = In(Admitted) \ {r} /\ r \in In(Admitted)
    BY <1>6 DEF Finish, In, Goto, Running, Admitted
  <2> QED
    <3>1. /\ IsFiniteSet(In(Admitted)')
          /\ Cardinality(In(Admitted)') = Cardinality(In(Admitted)) - 1
      BY <2>1, FS_RemoveElement
    <3> QED
      BY <1>0, <1>6, <3>1 DEF Finish
<1>7. CASE ProcessRestart
  <2>1. In(Admitted)' = {} /\ permits' = MaxJobs
    BY <1>7 DEF ProcessRestart, In, Admitted
  <2> QED
    BY <1>0, <2>1, FS_EmptySet
<1>8. /\ Running \subseteq Admitted
      /\ "none" \notin Admitted /\ "scheduled" \notin Admitted /\ "done" \notin Admitted
  BY DEF Running, Admitted
<1> QED
  BY <1>2, <1>3, <1>4, <1>5, <1>6, <1>7, <1>8, StageMoves

-----------------------------------------------------------------------------
(* The circuit's trial. *)

LEMMA StepTrial ==
    ASSUME PipeInv, [PipelineNext]_pipelineVars
    PROVE  TrialIsInFlight'
<1> USE DEF PipeInv, WorkTypes, Goto, In
<1>1. CASE MarkOk \/ MarkUnavailable
  BY <1>1 DEF TrialIsInFlight, MarkOk, MarkUnavailable, Closed, Unavailable
<1>2. ASSUME NEW r \in Runs, stage'[r] \in InFlight PROVE TrialIsInFlight'
  BY <1>2 DEF TrialIsInFlight
<1>3. ASSUME circuit'.trial = circuit.trial,
             \A x \in Runs : stage[x] \in InFlight => stage'[x] \in InFlight
      PROVE  TrialIsInFlight'
  BY <1>3 DEF TrialIsInFlight
<1>4. ASSUME NEW r \in Runs, NEW ok \in BOOLEAN,
                SubmitRefused(r) \/ SaveRaises(r) \/ AuxReply(r, ok) \/ ReadReply(r, ok)
             \/ BundleConfirmed(r) \/ BundleUnconfirmed(r)
      PROVE  MarkOk \/ MarkUnavailable
  BY <1>4 DEF SubmitRefused, SaveRaises, AuxReply, ReadReply, BundleConfirmed,
      BundleUnconfirmed
<1>5. ASSUME NEW r \in Runs, SaveAux(r) \/ SendBundle(r) \/ ReadCore(r)
      PROVE  TrialIsInFlight'
  <2>1. CASE stage'[r] \in InFlight
    BY <1>2, <2>1
  <2>2. CASE stage'[r] \notin InFlight
    <3>1. circuit' = circuit /\ \A x \in Runs : stage[x] \in InFlight => stage'[x] \in InFlight
      BY <1>5, <2>2 DEF SaveAux, SendBundle, ReadCore, Receipt, Answered, InFlight, Stages,
          Admitted
    <3> QED
      BY <1>3, <3>1
  <2> QED
    BY <2>1, <2>2
<1>6. ASSUME NEW r \in Runs, NEW ok \in BOOLEAN,
                Schedule(r) \/ Submit(r) \/ CheckCircuit(r) \/ AddUnknown(r)
             \/ TakeDue(r) \/ RoundEnds(r) \/ Decide(r, ok)
      PROVE  TrialIsInFlight'
  <2>1. circuit' = circuit /\ \A x \in Runs : stage[x] \in InFlight => stage'[x] \in InFlight
    BY <1>6 DEF Schedule, Submit, CheckCircuit, AddUnknown, TakeDue, RoundEnds, Decide,
        Receipt, Answered, Finish, InFlight, sharedVars
  <2> QED
    BY <1>3, <2>1
<1>7. ASSUME NEW r \in Runs, StartSave(r) PROVE TrialIsInFlight'
  <2>1. stage[r] = "queued" /\ Goto(r, "aux") /\ circuit' = circuit
    BY <1>7 DEF StartSave, Queued
  <2> QED
    BY <1>3, <2>1 DEF InFlight
<1>8. ASSUME NEW r \in Runs, SettleReceipt(r) PROVE TrialIsInFlight'
  <2>1. MarkUnavailable \/ circuit' = circuit
    BY <1>8 DEF SettleReceipt
  <2>2. \A x \in Runs : stage[x] \in InFlight => stage'[x] \in InFlight
    BY <1>8 DEF SettleReceipt, Finish, InFlight
  <2> QED
    BY <1>1, <1>3, <2>1, <2>2
<1>9. ASSUME NEW r \in Runs, Analyse(r) \/ ServerCommits(r) \/ ServerRollsBack(r)
      PROVE  circuit' = circuit /\ stage' = stage
  BY <1>9 DEF Analyse, ServerCommits, ServerRollsBack, workVars, sharedVars
<1>10. ASSUME Cool PROVE circuit'.trial = circuit.trial /\ stage' = stage
  BY <1>10 DEF Cool, CircuitType, workVars
<1>11. ASSUME ProcessRestart PROVE MarkOk
  BY <1>11 DEF ProcessRestart, MarkOk
<1>12. ASSUME UNCHANGED pipelineVars PROVE circuit' = circuit /\ stage' = stage
  BY <1>12 DEF pipelineVars, workVars, sharedVars
<1> QED
  BY <1>1, <1>3, <1>4, <1>5, <1>6, <1>7, <1>8, <1>9, <1>10, <1>11, <1>12
     DEF PipelineNext, WorkerStep, SubmitStep

-----------------------------------------------------------------------------
(* The theorems. *)

LEMMA PipelineInductive == PipelineSpec => []PipeInv
<1>1. PipelineInit => PipeInv
  <2> SUFFICES ASSUME PipelineInit PROVE PipeInv
    OBVIOUS
  <2>1. ReceiptsInv
    BY ReceiptsInductive DEF PipelineInit
  <2>2. WorkTypes
    BY DEF PipelineInit, WorkTypes, Stages, Receipts
  <2>3. ListTypes
    BY EmptySeq, PipelineAssumption DEF PipelineInit, ListTypes
  <2>4. CircuitType /\ TrialIsInFlight
    BY DEF PipelineInit, CircuitType, TrialIsInFlight, Closed
  <2>5. Progress /\ Truthful
    BY DEF PipelineInit, ReceiptsInit, Progress, Truthful, BeforeSettle, BeforeSend, NoRecord
  <2>6. Reading /\ UnknownIsAccounted
    BY DEF PipelineInit, Reading, UnknownIsAccounted
  <2>7. Queued
    BY EmptySeq DEF PipelineInit, Queued
  <2>8. ReconciledIsCommitted
    BY DEF PipelineInit, ReconciledIsCommitted, ToSet
  <2>9. PermitsExact
    <3>1. In(Admitted) = {}
      BY DEF PipelineInit, In, Admitted
    <3> QED
      BY <3>1, FS_EmptySet, PipelineAssumption DEF PipelineInit, PermitsExact, PermitsAddUp
  <2> QED
    BY <2>1, <2>2, <2>3, <2>4, <2>5, <2>6, <2>7, <2>8, <2>9 DEF PipeInv
<1>2. PipeInv /\ [PipelineNext]_pipelineVars => PipeInv'
  <2> SUFFICES ASSUME PipeInv, [PipelineNext]_pipelineVars PROVE PipeInv'
    OBVIOUS
  <2>1. ReceiptsInv'
    BY StepsAreReceiptSteps, ReceiptsInductive DEF PipeInv
  <2> QED
    BY <2>1, StepWorkTypes, StepLists, StepCircuit, StepProgress, StepTruthful, StepReading,
       StepQueued, StepReconciled, StepUnknown, StepTrial, StepPermits
       DEF PipeInv
<1> QED
  BY <1>1, <1>2, PTL DEF PipelineSpec

\* The state keeps its shape: the queue holds exactly the runs that wait in it,
\* the permits stay within their number and the list within its capacity.
THEOREM PipelineTyped == PipelineSpec => []PipelineTypeOK
<1>1. PipeInv => PipelineTypeOK
  <2> SUFFICES ASSUME PipeInv PROVE PipelineTypeOK
    OBVIOUS
  <2>1. ToSet(queue) = In({"queued"})
    BY LenProperties DEF PipeInv, Queued, WorkTypes, In, ToSet
  <2>2. permits \in 0 .. MaxJobs
    <3>1. MaxJobs \in Nat /\ Cardinality(In(Admitted)) \in Nat
      BY PipelineAssumption, FS_CardinalityType DEF PipeInv, PermitsExact
    <3> QED
      BY <3>1 DEF PipeInv, PermitsExact, PermitsAddUp
  <2> QED
    BY <2>1, <2>2 DEF PipeInv, PipelineTypeOK, WorkTypes, ListTypes, CircuitType, Queued,
       Stages, Receipts
<1> QED
  BY <1>1, PipelineInductive, PTL

\* The permits left and the jobs admitted always add up, for any number of jobs.
THEOREM PipelinePermits == PipelineSpec => []PermitsAddUp
<1>1. PipeInv => PermitsAddUp
  BY DEF PipeInv, PermitsExact
<1> QED
  BY <1>1, PipelineInductive, PTL

\* The circuit's trial is always some request's: it cannot stay half open.
THEOREM PipelineTrial == PipelineSpec => []TrialIsInFlight
<1>1. PipeInv => TrialIsInFlight
  BY DEF PipeInv
<1> QED
  BY <1>1, PipelineInductive, PTL

\* A receipt that says SAVED is of a run whose whole bundle is committed.
THEOREM PipelineSaved == PipelineSpec => []SavedIsWhole
<1>1. PipeInv => SavedIsWhole
  BY DEF PipeInv, Truthful, SavedIsWhole
<1> QED
  BY <1>1, PipelineInductive, PTL

\* NOT_SAVED is confirmed only of a run no complete bundle is or will be stored for.
THEOREM PipelineNotSaved == PipelineSpec => []NotSavedIsExact
<1>1. PipeInv => NotSavedIsExact
  BY DEF PipeInv, Truthful, NotSavedIsExact
<1> QED
  BY <1>1, PipelineInductive, PTL

\* A commit reconciled as SAVED did happen, whether or not its bundle is whole.
THEOREM PipelineReconciled == PipelineSpec => []ReconciledIsCommitted
<1>1. PipeInv => ReconciledIsCommitted
  BY DEF PipeInv
<1> QED
  BY <1>1, PipelineInductive, PTL

\* No unknown commit is lost while the process lives, whatever the capacity.
THEOREM PipelineAccounts == PipelineSpec => []UnknownIsAccounted
<1>1. PipeInv => UnknownIsAccounted
  BY DEF PipeInv
<1> QED
  BY <1>1, PipelineInductive, PTL

\* The pipeline implements the promise of the receipts: each of its steps is a
\* step of SaveReceipts, or one that leaves the receipts alone.
THEOREM PipelineImplements == PipelineSpec => ImplementsReceipts
<1>1. PipelineInit => ReceiptsInit
  BY DEF PipelineInit
<1>2. PipeInv /\ [PipelineNext]_pipelineVars => [ReceiptsNext]_receiptVars
  BY StepsAreReceiptSteps
<1> QED
  BY <1>1, <1>2, PipelineInductive, PTL DEF PipelineSpec, ReceiptsSpec, ImplementsReceipts

\* What holds of the receipts holds of the pipeline: whoever was told SAVED was
\* told of a run the database holds.
THEOREM PipelineToldSaved == PipelineSpec => []ToldSavedIsStored
  BY PipelineImplements, ReceiptsToldSaved, PTL DEF ImplementsReceipts

\* And a run the page still shows keeps its receipt, ...
THEOREM PipelineShown == ASSUME Margin PROVE PipelineSpec => []ShownKeepsReceipt
  BY PipelineImplements, ReceiptsShown, PTL DEF ImplementsReceipts

\* ... and an answer SAVED stands, through whatever the workers do.
THEOREM PipelineSavedStands == ASSUME Margin PROVE PipelineSpec => SavedIsNotTakenBack
  BY PipelineImplements, ReceiptsSavedStands, PTL DEF ImplementsReceipts

\* What a save takes it gives back, for any number of saves and workers.
THEOREM PipelineLeaksNothing == PipelineSpec => []NothingIsLeaked
<1>1. PermitsAddUp /\ TrialIsInFlight => NothingIsLeaked
  BY DEF NothingIsLeaked
<1> QED
  BY <1>1, PipelinePermits, PipelineTrial, PTL

\* The receipt of a save is true and a reconciliation tells SAVED only after a commit,
\* whatever replies are lost and whenever the server commits.
THEOREM PipelineTellsTruth == PipelineSpec => []ReceiptsAreTrue
<1>1. SavedIsWhole /\ NotSavedIsExact /\ ReconciledIsCommitted => ReceiptsAreTrue
  BY DEF ReceiptsAreTrue
<1> QED
  BY <1>1, PipelineSaved, PipelineNotSaved, PipelineReconciled, PTL

-----------------------------------------------------------------------------
(* The list holds nobody whose fate was told. *)

\* No run is listed twice; whoever is listed or being read about has ended, and nothing
\* is told of a run that has not.
ListInv ==
    /\ \A i, j \in 1 .. Len(unknown) : unknown[i].run = unknown[j].run => i = j
    /\ \A r \in Runs : stage[r] \notin {"done", "past"} => finals[r] = <<>>
    /\ \A r \in Listed : stage[r] = "done"
    /\ \A r \in Runs : \A i \in 1 .. Len(due[r]) : stage[due[r][i].run] = "done"
    /\ DecidedLeavesTheList

LEMMA EntryOf ==
    ASSUME NEW s \in Seq(UnknownCommit), NEW i \in 1 .. Len(s)
    PROVE  s[i] \in UnknownCommit /\ s[i].run \in Runs
<1>1. s[i] \in UnknownCommit
  BY ElementOfSeq
<1> QED
  BY <1>1 DEF UnknownCommit

\* Applying a decision adds nobody to the list and, when it is final, takes its run
\* off it.
LEMMA AppliedRuns ==
    ASSUME unknown \in Seq(UnknownCommit), NEW p \in UnknownCommit, NEW final \in BOOLEAN,
           \A i, j \in 1 .. Len(unknown) : unknown[i].run = unknown[j].run => i = j
    PROVE  LET after == Applied(p, final)
           IN  /\ \A i, j \in 1 .. Len(after) : after[i].run = after[j].run => i = j
               /\ \A i \in 1 .. Len(after) : /\ after[i].run \in Listed
                                             /\ final => after[i].run # p.run
<1> DEFINE k == Position(p.run)
           n == Len(unknown)
           after == Applied(p, final)
<1>0. n \in Nat
  BY LenProperties
<1>1. CASE p.run \notin Listed
  BY <1>1 DEF Applied, Listed
<1>2. ASSUME p.run \in Listed
      PROVE  k \in 1 .. n /\ unknown[k].run = p.run
  BY <1>2 DEF Listed, Position
<1>3. CASE p.run \in Listed /\ final
  <2>1. after = RemoveAt(unknown, k)
    BY <1>3 DEF Applied
  <2>2. /\ Len(after) = n - 1
        /\ \A i \in 1 .. n - 1 : after[i] = IF i < k THEN unknown[i] ELSE unknown[i + 1]
    BY <1>2, <1>3, <2>1, EntryRemoved
  <2> DEFINE from(i) == IF i < k THEN i ELSE i + 1
  <2>0. k \in 1 .. n /\ unknown[k].run = p.run
    BY <1>2, <1>3
  <2> HIDE DEF k, after
  <2>3. ASSUME NEW i \in 1 .. Len(after)
        PROVE  from(i) \in 1 .. n /\ from(i) # k /\ after[i] = unknown[from(i)]
    BY <1>0, <2>0, <2>2
  <2>4. ASSUME NEW i \in 1 .. Len(after), NEW j \in 1 .. Len(after), from(i) = from(j)
        PROVE  i = j
    BY <1>0, <2>0, <2>2, <2>4
  <2> HIDE DEF from
  <2>5. ASSUME NEW i \in 1 .. Len(after)
        PROVE  after[i].run \in Listed /\ after[i].run # p.run
    BY <2>0, <2>3 DEF Listed
  <2>6. ASSUME NEW i \in 1 .. Len(after), NEW j \in 1 .. Len(after), after[i].run = after[j].run
        PROVE  i = j
    BY <2>3, <2>4, <2>6
  <2> QED
    BY <2>5, <2>6 DEF after
<1>4. CASE p.run \in Listed /\ ~final
  <2> DEFINE e == [unknown[k] EXCEPT !.attempts = @ + 1]
  <2>1. after = [unknown EXCEPT ![k] = e]
    BY <1>4 DEF Applied
  <2>2. e \in UnknownCommit /\ e.run = unknown[k].run
    <3>1. unknown[k] \in UnknownCommit
      BY <1>2, <1>4, EntryOf
    <3> QED
      BY <3>1 DEF UnknownCommit
  <2> HIDE DEF e, k
  <2>3. Len(after) = n /\ \A i \in 1 .. n : after[i].run = unknown[i].run
    BY <1>2, <1>4, <2>1, <2>2, ExceptSeq
  <2> HIDE DEF after
  <2>4. \A i \in 1 .. n : after[i].run \in Listed
    BY <2>3 DEF Listed
  <2> QED
    BY <1>4, <2>3, <2>4 DEF after
<1> QED
  BY <1>1, <1>3, <1>4

\* Who has ended has ended, until the process does.
LEMMA EndedStays ==
    ASSUME PipeInv, [PipelineNext]_pipelineVars, NEW x \in Runs
    PROVE  /\ stage[x] \in {"done", "past"} => stage'[x] \in {"done", "past"}
           /\ stage[x] = "done" /\ ~ProcessRestart => stage'[x] = "done"
<1>0. stage \in [Runs -> Stages]
  BY DEF PipeInv, WorkTypes
<1>1. ASSUME NEW r \in Runs, NEW next, stage[r] \notin {"done", "past"}, Goto(r, next)
      PROVE  stage[x] \in {"done", "past"} => stage'[x] = stage[x]
  BY <1>0, <1>1 DEF Goto
<1>2. ASSUME NEW r \in Runs, Submit(r) \/ StartSave(r)
      PROVE  stage[r] \notin {"done", "past"} /\ \E next : Goto(r, next)
  <2>1. CASE Submit(r)
    BY <2>1 DEF Submit
  <2>2. CASE StartSave(r)
    <3>1. queue \in Seq(Runs) /\ queue # <<>> /\ r = Head(queue) /\ Goto(r, "aux")
      BY <2>2 DEF StartSave, PipeInv, Queued
    <3>2. 1 \in 1 .. Len(queue) /\ r = queue[1]
      BY <3>1, EmptySeq, LenProperties
    <3> QED
      BY <3>1, <3>2 DEF PipeInv, Queued
  <2> QED
    BY <1>2, <2>1, <2>2
<1>3. ASSUME NEW r \in Runs, stage[r] \in Running PROVE stage[r] \notin {"done", "past"}
  BY <1>3 DEF Running, Admitted
<1>4. CASE ProcessRestart
  BY <1>4 DEF ProcessRestart
<1> QED
  BY <1>1, <1>2, <1>3, <1>4, StageMoves DEF Finish

\* The run of the oldest entry of a worker's copy has ended.
LEMMA DueEnded ==
    ASSUME PipeInv, ListInv, NEW r \in Runs, due[r] # <<>>
    PROVE  Head(due[r]).run \in Runs /\ stage[Head(due[r]).run] = "done"
<1>1. due[r] \in Seq(UnknownCommit)
  BY DEF PipeInv, ListTypes
<1>2. Head(due[r]) = due[r][1] /\ Head(due[r]).run \in Runs
  BY <1>1, OldestEntry
<1>3. 1 \in 1 .. Len(due[r])
  BY <1>1, EmptySeq, LenProperties
<1> QED
  BY <1>2, <1>3 DEF ListInv

LEMMA AddUnknownInv ==
    ASSUME PipeInv, ListInv, [PipelineNext]_pipelineVars, NEW r \in Runs, AddUnknown(r)
    PROVE  ListInv'
<1> DEFINE e == [run |-> r, attempts |-> 0]
           all == Append(unknown, e)
           n == Len(unknown)
<1>1. /\ unknown \in Seq(UnknownCommit) /\ n \in Nat
      /\ finals \in [Runs -> Seq(Reasons)] /\ due \in [Runs -> Seq(UnknownCommit)]
      /\ stage \in [Runs -> Stages]
  BY LenProperties DEF PipeInv, ListTypes, WorkTypes
<1>2. e \in UnknownCommit /\ e.run = r
  BY DEF UnknownCommit
<1>3. /\ all \in Seq(UnknownCommit) /\ Len(all) = n + 1 /\ all[n + 1] = e
      /\ \A i \in 1 .. n : all[i] = unknown[i]
  BY <1>1, <1>2, AppendProperties
<1>4. /\ stage[r] = "reconcile" /\ stage' = [stage EXCEPT ![r] = "done"] /\ due' = due
      /\ IF Len(all) > UnknownCapacity
         THEN unknown' = Tail(all) /\ finals' = [finals EXCEPT ![Head(all).run] = Append(@, "EXPIRED")]
         ELSE unknown' = all /\ finals' = finals
  BY DEF AddUnknown, Finish, Goto
<1> HIDE DEF e, all
<1>5. finals[r] = <<>> /\ r \notin Listed
  BY <1>4 DEF ListInv
<1>6. \A i \in 1 .. n : unknown[i].run \in Listed /\ unknown[i].run \in Runs
  <2> SUFFICES ASSUME NEW i \in 1 .. n PROVE unknown[i].run \in Listed /\ unknown[i].run \in Runs
    OBVIOUS
  <2> QED
    BY <1>1, EntryOf DEF Listed
<1>7. \A i, j \in 1 .. n + 1 : all[i].run = all[j].run => i = j
  <2> SUFFICES ASSUME NEW i \in 1 .. n + 1, NEW j \in 1 .. n + 1, all[i].run = all[j].run
               PROVE  i = j
    OBVIOUS
  <2>1. CASE i \in 1 .. n /\ j \in 1 .. n
    BY <1>3, <2>1 DEF ListInv
  <2>2. CASE i = n + 1 /\ j \in 1 .. n
    BY <1>2, <1>3, <1>5, <1>6, <2>2
  <2>3. CASE i \in 1 .. n /\ j = n + 1
    BY <1>2, <1>3, <1>5, <1>6, <2>3
  <2> QED
    BY <1>1, <2>1, <2>2, <2>3
<1>8. \A i \in 1 .. n + 1 : all[i].run \in Runs /\ stage'[all[i].run] = "done"
  <2> SUFFICES ASSUME NEW i \in 1 .. n + 1 PROVE all[i].run \in Runs /\ stage'[all[i].run] = "done"
    OBVIOUS
  <2>1. CASE i \in 1 .. n
    BY <1>1, <1>3, <1>4, <1>6, <2>1 DEF ListInv
  <2>2. CASE i = n + 1
    BY <1>1, <1>2, <1>3, <1>4, <2>2
  <2> QED
    BY <1>1, <2>1, <2>2
<1>9. \A i \in 1 .. n + 1 : finals[all[i].run] = <<>>
  <2> SUFFICES ASSUME NEW i \in 1 .. n + 1 PROVE finals[all[i].run] = <<>>
    OBVIOUS
  <2>1. CASE i \in 1 .. n
    BY <1>3, <1>6, <2>1 DEF ListInv, DecidedLeavesTheList
  <2>2. CASE i = n + 1
    BY <1>2, <1>3, <1>5, <2>2
  <2> QED
    BY <1>1, <2>1, <2>2
<1>10. \A x \in Runs : \A i \in 1 .. Len(due[x]) : stage'[due[x][i].run] = "done"
  <2> SUFFICES ASSUME NEW x \in Runs, NEW i \in 1 .. Len(due[x])
               PROVE  stage'[due[x][i].run] = "done"
    OBVIOUS
  <2>1. stage[due[x][i].run] = "done" /\ due[x][i].run \in Runs
    <3>1. due[x] \in Seq(UnknownCommit)
      BY <1>1
    <3> QED
      BY <3>1, EntryOf DEF ListInv
  <2> QED
    BY <1>1, <1>4, <2>1
<1>11. CASE Len(all) > UnknownCapacity
  <2> DEFINE h == Head(all).run
  <2>1. n >= 1 /\ all # <<>> /\ Head(all) = all[1]
    BY <1>1, <1>3, <1>11, EmptySeq, OldestEntry, PipelineAssumption
  <2>2. Len(unknown') = n /\ \A i \in 1 .. n : unknown'[i] = all[i + 1]
    <3>1. Len(Tail(all)) = Len(all) - 1 /\ \A i \in 1 .. Len(Tail(all)) : Tail(all)[i] = all[i + 1]
      BY <1>3, <2>1, HeadTailProperties
    <3>2. unknown' = Tail(all) /\ Len(Tail(all)) = n
      BY <1>1, <1>3, <1>4, <1>11, <3>1
    <3> QED
      BY <3>1, <3>2
  <2>3. h = unknown[1].run /\ h \in Runs /\ stage[h] = "done"
    BY <1>1, <1>3, <1>6, <2>1 DEF ListInv
  <2>4. \A x \in Runs : x # h => finals'[x] = finals[x]
    BY <1>1, <1>4, <1>11
  <2>5. ASSUME NEW i \in 1 .. n
        PROVE  /\ unknown'[i].run \in Runs /\ stage'[unknown'[i].run] = "done"
               /\ unknown'[i].run # h /\ finals'[unknown'[i].run] = <<>>
    <3>1. i + 1 \in 1 .. n + 1 /\ i + 1 # 1 /\ 1 \in 1 .. n + 1
      BY <1>1
    <3>2. all[i + 1].run # h
      BY <1>7, <2>1, <3>1
    <3> HIDE DEF h
    <3> QED
      BY <1>8, <1>9, <2>2, <2>4, <3>1, <3>2
  <2>6. ASSUME NEW i \in 1 .. n, NEW j \in 1 .. n, unknown'[i].run = unknown'[j].run
        PROVE  i = j
    <3>1. i \in Nat /\ j \in Nat /\ i + 1 \in 1 .. n + 1 /\ j + 1 \in 1 .. n + 1
      BY <1>1
    <3>2. all[i + 1].run = all[j + 1].run
      BY <2>2, <2>6
    <3>3. i + 1 = j + 1
      BY <1>7, <3>1, <3>2
    <3> QED
      BY <3>1, <3>3
  <2>7. \A x \in Runs : stage'[x] \notin {"done", "past"} => finals'[x] = <<>>
    <3> HIDE DEF h
    <3> QED
      BY <1>1, <1>4, <2>3, <2>4 DEF ListInv
  <2>8. \A x \in Listed' : stage'[x] = "done" /\ finals'[x] = <<>>
    BY <2>2, <2>5 DEF Listed
  <2> QED
    BY <1>4, <1>10, <2>2, <2>6, <2>7, <2>8 DEF ListInv, DecidedLeavesTheList
<1>12. CASE ~(Len(all) > UnknownCapacity)
  <2>1. unknown' = all /\ finals' = finals
    BY <1>4, <1>12
  <2>2. \A x \in Listed' : stage'[x] = "done" /\ finals'[x] = <<>>
    BY <1>3, <1>8, <1>9, <2>1 DEF Listed
  <2>3. \A x \in Runs : stage'[x] \notin {"done", "past"} => finals'[x] = <<>>
    BY <1>1, <1>4, <2>1 DEF ListInv
  <2>4. \A i, j \in 1 .. Len(unknown') : unknown'[i].run = unknown'[j].run => i = j
    BY <1>3, <1>7, <2>1
  <2> QED
    BY <1>4, <1>10, <2>2, <2>3, <2>4 DEF ListInv, DecidedLeavesTheList
<1> QED
  BY <1>11, <1>12

LEMMA DecideInv ==
    ASSUME PipeInv, ListInv, NEW r \in Runs, NEW old \in BOOLEAN, Decide(r, old)
    PROVE  ListInv'
<1> DEFINE p == Head(due[r])
           final == Final(p, answer[r], old)
<1>1. /\ stage[r] = "decide" /\ stage' = [stage EXCEPT ![r] = "round"]
      /\ unknown' = Applied(p, final)
      /\ finals' = IF final THEN [finals EXCEPT ![p.run] = Append(@, Reason(answer[r]))]
                            ELSE finals
      /\ due' = [due EXCEPT ![r] = IF answer[r] = "unreadable" THEN <<>> ELSE Tail(@)]
  BY DEF Decide, Answered, Goto
<1>2. /\ unknown \in Seq(UnknownCommit) /\ due \in [Runs -> Seq(UnknownCommit)]
      /\ finals \in [Runs -> Seq(Reasons)] /\ stage \in [Runs -> Stages]
      /\ due[r] # <<>>
  BY <1>1 DEF PipeInv, ListTypes, WorkTypes, Reading
<1>3. p \in UnknownCommit /\ p.run \in Runs /\ stage[p.run] = "done" /\ final \in BOOLEAN
  BY <1>2, OldestEntry, DueEnded DEF Final
<1> HIDE DEF p, final
<1>4. /\ \A i, j \in 1 .. Len(unknown') : unknown'[i].run = unknown'[j].run => i = j
      /\ \A i \in 1 .. Len(unknown') : unknown'[i].run \in Listed
                                       /\ (final => unknown'[i].run # p.run)
  BY <1>1, <1>2, <1>3, AppliedRuns DEF ListInv
<1>5. \A x \in Listed' : x \in Listed /\ (final => x # p.run)
  BY <1>4 DEF Listed
<1>6. Listed \subseteq Runs
  <2> SUFFICES ASSUME NEW i \in 1 .. Len(unknown) PROVE unknown[i].run \in Runs
    BY DEF Listed
  <2> QED
    BY <1>2, EntryOf
<1>7. \A x \in Runs : stage'[x] = IF x = r THEN "round" ELSE stage[x]
  BY <1>1, <1>2
<1>8. \A x \in Runs : ~final \/ x # p.run => finals'[x] = finals[x]
  BY <1>1, <1>2, <1>3
<1>9. \A x \in Listed' : stage'[x] = "done" /\ finals'[x] = <<>>
  BY <1>1, <1>5, <1>6, <1>7, <1>8 DEF ListInv, DecidedLeavesTheList
<1>10. \A x \in Runs : stage'[x] \notin {"done", "past"} => finals'[x] = <<>>
  BY <1>1, <1>3, <1>7, <1>8 DEF ListInv
<1>11. ASSUME NEW x \in Runs, NEW i \in 1 .. Len(due'[x]) PROVE stage'[due'[x][i].run] = "done"
  <2>1. ASSUME NEW y \in Runs, NEW j \in 1 .. Len(due[y]) PROVE stage'[due[y][j].run] = "done"
    <3>1. due[y][j].run \in Runs /\ stage[due[y][j].run] = "done"
      <4>1. due[y] \in Seq(UnknownCommit)
        BY <1>2
      <4> QED
        BY <4>1, EntryOf DEF ListInv
    <3> QED
      BY <1>1, <1>7, <3>1
  <2>2. CASE x # r
    BY <1>1, <1>2, <2>1, <2>2
  <2>3. CASE x = r /\ answer[r] = "unreadable"
    <3>1. due'[x] = <<>>
      BY <1>1, <1>2, <2>3
    <3> QED
      BY <3>1, EmptySeq
  <2>4. CASE x = r /\ answer[r] # "unreadable"
    <3>1. due'[x] = Tail(due[r])
      BY <1>1, <1>2, <2>4
    <3>2. Len(due[r]) \in Nat /\ Len(due'[x]) = Len(due[r]) - 1
          /\ \A j \in 1 .. Len(due[r]) - 1 : due'[x][j] = due[r][j + 1]
      BY <1>2, <3>1, HeadTailProperties, LenProperties
    <3>3. i + 1 \in 1 .. Len(due[r]) /\ due'[x][i] = due[r][i + 1]
      BY <3>2
    <3> QED
      BY <2>1, <3>3
  <2> QED
    BY <2>2, <2>3, <2>4
<1> QED
  BY <1>4, <1>9, <1>10, <1>11 DEF ListInv, DecidedLeavesTheList

LEMMA StepListInv ==
    ASSUME PipeInv, ListInv, [PipelineNext]_pipelineVars
    PROVE  ListInv'
<1>1. Listed \subseteq Runs /\ due \in [Runs -> Seq(UnknownCommit)]
      /\ unknown \in Seq(UnknownCommit)
  <2>1. unknown \in Seq(UnknownCommit) /\ due \in [Runs -> Seq(UnknownCommit)]
    BY DEF PipeInv, ListTypes
  <2>2. ASSUME NEW i \in 1 .. Len(unknown) PROVE unknown[i].run \in Runs
    BY <2>1, EntryOf
  <2> QED
    BY <2>1, <2>2 DEF Listed
<1>2. \A x \in Runs : \A i \in 1 .. Len(due[x]) : due[x][i].run \in Runs
  <2>1. \A x \in Runs : due[x] \in Seq(UnknownCommit)
    BY <1>1
  <2> QED
    BY <2>1, EntryOf
<1>3. CASE UNCHANGED <<unknown, due, finals>> /\ ~ProcessRestart
  <2>1. Listed' = Listed
    BY <1>3 DEF Listed
  <2>2. \A x \in Runs : stage'[x] \notin {"done", "past"} => finals'[x] = <<>>
    BY <1>3, EndedStays DEF ListInv
  <2>3. \A x \in Listed' : stage'[x] = "done"
    BY <1>1, <1>3, <2>1, EndedStays DEF ListInv
  <2>4. \A x \in Runs : \A i \in 1 .. Len(due'[x]) : stage'[due'[x][i].run] = "done"
    BY <1>2, <1>3, EndedStays DEF ListInv
  <2> QED
    BY <1>3, <2>1, <2>2, <2>3, <2>4 DEF ListInv, DecidedLeavesTheList
<1>4. ASSUME NEW r \in Runs, TakeDue(r), ~ProcessRestart PROVE ListInv'
  <2>1. UNCHANGED <<unknown, finals>> /\ due' = [due EXCEPT ![r] = unknown]
    BY <1>4 DEF TakeDue, sharedVars
  <2>2. Listed' = Listed
    BY <2>1 DEF Listed
  <2>3. \A x \in Runs : stage'[x] \notin {"done", "past"} => finals'[x] = <<>>
    BY <2>1, EndedStays DEF ListInv
  <2>4. \A x \in Listed : stage'[x] = "done"
    BY <1>1, <1>4, EndedStays DEF ListInv
  <2>5. ASSUME NEW x \in Runs, NEW i \in 1 .. Len(due'[x]) PROVE stage'[due'[x][i].run] = "done"
    <3>1. CASE x = r
      BY <1>1, <2>1, <2>4, <3>1 DEF Listed
    <3>2. CASE x # r
      BY <1>1, <1>2, <1>4, <2>1, <3>2, EndedStays DEF ListInv
    <3> QED
      BY <3>1, <3>2
  <2> QED
    BY <2>1, <2>2, <2>3, <2>4, <2>5 DEF ListInv, DecidedLeavesTheList
<1>5. CASE ProcessRestart
  <2>1. /\ unknown' = <<>> /\ due' = [r \in Runs |-> <<>>] /\ finals' = finals
        /\ stage' = [r \in Runs |-> IF stage[r] = "none" THEN "none" ELSE "past"]
    BY <1>5 DEF ProcessRestart
  <2>2. Len(unknown') = 0 /\ \A x \in Runs : Len(due'[x]) = 0
    BY <2>1, EmptySeq
  <2>3. \A x \in Runs : stage'[x] \notin {"done", "past"} => finals'[x] = <<>>
    BY <2>1 DEF ListInv
  <2> QED
    BY <2>2, <2>3 DEF ListInv, DecidedLeavesTheList, Listed
<1> QED
  BY <1>3, <1>4, <1>5, AddUnknownInv, DecideInv, ListSteps

\* The list of unknown commits holds the undecided commits and no other, for every
\* capacity and any number of workers in their rounds.
THEOREM PipelineListIsExact == PipelineSpec => []ListIsExact
<1>1. PipelineInit => ListInv
  BY EmptySeq DEF PipelineInit, ListInv, DecidedLeavesTheList, Listed
<1>2. PipeInv /\ PipeInv' /\ ListInv /\ [PipelineNext]_pipelineVars => ListInv'
  BY StepListInv
<1>3. ListInv /\ UnknownIsAccounted => ListIsExact
  BY DEF ListInv, ListIsExact
<1> QED
  BY <1>1, <1>2, <1>3, PipelineInductive, PipelineAccounts, PTL DEF PipelineSpec

-----------------------------------------------------------------------------
(***************************************************************************)
(* The number of steps a save still has before it, at the most: three for  *)
(* each unknown commit of its round, and those of its stage.  Before its   *)
(* round a save may find as many as the list has room for.                 *)
(***************************************************************************)
StageLeft(s) ==
    CASE s = "none" -> 12
      [] s = "scheduled" -> 11
      [] s = "queued" -> 10
      [] s = "aux" -> 9
      [] s = "auxwait" -> 8
      [] s = "bundle" -> 7
      [] s = "send" -> 6
      [] s = "sent" -> 5
      [] s = "settle" -> 4
      [] s = "reconcile" -> 3
      [] s = "round" -> 2
      [] s = "reading" -> 1
      [] s = "decide" -> 0

InRound == {"round", "reading", "decide"}

Left(s, n) ==
    IF s \in {"done", "past"} THEN 0
    ELSE IF s \in InRound THEN 3 * n + StageLeft(s)
    ELSE 3 * UnknownCapacity + StageLeft(s)

StepsLeft(r) == Left(stage[r], Len(due[r]))

SaveStep(r) == SubmitStep(r) \/ WorkerStep(r)

CountsDown(r) ==
    /\ StepsLeft(r) \in Nat /\ StepsLeft(r)' \in Nat /\ StepsLeft(r)' <= StepsLeft(r)
    /\ SaveStep(r) => StepsLeft(r)' < StepsLeft(r)

LEMMA LeftType ==
    ASSUME NEW s \in Stages, NEW n \in Nat
    PROVE  Left(s, n) \in Nat
<1>1. s \notin {"done", "past"} => StageLeft(s) \in Nat
  BY DEF Stages, Admitted, StageLeft
<1> QED
  BY <1>1, PipelineAssumption DEF Left

\* Along the stages before its round a save only goes forward, or is done.
LEMMA Forward ==
    ASSUME PipeInv, NEW r \in Runs, SaveStep(r), stage[r] \notin InRound
    PROVE  \/ /\ stage'[r] \notin InRound \cup {"done", "past"}
              /\ stage[r] \notin {"done", "past"}
              /\ StageLeft(stage'[r]) < StageLeft(stage[r])
           \/ stage'[r] = "round" /\ stage[r] = "reconcile" /\ due'[r] = unknown
           \/ stage'[r] = "done" /\ stage[r] \in {"scheduled", "settle", "reconcile"}
<1>1. stage \in [Runs -> Stages] /\ due \in [Runs -> Seq(UnknownCommit)]
  BY DEF PipeInv, WorkTypes, ListTypes
<1> USE DEF StageLeft, InRound
<1>2. CASE Submit(r) \/ SubmitRefused(r)
  BY <1>1, <1>2 DEF Submit, SubmitRefused, Goto
<1>3. CASE StartSave(r)
  <2>1. stage[r] = "queued"
    <3>1. 1 \in 1 .. Len(queue) /\ queue[1] = r
      BY <1>3, LenProperties, EmptySeq, HeadTailProperties DEF StartSave, PipeInv, Queued
    <3> QED
      BY <3>1 DEF PipeInv, Queued
  <2> QED
    BY <1>1, <1>3, <2>1 DEF StartSave, Goto
<1>4. CASE SaveAux(r) \/ SaveRaises(r) \/ \E ok \in BOOLEAN : AuxReply(r, ok)
  BY <1>1, <1>4 DEF SaveAux, SaveRaises, AuxReply, Receipt, Goto
<1>5. CASE CheckCircuit(r) \/ SendBundle(r) \/ BundleConfirmed(r) \/ BundleUnconfirmed(r)
  BY <1>1, <1>5 DEF CheckCircuit, SendBundle, BundleConfirmed, BundleUnconfirmed, Receipt, Goto
<1>6. CASE SettleReceipt(r) \/ AddUnknown(r)
  BY <1>1, <1>6 DEF SettleReceipt, AddUnknown, Finish, Goto
<1>7. CASE TakeDue(r)
  BY <1>1, <1>7 DEF TakeDue, Goto
<1>8. ~(RoundEnds(r) \/ ReadCore(r) \/ \E ok \in BOOLEAN : ReadReply(r, ok) \/ Decide(r, ok))
  BY DEF RoundEnds, ReadCore, ReadReply, Decide
<1> QED
  BY <1>2, <1>3, <1>4, <1>5, <1>6, <1>7, <1>8 DEF SaveStep, SubmitStep, WorkerStep

\* Inside its round a save reads, decides and goes on with the next, until it is done.
LEMMA InsideRound ==
    ASSUME PipeInv, NEW r \in Runs, SaveStep(r), stage[r] \in InRound
    PROVE  \/ stage[r] = "round" /\ stage'[r] = "done"
           \/ /\ stage[r] = "round" /\ stage'[r] \in {"reading", "decide"}
              /\ due'[r] = due[r]
           \/ /\ stage[r] = "reading" /\ stage'[r] = "decide"
              /\ due'[r] = due[r]
           \/ /\ stage[r] = "decide" /\ stage'[r] = "round"
              /\ Len(due[r]) > 0 /\ Len(due'[r]) \in Nat /\ Len(due'[r]) < Len(due[r])
<1>1. /\ stage \in [Runs -> Stages] /\ due \in [Runs -> Seq(UnknownCommit)]
      /\ Len(due[r]) \in Nat
  BY LenProperties DEF PipeInv, WorkTypes, ListTypes
<1>2. CASE RoundEnds(r)
  BY <1>1, <1>2 DEF RoundEnds, Finish, Goto
<1>3. CASE ReadCore(r)
  BY <1>1, <1>3 DEF ReadCore, Answered, Goto
<1>4. ASSUME NEW ok \in BOOLEAN, ReadReply(r, ok)
      PROVE  stage[r] = "reading" /\ stage'[r] = "decide" /\ due'[r] = due[r]
  BY <1>1, <1>4 DEF ReadReply, Answered, Goto
<1>5. ASSUME NEW ok \in BOOLEAN, Decide(r, ok)
      PROVE  /\ stage[r] = "decide" /\ stage'[r] = "round"
             /\ Len(due[r]) > 0 /\ Len(due'[r]) \in Nat /\ Len(due'[r]) < Len(due[r])
  <2>1. /\ stage[r] = "decide" /\ stage'[r] = "round"
        /\ due'[r] = IF answer[r] = "unreadable" THEN <<>> ELSE Tail(due[r])
    BY <1>1, <1>5 DEF Decide, Answered, Goto
  <2>2. due[r] # <<>>
    BY <2>1 DEF PipeInv, Reading
  <2>3. Len(due[r]) > 0 /\ Len(Tail(due[r])) = Len(due[r]) - 1 /\ Len(<<>>) = 0
    BY <1>1, <2>2, EmptySeq, HeadTailProperties
  <2> QED
    BY <1>1, <2>1, <2>3
<1>6. ~(SubmitStep(r) \/ SaveAux(r) \/ SaveRaises(r) \/ (\E ok \in BOOLEAN : AuxReply(r, ok))
        \/ CheckCircuit(r) \/ SendBundle(r) \/ BundleConfirmed(r) \/ BundleUnconfirmed(r)
        \/ SettleReceipt(r) \/ AddUnknown(r) \/ TakeDue(r))
  BY DEF InRound, SubmitStep, Submit, SubmitRefused, SaveAux, SaveRaises, AuxReply, CheckCircuit,
      SendBundle, BundleConfirmed, BundleUnconfirmed, SettleReceipt, AddUnknown, TakeDue
<1>7. ~StartSave(r)
  <2> SUFFICES ASSUME StartSave(r) PROVE FALSE
    OBVIOUS
  <2>1. 1 \in 1 .. Len(queue) /\ queue[1] = r
    BY LenProperties, EmptySeq, HeadTailProperties DEF StartSave, PipeInv, Queued
  <2> QED
    BY <2>1 DEF PipeInv, Queued, InRound
<1> QED
  BY <1>2, <1>3, <1>4, <1>5, <1>6, <1>7 DEF SaveStep, WorkerStep

\* A step of its own brings a save nearer to its end.
LEMMA OwnStep ==
    ASSUME PipeInv, NEW r \in Runs, SaveStep(r)
    PROVE  Left(stage'[r], Len(due'[r])) < Left(stage[r], Len(due[r]))
<1> DEFINE n == Len(due[r])
           m == Len(due'[r])
<1>1. /\ stage[r] \in Stages /\ due[r] \in Seq(UnknownCommit) /\ n \in Nat
      /\ unknown \in Seq(UnknownCommit)
      /\ Len(unknown) \in Nat /\ Len(unknown) <= UnknownCapacity
      /\ UnknownCapacity \in Nat
  BY LenProperties, PipelineAssumption DEF PipeInv, WorkTypes, ListTypes
<1>2. CASE stage[r] \in InRound
  <2>1. \/ stage[r] = "round" /\ stage'[r] = "done"
        \/ stage[r] = "round" /\ stage'[r] \in {"reading", "decide"} /\ m = n
        \/ stage[r] = "reading" /\ stage'[r] = "decide" /\ m = n
        \/ stage[r] = "decide" /\ stage'[r] = "round" /\ m \in Nat /\ m < n
    BY <1>2, InsideRound
  <2> HIDE DEF n, m
  <2>2. StageLeft("round") = 2 /\ StageLeft("reading") = 1 /\ StageLeft("decide") = 0
    BY DEF StageLeft
  <2>3. \A k \in Nat :
           /\ Left("round", k) = 3 * k + 2 /\ Left("reading", k) = 3 * k + 1
           /\ Left("decide", k) = 3 * k /\ Left("done", k) = 0
    BY <2>2 DEF Left, InRound
  <2>4. CASE stage[r] = "decide" /\ stage'[r] = "round" /\ m \in Nat /\ m < n
    <3>1. Left(stage[r], n) = 3 * n /\ Left(stage'[r], m) = 3 * m + 2
      BY <1>1, <2>3, <2>4
    <3> QED
      BY <1>1, <2>4, <3>1 DEF n, m
  <2>5. CASE stage[r] = "round" /\ stage'[r] = "done"
    <3>1. Left(stage[r], n) = 3 * n + 2 /\ Left(stage'[r], m) = 0
      BY <1>1, <2>2, <2>3, <2>5 DEF Left
    <3> QED
      BY <1>1, <3>1 DEF n, m
  <2>6. CASE stage[r] = "round" /\ stage'[r] \in {"reading", "decide"} /\ m = n
    <3>1. Left(stage[r], n) = 3 * n + 2 /\ Left(stage'[r], m) \in {3 * n, 3 * n + 1}
      BY <1>1, <2>3, <2>6
    <3> QED
      BY <1>1, <3>1 DEF n, m
  <2>7. CASE stage[r] = "reading" /\ stage'[r] = "decide" /\ m = n
    <3>1. Left(stage[r], n) = 3 * n + 1 /\ Left(stage'[r], m) = 3 * n
      BY <1>1, <2>3, <2>7
    <3> QED
      BY <1>1, <3>1 DEF n, m
  <2> QED
    BY <2>1, <2>4, <2>5, <2>6, <2>7
<1>3. CASE stage[r] \notin InRound
  <2> DEFINE cap == 3 * UnknownCapacity
  <2>1. cap \in Nat /\ UnknownCapacity \in Nat
    BY <1>1
  <2>2. CASE /\ stage'[r] \notin InRound \cup {"done", "past"}
             /\ stage[r] \notin {"done", "past"}
             /\ StageLeft(stage'[r]) < StageLeft(stage[r])
    <3>1. /\ Left(stage[r], n) = cap + StageLeft(stage[r])
          /\ Left(stage'[r], m) = cap + StageLeft(stage'[r])
      BY <1>3, <2>2 DEF Left
    <3>2. stage'[r] \in Stages
      BY StepWorkTypes DEF SaveStep, PipelineNext, WorkTypes
    <3>3. \A s \in Stages \ {"done", "past"} : StageLeft(s) \in Nat
      BY DEF StageLeft, Stages, Admitted
    <3>4. StageLeft(stage[r]) \in Nat /\ StageLeft(stage'[r]) \in Nat
      BY <1>1, <2>2, <3>2, <3>3
    <3> HIDE DEF cap
    <3> QED
      BY <2>1, <2>2, <3>1, <3>4
  <2>3. CASE stage'[r] = "round" /\ stage[r] = "reconcile" /\ due'[r] = unknown
    <3>1. Left(stage[r], n) = cap + 3 /\ Left(stage'[r], m) = 3 * Len(unknown) + 2
      BY <2>3 DEF Left, InRound, StageLeft
    <3> QED
      BY <1>1, <3>1
  <2>4. CASE stage'[r] = "done" /\ stage[r] \in {"scheduled", "settle", "reconcile"}
    <3>1. Left(stage[r], n) \in {cap + 11, cap + 4, cap + 3} /\ Left(stage'[r], m) = 0
      BY <2>4 DEF Left, InRound, StageLeft
    <3> HIDE DEF cap
    <3> QED
      BY <2>1, <3>1
  <2> QED
    BY <1>3, <2>2, <2>3, <2>4, Forward
<1> QED
  BY <1>2, <1>3

\* Every other step leaves a save where it is, schedules it, or ends the process.
LEMMA OthersStep ==
    ASSUME PipeInv, NEW r \in Runs, [PipelineNext]_pipelineVars, ~SaveStep(r)
    PROVE  \/ stage'[r] = stage[r] /\ due'[r] = due[r]
           \/ stage[r] = "none" /\ stage'[r] \in {"none", "scheduled"}
           \/ stage'[r] = "past"
<1>1. stage \in [Runs -> Stages] /\ due \in [Runs -> Seq(UnknownCommit)]
  BY DEF PipeInv, WorkTypes, ListTypes
<1> DEFINE Goal == \/ stage'[r] = stage[r] /\ due'[r] = due[r]
                   \/ stage[r] = "none" /\ stage'[r] \in {"none", "scheduled"}
                   \/ stage'[r] = "past"
<1>2. ASSUME NEW x \in Runs \ {r}, SaveStep(x) PROVE stage'[r] = stage[r] /\ due'[r] = due[r]
  <2>1. \A s : stage' = [stage EXCEPT ![x] = s] => stage'[r] = stage[r]
    BY <1>1
  <2> USE DEF Goto
  <2>2. CASE Submit(x) \/ SubmitRefused(x) \/ StartSave(x)
    BY <1>1, <2>1, <2>2 DEF Submit, SubmitRefused, StartSave
  <2>3. CASE SaveAux(x) \/ SaveRaises(x) \/ \E ok \in BOOLEAN : AuxReply(x, ok)
    BY <1>1, <2>1, <2>3 DEF SaveAux, SaveRaises, AuxReply, Receipt
  <2>4. CASE CheckCircuit(x) \/ SendBundle(x) \/ BundleConfirmed(x) \/ BundleUnconfirmed(x)
    BY <1>1, <2>1, <2>4 DEF CheckCircuit, SendBundle, BundleConfirmed, BundleUnconfirmed, Receipt
  <2>5. CASE SettleReceipt(x) \/ AddUnknown(x) \/ RoundEnds(x)
    BY <1>1, <2>1, <2>5 DEF SettleReceipt, AddUnknown, RoundEnds, Finish
  <2>6. CASE TakeDue(x) \/ ReadCore(x)
    BY <1>1, <2>1, <2>6 DEF TakeDue, ReadCore, Answered
  <2>7. ASSUME NEW ok \in BOOLEAN, ReadReply(x, ok) \/ Decide(x, ok)
        PROVE  stage'[r] = stage[r] /\ due'[r] = due[r]
    BY <1>1, <2>1, <2>7 DEF ReadReply, Decide, Answered
  <2> QED
    BY <1>2, <2>2, <2>3, <2>4, <2>5, <2>6, <2>7 DEF SaveStep, SubmitStep, WorkerStep
<1>3. ASSUME NEW x \in Runs, Schedule(x) PROVE Goal
  BY <1>1, <1>3 DEF Schedule, Goto
<1>4. ASSUME NEW x \in Runs, Analyse(x) \/ ServerCommits(x) \/ ServerRollsBack(x) PROVE Goal
  BY <1>4 DEF Analyse, ServerCommits, ServerRollsBack, workVars
<1>5. CASE Cool \/ UNCHANGED pipelineVars
  BY <1>5 DEF Cool, pipelineVars, workVars
<1>6. CASE ProcessRestart
  BY <1>1, <1>6 DEF ProcessRestart
<1> QED
  BY <1>2, <1>3, <1>4, <1>5, <1>6 DEF PipelineNext, SaveStep

\* The save of a run is done after finitely many steps of its own, whatever the other
\* workers, the server and the circuit do: it repeats no request, and its round of
\* reconciliation goes through the copy of the list it began with.
THEOREM PipelineStepsRunOut == PipelineSpec => [][\A r \in Runs : CountsDown(r)]_pipelineVars
<1>1. ASSUME PipeInv, PipeInv', [PipelineNext]_pipelineVars, NEW r \in Runs
      PROVE  CountsDown(r)
  <2> DEFINE n == Len(due[r])
             m == Len(due'[r])
  <2>1. /\ stage[r] \in Stages /\ stage'[r] \in Stages /\ n \in Nat /\ m \in Nat
    BY <1>1, LenProperties DEF PipeInv, WorkTypes, ListTypes
  <2>2. StepsLeft(r) = Left(stage[r], n) /\ StepsLeft(r)' = Left(stage'[r], m)
    BY DEF StepsLeft, Left, StageLeft, InRound
  <2>3. SaveStep(r) => Left(stage'[r], m) < Left(stage[r], n)
    BY <1>1, OwnStep
  <2> HIDE DEF n, m
  <2>4. Left(stage[r], n) \in Nat /\ Left(stage'[r], m) \in Nat
    BY <2>1, LeftType
  <2>5. ASSUME ~SaveStep(r) PROVE Left(stage'[r], m) <= Left(stage[r], n)
    <3>1. CASE stage'[r] = stage[r] /\ due'[r] = due[r]
      BY <3>1, <2>4 DEF n, m
    <3>2. CASE stage[r] = "none" /\ stage'[r] \in {"none", "scheduled"}
      <4>1. /\ Left(stage[r], n) = 3 * UnknownCapacity + 12
            /\ Left(stage'[r], m) \in {3 * UnknownCapacity + 11, 3 * UnknownCapacity + 12}
        BY <3>2 DEF Left, InRound, StageLeft
      <4> QED
        BY <4>1, PipelineAssumption
    <3>3. CASE stage'[r] = "past"
      <4>1. Left(stage'[r], m) = 0
        BY <3>3 DEF Left
      <4> QED
        BY <4>1, <2>4
    <3> QED
      BY <1>1, <2>5, <3>1, <3>2, <3>3, OthersStep
  <2> QED
    BY <2>2, <2>3, <2>4, <2>5 DEF CountsDown
<1>2. PipeInv /\ PipeInv' /\ [PipelineNext]_pipelineVars
        => [\A r \in Runs : CountsDown(r)]_pipelineVars
  BY <1>1
<1> QED
  BY PipelineInductive, <1>2, PTL DEF PipelineSpec
=============================================================================
