------------------------- MODULE TimeoutQueueProofs -------------------------
(***************************************************************************)
(* Proofs about BlockingTimeoutQueue, for any set of consumers and any     *)
(* number of items.                                                        *)
(***************************************************************************)
EXTENDS TimeoutQueue, SequenceTheorems, TLAPS

-----------------------------------------------------------------------------
(* Sequences of items.                                                     *)

\* The numbers of a sequence of items, one by one (the history of deliveries).
LEMMA NumbersOf ==
  ASSUME NEW items \in Seq(Items)
  PROVE  /\ Numbers(items) \in Seq(Nat)
         /\ Len(Numbers(items)) = Len(items)
         /\ \A k \in 1 .. Len(items) : Numbers(items)[k] = items[k].n
<1>1. \A k \in 1 .. Len(items) : items[k].n \in Nat
  <2>1. \A k \in 1 .. Len(items) : items[k] \in Items
    BY ElementOfSeq
  <2>. QED
    BY <2>1 DEF Items
<1>2. Numbers(items) \in [1 .. Len(items) -> Nat]
  BY <1>1 DEF Numbers
<1>3. Len(items) \in Nat
  BY LenProperties
<1>. QED
  BY <1>2, <1>3, SeqDef DEF Numbers

\* A part of a sequence of items, as Take and Proceed cut it.
LEMMA PartOf ==
  ASSUME NEW items \in Seq(Items), NEW m \in 1 .. (Len(items) + 1),
         NEW n \in (m - 1) .. Len(items)
  PROVE  /\ SubSeq(items, m, n) \in Seq(Items)
         /\ Len(SubSeq(items, m, n)) = n - m + 1
         /\ \A k \in 1 .. (n - m + 1) : SubSeq(items, m, n)[k] = items[m + k - 1]
<1>1. Len(items) \in Nat
  BY LenProperties
<1>2. \A k \in m .. n : items[k] \in Items
  BY <1>1, ElementOfSeq
<1>. QED
  BY <1>1, <1>2, SubSeqProperties

-----------------------------------------------------------------------------
(* The inductive invariant.                                                *)

\* InOrder, item by item.
Counted ==
  /\ Len(delivered) + Len(queue) = pushes
  /\ \A k \in 1 .. Len(delivered) : delivered[k] = k
  /\ \A k \in 1 .. Len(queue) : queue[k].n = Len(delivered) + k

QueueInv ==
  /\ QueueTypeOK
  /\ Counted
  /\ NoSleepOnItems
  /\ UntilFirstWanted

\* Items delivered and items in the queue make up all that was pushed.
LEMMA CountedInOrder ==
  ASSUME QueueTypeOK, Counted
  PROVE  InOrder
<1>. DEFINE all == delivered \o Numbers(queue)
<1>1. /\ delivered \in Seq(Nat) /\ queue \in Seq(Items) /\ pushes \in Nat
      /\ Len(delivered) \in Nat /\ Len(queue) \in Nat
  BY LenProperties DEF QueueTypeOK
<1>2. /\ Numbers(queue) \in Seq(Nat)
      /\ Len(Numbers(queue)) = Len(queue)
      /\ \A k \in 1 .. Len(queue) : Numbers(queue)[k] = queue[k].n
  BY <1>1, NumbersOf
<1>3. /\ all \in Seq(Nat)
      /\ Len(all) = pushes
      /\ \A n \in 1 .. pushes : all[n] = n
  <2>1. all \in Seq(Nat) /\ Len(all) = pushes
    BY <1>1, <1>2, ConcatProperties DEF Counted
  <2>2. ASSUME NEW n \in 1 .. Len(delivered) PROVE all[n] = n
    BY <1>1, <1>2, ConcatProperties DEF Counted
  <2>3. ASSUME NEW n \in (Len(delivered) + 1) .. pushes PROVE all[n] = n
    <3>1. n - Len(delivered) \in 1 .. Len(queue)
      BY <1>1 DEF Counted
    <3>2. all[n] = Numbers(queue)[n - Len(delivered)]
      BY <1>1, <1>2, <3>1, ConcatProperties
    <3>3. Numbers(queue)[n - Len(delivered)] = queue[n - Len(delivered)].n
      BY <1>2, <3>1
    <3>. QED
      BY <1>1, <3>1, <3>2, <3>3 DEF Counted
  <2>. QED
    BY <1>1, <2>1, <2>2, <2>3
<1>4. all = [n \in 1 .. Len(all) |-> all[n]]
  BY <1>3, LenProperties
<1>5. [n \in 1 .. Len(all) |-> all[n]] = [n \in 1 .. pushes |-> n]
  BY <1>3
<1>. QED
  BY <1>4, <1>5 DEF InOrder

\* Taking the first k items keeps the count.
LEMMA TakeCounted ==
  ASSUME QueueTypeOK, Counted,
         NEW c \in Consumers, NEW k \in 0 .. Len(queue), Take(c, k),
         pushes' = pushes
  PROVE  /\ Counted'
         /\ queue' \in Seq(Items) /\ delivered' \in Seq(Nat)
         /\ got' \in [Consumers -> Seq(Items)]
         /\ got' = [got EXCEPT ![c] = @ \o SubSeq(queue, 1, k)]
<1>. DEFINE head == SubSeq(queue, 1, k)
<1>1. /\ delivered \in Seq(Nat) /\ queue \in Seq(Items) /\ pushes \in Nat
      /\ Len(delivered) \in Nat /\ Len(queue) \in Nat
  BY LenProperties DEF QueueTypeOK
<1>2. /\ head \in Seq(Items) /\ Len(head) = k
      /\ \A j \in 1 .. k : head[j] = queue[j]
  <2>1. /\ SubSeq(queue, 1, k) \in Seq(Items)
        /\ Len(SubSeq(queue, 1, k)) = k - 1 + 1
        /\ \A j \in 1 .. (k - 1 + 1) : SubSeq(queue, 1, k)[j] = queue[1 + j - 1]
    BY <1>1, PartOf
  <2>. QED
    BY <2>1
<1>3. /\ queue' \in Seq(Items) /\ Len(queue') = Len(queue) - k
      /\ \A j \in 1 .. (Len(queue) - k) : queue'[j] = queue[k + j]
  <2>1. /\ SubSeq(queue, k + 1, Len(queue)) \in Seq(Items)
        /\ Len(SubSeq(queue, k + 1, Len(queue))) = Len(queue) - (k + 1) + 1
        /\ \A j \in 1 .. (Len(queue) - (k + 1) + 1) :
             SubSeq(queue, k + 1, Len(queue))[j] = queue[k + 1 + j - 1]
    <3>1. k + 1 \in 1 .. (Len(queue) + 1) /\ Len(queue) \in ((k + 1) - 1) .. Len(queue)
      BY <1>1
    <3>. QED
      BY <1>1, <3>1, PartOf
  <2>2. queue' = SubSeq(queue, k + 1, Len(queue))
    BY DEF Take
  <2>. QED
    BY <1>1, <2>1, <2>2
<1>4. /\ Numbers(head) \in Seq(Nat) /\ Len(Numbers(head)) = k
      /\ \A j \in 1 .. k : Numbers(head)[j] = queue[j].n
  <2>1. /\ Numbers(head) \in Seq(Nat) /\ Len(Numbers(head)) = Len(head)
        /\ \A j \in 1 .. Len(head) : Numbers(head)[j] = head[j].n
    BY <1>2, NumbersOf
  <2>. QED
    BY <1>2, <2>1
<1>5. /\ delivered' \in Seq(Nat) /\ Len(delivered') = Len(delivered) + k
      /\ \A j \in 1 .. Len(delivered) : delivered'[j] = delivered[j]
      /\ \A j \in 1 .. k : delivered'[Len(delivered) + j] = queue[j].n
  <2>1. delivered' = delivered \o Numbers(head)
    BY DEF Take
  <2>2. delivered' \in Seq(Nat) /\ Len(delivered') = Len(delivered) + k
    BY <1>1, <1>4, <2>1, ConcatProperties
  <2>3. \A j \in 1 .. Len(delivered) : delivered'[j] = delivered[j]
    BY <1>1, <1>4, <2>1, ConcatProperties
  <2>4. ASSUME NEW j \in 1 .. k
        PROVE  delivered'[Len(delivered) + j] = queue[j].n
    <3>1. delivered'[Len(delivered) + j] = Numbers(head)[j]
      BY <1>1, <1>4, <2>1, ConcatProperties
    <3>. QED
      BY <1>4, <3>1
  <2>. QED
    BY <2>2, <2>3, <2>4
<1>6. Counted'
  <2>. HIDE DEF head
  <2>1. Len(delivered') + Len(queue') = pushes'
    <3>1. Len(delivered') = Len(delivered) + k /\ Len(queue') = Len(queue) - k
      BY <1>3, <1>5
    <3>2. Len(delivered) + Len(queue) = pushes
      BY DEF Counted
    <3>3. k \in Nat /\ Len(queue) \in Nat /\ Len(delivered) \in Nat
      BY <1>1
    <3>. QED
      BY <3>1, <3>2, <3>3
  <2>2. ASSUME NEW n \in 1 .. Len(delivered') PROVE delivered'[n] = n
    <3>1. CASE n <= Len(delivered)
      <4>1. n \in 1 .. Len(delivered)
        BY <1>1, <1>5, <3>1
      <4>2. delivered'[n] = delivered[n]
        BY <1>5, <4>1
      <4>3. delivered[n] = n
        BY <4>1 DEF Counted
      <4>. QED
        BY <4>2, <4>3
    <3>2. CASE n > Len(delivered)
      <4>1. n - Len(delivered) \in 1 .. k
        BY <1>1, <1>5, <3>2
      <4>2. delivered'[Len(delivered) + (n - Len(delivered))]
              = queue[n - Len(delivered)].n
        BY <1>5, <4>1
      <4>3. queue[n - Len(delivered)].n = Len(delivered) + (n - Len(delivered))
        BY <1>1, <4>1 DEF Counted
      <4>. QED
        BY <1>1, <1>5, <4>2, <4>3
    <3>. QED
      BY <1>1, <1>5, <3>1, <3>2
  <2>3. ASSUME NEW n \in 1 .. Len(queue') PROVE queue'[n].n = Len(delivered') + n
    <3>1. queue'[n] = queue[k + n] /\ k + n \in 1 .. Len(queue)
      BY <1>1, <1>3
    <3>. QED
      BY <1>1, <1>5, <3>1 DEF Counted
  <2>. QED
    BY <2>1, <2>2, <2>3 DEF Counted
<1>7. /\ got' = [got EXCEPT ![c] = @ \o head]
      /\ got' \in [Consumers -> Seq(Items)]
  <2>1. got[c] \o head \in Seq(Items)
    BY <1>2, ConcatProperties DEF QueueTypeOK
  <2>. QED
    BY <2>1 DEF Take, QueueTypeOK
<1>. QED
  BY <1>3, <1>5, <1>6, <1>7

-----------------------------------------------------------------------------
(* The steps.                                                              *)

\* The untaken case and the taken one, for UntilFirstWanted: what the consumer
\* got so far has no wanted item, and the part it takes ends where it stops.
Unfulfilled(c) == \A k \in 1 .. Len(got[c]) : ~ got[c][k].wanted

\* A pop_until that is running has seen no wanted item.
LEMMA RunningUnfulfilled ==
  ASSUME QueueTypeOK, UntilFirstWanted,
         NEW c \in Consumers, at[c] # "idle", mode[c] = "pop_until"
  PROVE  Unfulfilled(c)
<1>1. got[c] \in Seq(Items) /\ Len(got[c]) \in Nat
  BY LenProperties DEF QueueTypeOK
<1>2. \A k \in 1 .. (Len(got[c]) - 1) : ~ got[c][k].wanted
  BY DEF UntilFirstWanted
<1>3. got[c] # <<>> => ~ got[c][Len(got[c])].wanted
  BY DEF UntilFirstWanted
<1>4. Len(got[c]) > 0 => got[c] # <<>>
  BY <1>1
<1>. QED
  BY <1>1, <1>2, <1>3, <1>4 DEF Unfulfilled

\* Proceed takes an initial part of the queue and keeps the invariant.
LEMMA ProceedStep ==
  ASSUME QueueInv, NEW c \in Consumers, at[c] = "awake", Proceed(c)
  PROVE  QueueInv'
<1>. USE DEF QueueInv
<1>1. queue \in Seq(Items) /\ Len(queue) \in Nat /\ got[c] \in Seq(Items)
      /\ Len(got[c]) \in Nat
  BY LenProperties DEF QueueTypeOK
<1>2. /\ pushes' = pushes /\ mode' = mode /\ expired' = expired
  BY DEF Proceed
<1>3. CASE \E k \in 1 .. Len(queue) :
             StopsAt(c, k) /\ Take(c, k) /\ Returns(c, TRUE)
  <2>1. PICK k \in 1 .. Len(queue) :
          StopsAt(c, k) /\ Take(c, k) /\ Returns(c, TRUE)
    BY <1>3
  <2>2. /\ Counted'
        /\ queue' \in Seq(Items) /\ delivered' \in Seq(Nat)
        /\ got' \in [Consumers -> Seq(Items)]
        /\ got' = [got EXCEPT ![c] = @ \o SubSeq(queue, 1, k)]
    <3>1. k \in 0 .. Len(queue) /\ Take(c, k) /\ pushes' = pushes
      BY <1>1, <1>2, <2>1
    <3>. QED
      BY <3>1, TakeCounted
  <2>3. QueueTypeOK'
    BY <1>2, <2>1, <2>2 DEF QueueTypeOK, Returns
  <2>4. NoSleepOnItems'
    <3>1. queue # <<>>
      BY DEF Proceed
    <3>. QED
      BY <2>1, <3>1 DEF NoSleepOnItems, Returns, QueueTypeOK
  <2>5. UntilFirstWanted'
    <3>1. ASSUME mode[c] = "pop_until"
          PROVE  /\ \A j \in 1 .. (Len(got'[c]) - 1) : ~ got'[c][j].wanted
                 /\ got'[c][Len(got'[c])].wanted
      <4>1. Unfulfilled(c)
        BY <3>1, RunningUnfulfilled
      <4>2. /\ SubSeq(queue, 1, k) \in Seq(Items) /\ Len(SubSeq(queue, 1, k)) = k
            /\ \A j \in 1 .. k : SubSeq(queue, 1, k)[j] = queue[j]
        <5>1. /\ SubSeq(queue, 1, k) \in Seq(Items)
              /\ Len(SubSeq(queue, 1, k)) = k - 1 + 1
              /\ \A j \in 1 .. (k - 1 + 1) : SubSeq(queue, 1, k)[j] = queue[1 + j - 1]
          BY <1>1, PartOf
        <5>. QED
          BY <5>1
      <4>3. got'[c] = got[c] \o SubSeq(queue, 1, k)
        BY <2>2 DEF QueueTypeOK
      <4>4. /\ Len(got'[c]) = Len(got[c]) + k
            /\ \A j \in 1 .. Len(got[c]) : got'[c][j] = got[c][j]
            /\ \A j \in 1 .. k : got'[c][Len(got[c]) + j] = queue[j]
        <5>. DEFINE part == SubSeq(queue, 1, k)
        <5>1. part \in Seq(Items) /\ Len(part) = k /\ got'[c] = got[c] \o part
              /\ \A j \in 1 .. k : part[j] = queue[j]
          BY <4>2, <4>3
        <5>. HIDE DEF part
        <5>2. /\ Len(got[c] \o part) = Len(got[c]) + k
              /\ \A j \in 1 .. Len(got[c]) : (got[c] \o part)[j] = got[c][j]
          BY <1>1, <5>1, ConcatProperties
        <5>3. ASSUME NEW j \in 1 .. k
              PROVE  (got[c] \o part)[Len(got[c]) + j] = part[j]
          BY <1>1, <5>1, ConcatProperties
        <5>. QED
          BY <5>1, <5>2, <5>3
      <4>5. queue[k].wanted /\ \A j \in 1 .. (k - 1) : ~ queue[j].wanted
        BY <2>1, <3>1 DEF StopsAt
      <4>6. got'[c][Len(got'[c])].wanted
        BY <4>4, <4>5
      <4>7. ASSUME NEW j \in 1 .. (Len(got'[c]) - 1) PROVE ~ got'[c][j].wanted
        <5>1. CASE j <= Len(got[c])
          <6>1. j \in 1 .. Len(got[c])
            BY <1>1, <4>4, <5>1
          <6>2. got'[c][j] = got[c][j] /\ ~ got[c][j].wanted
            BY <4>1, <4>4, <6>1 DEF Unfulfilled
          <6>. QED
            BY <6>2
        <5>2. CASE j > Len(got[c])
          <6>1. j - Len(got[c]) \in 1 .. (k - 1)
            BY <1>1, <4>4, <5>2
          <6>2. got'[c][Len(got[c]) + (j - Len(got[c]))] = queue[j - Len(got[c])]
            BY <4>4, <6>1
          <6>3. Len(got[c]) + (j - Len(got[c])) = j
            BY <1>1, <4>4
          <6>. QED
            BY <4>5, <6>1, <6>2, <6>3
        <5>. QED
          BY <1>1, <4>4, <5>1, <5>2
      <4>. QED
        BY <4>6, <4>7
    <3>2. ASSUME NEW d \in Consumers, d # c
          PROVE  got'[d] = got[d] /\ at'[d] = at[d] /\ answer'[d] = answer[d]
      BY <2>1, <2>2, <3>2 DEF QueueTypeOK, Returns
    <3>3. at'[c] = "idle" /\ answer'[c] = TRUE
      BY <2>1 DEF QueueTypeOK, Returns
    <3>. QED
      BY <1>2, <3>1, <3>2, <3>3 DEF UntilFirstWanted
  <2>. QED
    BY <2>2, <2>3, <2>4, <2>5
<1>4. CASE /\ mode[c] = "pop_until"
           /\ \A k \in 1 .. Len(queue) : ~ queue[k].wanted
           /\ Take(c, Len(queue))
           /\ at' = [at EXCEPT ![c] = IF expired[c] THEN "awake" ELSE "asleep"]
           /\ UNCHANGED answer
  <2>1. /\ Counted'
        /\ queue' \in Seq(Items) /\ delivered' \in Seq(Nat)
        /\ got' \in [Consumers -> Seq(Items)]
        /\ got' = [got EXCEPT ![c] = @ \o SubSeq(queue, 1, Len(queue))]
    <3>1. Len(queue) \in 0 .. Len(queue) /\ Take(c, Len(queue)) /\ pushes' = pushes
      BY <1>1, <1>2, <1>4
    <3>. QED
      BY <3>1, TakeCounted
  <2>2. QueueTypeOK'
    BY <1>2, <1>4, <2>1 DEF QueueTypeOK
  <2>3. NoSleepOnItems'
    <3>1. queue' = SubSeq(queue, Len(queue) + 1, Len(queue))
      BY <1>4 DEF Take
    <3>2. queue' = <<>>
      BY <1>1, <3>1, SubSeqProperties, EmptySeq
    <3>. QED
      BY <3>2 DEF NoSleepOnItems
  <2>4. UntilFirstWanted'
    <3>1. SubSeq(queue, 1, Len(queue)) = queue
      BY <1>1
    <3>2. got'[c] = got[c] \o queue
      BY <2>1, <3>1 DEF QueueTypeOK
    <3>3. Unfulfilled(c)
      BY <1>4, RunningUnfulfilled
    <3>4. /\ got'[c] \in Seq(Items) /\ Len(got'[c]) = Len(got[c]) + Len(queue)
          /\ \A j \in 1 .. Len(got[c]) : got'[c][j] = got[c][j]
      BY <1>1, <3>2, ConcatProperties
    <3>5. ASSUME NEW j \in 1 .. Len(queue)
          PROVE  got'[c][Len(got[c]) + j] = queue[j]
      BY <1>1, <3>2, ConcatProperties
    <3>6. ASSUME NEW j \in 1 .. Len(got'[c]) PROVE ~ got'[c][j].wanted
      <4>1. CASE j <= Len(got[c])
        BY <1>1, <3>3, <3>4, <4>1 DEF Unfulfilled
      <4>2. CASE j > Len(got[c])
        <5>1. j - Len(got[c]) \in 1 .. Len(queue)
          BY <1>1, <3>4, <4>2
        <5>2. got'[c][Len(got[c]) + (j - Len(got[c]))] = queue[j - Len(got[c])]
          BY <3>5, <5>1
        <5>3. Len(got[c]) + (j - Len(got[c])) = j
          BY <1>1, <3>4
        <5>. QED
          BY <1>4, <5>1, <5>2, <5>3
      <4>. QED
        BY <1>1, <3>4, <4>1, <4>2
    <3>7. ASSUME got'[c] # <<>> PROVE Len(got'[c]) \in 1 .. Len(got'[c])
      BY <3>4, <3>7, EmptySeq, LenProperties
    <3>8. at'[c] # "idle"
      BY <1>4 DEF QueueTypeOK
    <3>9. ASSUME NEW d \in Consumers, d # c
          PROVE  got'[d] = got[d] /\ at'[d] = at[d] /\ answer'[d] = answer[d]
      BY <1>4, <2>1, <3>9 DEF QueueTypeOK
    <3>10. Len(got'[c]) \in Nat
      BY <1>1, <3>4
    <3>11. \A j \in 1 .. (Len(got'[c]) - 1) : ~ got'[c][j].wanted
      BY <3>6, <3>10
    <3>12. got'[c] # <<>> => ~ got'[c][Len(got'[c])].wanted
      BY <3>6, <3>7
    <3>. QED
      BY <1>2, <3>8, <3>9, <3>11, <3>12 DEF UntilFirstWanted
  <2>. QED
    BY <2>1, <2>2, <2>3, <2>4
<1>. QED
  BY <1>3, <1>4 DEF Proceed

\* push appends the next number and wakes whoever sleeps.
LEMMA PushStep ==
  ASSUME QueueInv, NEW wanted \in BOOLEAN, Push(wanted)
  PROVE  QueueInv'
<1>. DEFINE item == [n |-> pushes + 1, wanted |-> wanted]
<1>1. /\ queue \in Seq(Items) /\ delivered \in Seq(Nat) /\ pushes \in Nat
      /\ Len(queue) \in Nat /\ Len(delivered) \in Nat
  BY LenProperties DEF QueueInv, QueueTypeOK
<1>2. item \in Items /\ item.n = pushes + 1
  BY <1>1 DEF Items
<1>3. /\ queue' = Append(queue, item) /\ pushes' = pushes + 1
      /\ delivered' = delivered /\ mode' = mode /\ expired' = expired
      /\ got' = got /\ answer' = answer
      /\ at' = [d \in Consumers |-> IF at[d] = "asleep" THEN "awake" ELSE at[d]]
  BY DEF Push
<1>. HIDE DEF item
<1>4. /\ queue' \in Seq(Items) /\ Len(queue') = Len(queue) + 1
      /\ \A k \in 1 .. Len(queue) : queue'[k] = queue[k]
      /\ queue'[Len(queue) + 1] = item
  BY <1>1, <1>2, <1>3, AppendProperties
<1>5. /\ at' \in [Consumers -> {"idle", "asleep", "awake"}]
      /\ \A d \in Consumers : at'[d] # "asleep"
      /\ \A d \in Consumers : at'[d] = "idle" <=> at[d] = "idle"
  BY <1>3 DEF QueueInv, QueueTypeOK
<1>6. QueueTypeOK'
  BY <1>1, <1>3, <1>4, <1>5 DEF QueueInv, QueueTypeOK
<1>7. Counted'
  <2>1. Len(delivered') + Len(queue') = pushes'
    BY <1>1, <1>3, <1>4 DEF QueueInv, Counted
  <2>2. \A k \in 1 .. Len(delivered') : delivered'[k] = k
    BY <1>3 DEF QueueInv, Counted
  <2>3. ASSUME NEW k \in 1 .. Len(queue') PROVE queue'[k].n = Len(delivered') + k
    <3>1. CASE k <= Len(queue)
      BY <1>1, <1>3, <1>4, <3>1 DEF QueueInv, Counted
    <3>2. CASE k > Len(queue)
      <4>1. k = Len(queue) + 1
        BY <1>1, <1>4, <3>2
      <4>2. queue'[k].n = pushes + 1
        BY <1>2, <1>4, <4>1
      <4>. QED
        BY <1>1, <1>3, <4>1, <4>2 DEF QueueInv, Counted
    <3>. QED
      BY <1>1, <1>4, <3>1, <3>2
  <2>. QED
    BY <2>1, <2>2, <2>3 DEF Counted
<1>8. NoSleepOnItems'
  BY <1>5 DEF NoSleepOnItems
<1>9. UntilFirstWanted'
  BY <1>3, <1>5 DEF QueueInv, UntilFirstWanted
<1>. QED
  BY <1>6, <1>7, <1>8, <1>9 DEF QueueInv

\* A step that moves one consumer and leaves the queue and what was popped
\* alone: the consumer does not fall asleep unless the queue is empty and its
\* deadline has not passed, and it does not claim to have succeeded.
LEMMA QuietStep ==
  ASSUME QueueInv, NEW c \in Consumers,
         NEW to \in {"idle", "asleep", "awake"},
         at' = [at EXCEPT ![c] = to],
         expired' \in [Consumers -> BOOLEAN],
         \A d \in Consumers : d # c => expired'[d] = expired[d],
         answer' \in [Consumers -> BOOLEAN],
         \A d \in Consumers : d # c => answer'[d] = answer[d],
         to = "asleep" => queue = <<>> /\ ~ expired'[c],
         at[c] # "idle",
         to = "idle" => ~ answer'[c],
         UNCHANGED <<queue, pushes, delivered, mode, got>>
  PROVE  QueueInv'
<1>1. \A d \in Consumers : at'[d] = IF d = c THEN to ELSE at[d]
  BY DEF QueueInv, QueueTypeOK
<1>2. QueueTypeOK'
  BY <1>1 DEF QueueInv, QueueTypeOK
<1>3. Counted'
  BY DEF QueueInv, Counted
<1>4. NoSleepOnItems'
  BY <1>1 DEF QueueInv, NoSleepOnItems
<1>5. UntilFirstWanted'
  <2>1. SUFFICES ASSUME NEW d \in Consumers, mode[d] = "pop_until"
                 PROVE  /\ \A k \in 1 .. (Len(got[d]) - 1) : ~ got[d][k].wanted
                        /\ got[d] # <<>> =>
                             (got[d][Len(got[d])].wanted
                                <=> at'[d] = "idle" /\ answer'[d])
    BY DEF UntilFirstWanted
  <2>2. /\ \A k \in 1 .. (Len(got[d]) - 1) : ~ got[d][k].wanted
        /\ got[d] # <<>> =>
             (got[d][Len(got[d])].wanted <=> at[d] = "idle" /\ answer[d])
    BY <2>1 DEF QueueInv, UntilFirstWanted
  <2>3. CASE d = c
    BY <1>1, <2>2, <2>3
  <2>4. CASE d # c
    BY <1>1, <2>2, <2>4
  <2>. QED
    BY <2>3, <2>4
<1>. QED
  BY <1>2, <1>3, <1>4, <1>5 DEF QueueInv

\* A consumer with the mutex proceeds, gives up or sleeps.
LEMMA WakeStep ==
  ASSUME QueueInv, NEW c \in Consumers, Wake(c)
  PROVE  QueueInv'
<1>1. CASE Proceed(c)
  BY <1>1, ProceedStep DEF Wake
<1>2. CASE /\ queue = <<>> /\ expired[c] /\ Returns(c, FALSE) /\ Takes0
           /\ UNCHANGED <<pushes, mode, expired>>
  BY <1>2, QuietStep DEF Wake, Returns, Takes0, QueueInv, QueueTypeOK
<1>3. CASE /\ queue = <<>> /\ ~ expired[c] /\ at' = [at EXCEPT ![c] = "asleep"]
           /\ Takes0 /\ UNCHANGED <<pushes, mode, expired, answer>>
  BY <1>3, QuietStep DEF Wake, Takes0, QueueInv, QueueTypeOK
<1>. QED
  BY <1>1, <1>2, <1>3 DEF Wake

\* A wake-up for no reason and a deadline that passes.
LEMMA ClockStep ==
  ASSUME QueueInv, NEW c \in Consumers, Spurious(c) \/ Expire(c)
  PROVE  QueueInv'
<1>1. CASE Spurious(c)
  BY <1>1, QuietStep DEF Spurious, QueueInv, QueueTypeOK
<1>2. CASE Expire(c)
  <2>1. expired' \in [Consumers -> BOOLEAN]
        /\ \A d \in Consumers : d # c => expired'[d] = expired[d]
    BY <1>2 DEF Expire, QueueInv, QueueTypeOK
  <2>. QED
    BY <1>2, <2>1, QuietStep DEF Expire, QueueInv, QueueTypeOK
<1>. QED
  BY <1>1, <1>2

\* A step of an idle consumer that starts a call, or ends one at once: what it
\* got is reset.
LEMMA ResetStep ==
  ASSUME QueueInv, NEW c \in Consumers, at[c] = "idle",
         NEW to \in {"idle", "awake"},
         at' = [at EXCEPT ![c] = to],
         got' = [got EXCEPT ![c] = <<>>],
         mode' \in [Consumers -> Modes],
         \A d \in Consumers : d # c => mode'[d] = mode[d],
         expired' \in [Consumers -> BOOLEAN],
         \A d \in Consumers : d # c => expired'[d] = expired[d],
         answer' \in [Consumers -> BOOLEAN],
         \A d \in Consumers : d # c => answer'[d] = answer[d],
         queue' \in Seq(Items), delivered' \in Seq(Nat), pushes' = pushes,
         Counted',
         queue' # <<>> => queue # <<>>
  PROVE  QueueInv'
<1>1. \A d \in Consumers : at'[d] = IF d = c THEN to ELSE at[d]
  BY DEF QueueInv, QueueTypeOK
<1>2. <<>> \in Seq(Items) /\ Len(<<>>) = 0
  BY EmptySeq
<1>3. \A d \in Consumers : got'[d] = IF d = c THEN <<>> ELSE got[d]
  BY DEF QueueInv, QueueTypeOK
<1>4. QueueTypeOK'
  BY <1>1, <1>2 DEF QueueInv, QueueTypeOK
<1>5. NoSleepOnItems'
  BY <1>1 DEF QueueInv, NoSleepOnItems
<1>6. UntilFirstWanted'
  <2>1. SUFFICES ASSUME NEW d \in Consumers, mode'[d] = "pop_until"
                 PROVE  /\ \A k \in 1 .. (Len(got'[d]) - 1) : ~ got'[d][k].wanted
                        /\ got'[d] # <<>> =>
                             (got'[d][Len(got'[d])].wanted
                                <=> at'[d] = "idle" /\ answer'[d])
    BY DEF UntilFirstWanted
  <2>2. CASE d = c
    BY <1>2, <1>3, <2>2
  <2>3. CASE d # c
    BY <1>1, <1>3, <2>1, <2>3 DEF QueueInv, UntilFirstWanted
  <2>. QED
    BY <2>2, <2>3
<1>. QED
  BY <1>4, <1>5, <1>6 DEF QueueInv

\* The consumer calls pop or pop_until with a timeout.
LEMMA CallStep ==
  ASSUME QueueInv, NEW c \in Consumers, NEW m \in Modes, Call(c, m)
  PROVE  QueueInv'
<1>1. mode' \in [Consumers -> Modes] /\ \A d \in Consumers : d # c => mode'[d] = mode[d]
  BY DEF Call, QueueInv, QueueTypeOK
<1>2. expired' \in [Consumers -> BOOLEAN]
      /\ \A d \in Consumers : d # c => expired'[d] = expired[d]
  BY DEF Call, QueueInv, QueueTypeOK
<1>3. Counted'
  BY DEF Call, QueueInv, Counted
<1>. QED
  BY <1>1, <1>2, <1>3, ResetStep DEF Call, QueueInv, QueueTypeOK

\* pop without a timeout takes the first item, if there is one.
LEMMA PopNowStep ==
  ASSUME QueueInv, NEW c \in Consumers, PopNow(c)
  PROVE  QueueInv'
<1>1. /\ queue \in Seq(Items) /\ delivered \in Seq(Nat) /\ pushes \in Nat
      /\ Len(queue) \in Nat /\ Len(delivered) \in Nat
  BY LenProperties DEF QueueInv, QueueTypeOK
<1>2. /\ queue' \in Seq(Items) /\ delivered' \in Seq(Nat) /\ Counted'
      /\ queue' # <<>> => queue # <<>>
  <2>1. CASE queue = <<>>
    BY <1>1, <2>1 DEF PopNow, QueueInv, Counted
  <2>2. CASE queue # <<>>
    <3>1. queue' = Tail(queue) /\ delivered' = Append(delivered, Head(queue).n)
      BY <2>2 DEF PopNow
    <3>2. /\ Tail(queue) \in Seq(Items) /\ Len(Tail(queue)) = Len(queue) - 1
          /\ \A k \in 1 .. Len(Tail(queue)) : Tail(queue)[k] = queue[k + 1]
          /\ Head(queue) = queue[1]
      BY <1>1, <2>2, HeadTailProperties
    <3>3. 1 \in 1 .. Len(queue)
      BY <1>1, <2>2, EmptySeq
    <3>4. Head(queue).n = Len(delivered) + 1
      BY <3>2, <3>3 DEF QueueInv, Counted
    <3>5. /\ delivered' \in Seq(Nat) /\ Len(delivered') = Len(delivered) + 1
          /\ \A k \in 1 .. Len(delivered) : delivered'[k] = delivered[k]
          /\ delivered'[Len(delivered) + 1] = Len(delivered) + 1
      BY <1>1, <3>1, <3>4, AppendProperties
    <3>6. Len(delivered') + Len(queue') = pushes'
      <4>1. Len(queue') = Len(queue) - 1
        BY <3>1, <3>2
      <4>2. Len(delivered) + Len(queue) = pushes
        BY DEF QueueInv, Counted
      <4>3. pushes' = pushes
        BY DEF PopNow
      <4>4. Len(delivered') = Len(delivered) + 1
        BY <3>5
      <4>. QED
        BY <1>1, <4>1, <4>2, <4>3, <4>4
    <3>7. ASSUME NEW k \in 1 .. Len(delivered') PROVE delivered'[k] = k
      <4>1. CASE k \in 1 .. Len(delivered)
        BY <3>5, <4>1 DEF QueueInv, Counted
      <4>2. CASE k = Len(delivered) + 1
        BY <3>5, <4>2
      <4>. QED
        BY <1>1, <3>5, <4>1, <4>2
    <3>8. ASSUME NEW k \in 1 .. Len(queue') PROVE queue'[k].n = Len(delivered') + k
      <4>1. queue'[k] = queue[k + 1] /\ k + 1 \in 1 .. Len(queue)
        BY <1>1, <3>1, <3>2
      <4>2. queue[k + 1].n = Len(delivered) + (k + 1)
        BY <4>1 DEF QueueInv, Counted
      <4>. QED
        BY <1>1, <3>5, <4>1, <4>2
    <3>9. Counted'
      BY <3>6, <3>7, <3>8 DEF Counted
    <3>. QED
      BY <2>2, <3>1, <3>2, <3>5, <3>9
  <2>. QED
    BY <2>1, <2>2
<1>3. /\ answer' \in [Consumers -> BOOLEAN]
      /\ \A d \in Consumers : d # c => answer'[d] = answer[d]
  <2>1. (queue # <<>>) \in BOOLEAN
    OBVIOUS
  <2>. QED
    BY <2>1 DEF PopNow, QueueInv, QueueTypeOK
<1>4. at' = [at EXCEPT ![c] = "idle"]
  BY DEF PopNow, QueueInv, QueueTypeOK
<1>. QED
  BY <1>2, <1>3, <1>4, ResetStep DEF PopNow, QueueInv, QueueTypeOK

\* pop_all takes every item.
LEMMA PopAllStep ==
  ASSUME QueueInv, NEW c \in Consumers, PopAll(c)
  PROVE  QueueInv'
<1>1. /\ queue \in Seq(Items) /\ delivered \in Seq(Nat) /\ pushes \in Nat
      /\ Len(queue) \in Nat /\ Len(delivered) \in Nat
  BY LenProperties DEF QueueInv, QueueTypeOK
<1>. DEFINE all == Numbers(queue)
<1>2. /\ all \in Seq(Nat) /\ Len(all) = Len(queue)
      /\ \A k \in 1 .. Len(queue) : all[k] = queue[k].n
  BY <1>1, NumbersOf
<1>3. delivered' = delivered \o all /\ queue' = <<>>
  BY DEF PopAll
<1>. HIDE DEF all
<1>4. /\ delivered' \in Seq(Nat) /\ Len(delivered') = pushes
      /\ \A k \in 1 .. Len(delivered) : delivered'[k] = delivered[k]
  <2>1. /\ delivered \o all \in Seq(Nat)
        /\ Len(delivered \o all) = Len(delivered) + Len(all)
        /\ \A k \in 1 .. Len(delivered) : (delivered \o all)[k] = delivered[k]
    <3>1. delivered \in Seq(Nat) /\ all \in Seq(Nat)
      BY <1>1, <1>2
    <3>2. delivered \o all \in Seq(Nat)
      BY <3>1, ConcatProperties
    <3>3. Len(delivered \o all) = Len(delivered) + Len(all)
      BY <3>1, ConcatProperties
    <3>4. \A k \in 1 .. Len(delivered) : (delivered \o all)[k] = delivered[k]
      BY <3>1, ConcatProperties
    <3>. QED
      BY <3>2, <3>3, <3>4
  <2>2. Len(delivered) + Len(queue) = pushes
    BY DEF QueueInv, Counted
  <2>3. Len(delivered \o all) = pushes
    <3>1. Len(all) = Len(queue)
      BY <1>2
    <3>. QED
      BY <2>1, <2>2, <3>1
  <2>. QED
    BY <1>3, <2>1, <2>3
<1>5. ASSUME NEW k \in 1 .. Len(queue)
      PROVE  delivered'[Len(delivered) + k] = all[k]
  BY <1>1, <1>2, <1>3, ConcatProperties
<1>6. queue' \in Seq(Items) /\ Len(queue') = 0
  BY <1>3, EmptySeq
<1>7. ASSUME NEW k \in 1 .. Len(delivered') PROVE delivered'[k] = k
  <2>1. CASE k <= Len(delivered)
    <3>1. k \in 1 .. Len(delivered)
      BY <1>1, <2>1
    <3>. QED
      BY <1>4, <3>1 DEF QueueInv, Counted
  <2>2. CASE k > Len(delivered)
    <3>1. k - Len(delivered) \in 1 .. Len(queue)
      BY <1>1, <1>4, <2>2 DEF QueueInv, Counted
    <3>2. delivered'[Len(delivered) + (k - Len(delivered))] = all[k - Len(delivered)]
      BY <1>5, <3>1
    <3>3. all[k - Len(delivered)] = Len(delivered) + (k - Len(delivered))
      BY <1>2, <3>1 DEF QueueInv, Counted
    <3>. QED
      BY <1>1, <3>2, <3>3
  <2>. QED
    BY <1>1, <2>1, <2>2
<1>8. Counted'
  BY <1>1, <1>4, <1>6, <1>7 DEF Counted, PopAll
<1>9. /\ answer' \in [Consumers -> BOOLEAN]
      /\ \A d \in Consumers : d # c => answer'[d] = answer[d]
  BY DEF PopAll, QueueInv, QueueTypeOK
<1>10. at' = [at EXCEPT ![c] = "idle"]
  BY DEF PopAll, QueueInv, QueueTypeOK
<1>. QED
  BY <1>3, <1>4, <1>6, <1>8, <1>9, <1>10, ResetStep
     DEF PopAll, QueueInv, QueueTypeOK

-----------------------------------------------------------------------------
(* The theorems.                                                           *)

\* Whatever the threads do, the invariant holds.
THEOREM QueueInvariance == QueueSafety => []QueueInv
<1>1. QueueInit => QueueInv
  <2>1. SUFFICES ASSUME QueueInit PROVE QueueInv
    OBVIOUS
  <2>2. /\ <<>> \in Seq(Items) /\ <<>> \in Seq(Nat) /\ Len(<<>>) = 0
    BY EmptySeq
  <2>3. QueueTypeOK
    BY <2>1, <2>2 DEF QueueInit, QueueTypeOK, Modes
  <2>4. Counted
    BY <2>1, <2>2 DEF QueueInit, Counted
  <2>5. NoSleepOnItems /\ UntilFirstWanted
    BY <2>1 DEF QueueInit, NoSleepOnItems, UntilFirstWanted
  <2>. QED
    BY <2>3, <2>4, <2>5 DEF QueueInv
<1>2. QueueInv /\ [QueueNext]_queueVars => QueueInv'
  <2>1. SUFFICES ASSUME QueueInv, [QueueNext]_queueVars PROVE QueueInv'
    OBVIOUS
  <2>2. CASE UNCHANGED queueVars
    BY <2>1, <2>2 DEF queueVars, QueueInv, QueueTypeOK, Counted,
                      NoSleepOnItems, UntilFirstWanted
  <2>3. ASSUME NEW wanted \in BOOLEAN, Push(wanted) PROVE QueueInv'
    BY <2>1, <2>3, PushStep
  <2>4. ASSUME NEW c \in Consumers, NEW m \in Modes, Call(c, m) PROVE QueueInv'
    BY <2>1, <2>4, CallStep
  <2>5. ASSUME NEW c \in Consumers, Wake(c) PROVE QueueInv'
    BY <2>1, <2>5, WakeStep
  <2>6. ASSUME NEW c \in Consumers, Spurious(c) \/ Expire(c) PROVE QueueInv'
    BY <2>1, <2>6, ClockStep
  <2>7. ASSUME NEW c \in Consumers, PopNow(c) PROVE QueueInv'
    BY <2>1, <2>7, PopNowStep
  <2>8. ASSUME NEW c \in Consumers, PopAll(c) PROVE QueueInv'
    BY <2>1, <2>8, PopAllStep
  <2>. QED
    BY <2>1, <2>2, <2>3, <2>4, <2>5, <2>6, <2>7, <2>8 DEF QueueNext
<1>. QED
  BY <1>1, <1>2, PTL DEF QueueSafety

\* Every variable of the queue keeps its type.
THEOREM QueueTypeCorrect == QueueSafety => []QueueTypeOK
<1>1. QueueInv => QueueTypeOK
  BY DEF QueueInv
<1>. QED
  BY <1>1, QueueInvariance, PTL

\* Nothing is lost, popped twice or popped out of order.
THEOREM DeliveredInOrder == QueueSafety => []InOrder
<1>1. QueueInv => InOrder
  BY CountedInOrder DEF QueueInv
<1>. QED
  BY <1>1, QueueInvariance, PTL

\* No consumer sleeps on a queue that has items.
THEOREM NoMissedPush == QueueSafety => []NoSleepOnItems
<1>1. QueueInv => NoSleepOnItems
  BY DEF QueueInv
<1>. QED
  BY <1>1, QueueInvariance, PTL

\* pop_until ends at the first item its caller wants.
THEOREM FirstWanted == QueueSafety => []UntilFirstWanted
<1>1. QueueInv => UntilFirstWanted
  BY DEF QueueInv
<1>. QED
  BY <1>1, QueueInvariance, PTL

\* A call gives up only on an empty queue, after its deadline.
THEOREM GivesUpOnEmpty == QueueSafety => TimesOutOnEmpty
<1>. DEFINE GivesUp(c) == at[c] # "idle" /\ at'[c] = "idle" /\ ~ answer'[c]
            Rightly(c) == GivesUp(c) => expired[c] /\ queue = <<>>
<1>1. QueueInv /\ [QueueNext]_queueVars
        => [\A c \in Consumers : Rightly(c)]_queueVars
  <2>1. SUFFICES ASSUME QueueInv, QueueNext, NEW c \in Consumers, GivesUp(c)
                 PROVE  expired[c] /\ queue = <<>>
    OBVIOUS
  <2>2. ASSUME NEW wanted \in BOOLEAN, Push(wanted) PROVE FALSE
    BY <2>1, <2>2 DEF Push
  <2>3. ASSUME NEW d \in Consumers, NEW to, at' = [at EXCEPT ![d] = to],
               to # "idle" \/ at[d] = "idle"
        PROVE  FALSE
    BY <2>1, <2>3 DEF QueueInv, QueueTypeOK
  <2>4. ASSUME NEW d \in Consumers, NEW m \in Modes, Call(d, m) PROVE FALSE
    BY <2>3, <2>4 DEF Call
  <2>5. ASSUME NEW d \in Consumers, Spurious(d) \/ Expire(d) PROVE FALSE
    BY <2>3, <2>5 DEF Spurious, Expire
  <2>6. ASSUME NEW d \in Consumers, PopNow(d) \/ PopAll(d) PROVE FALSE
    BY <2>1, <2>6 DEF PopNow, PopAll
  <2>7. ASSUME NEW d \in Consumers, Wake(d)
        PROVE  expired[c] /\ queue = <<>>
    <3>1. CASE Proceed(d)
      <4>1. ASSUME Returns(d, TRUE) PROVE FALSE
        BY <2>1, <4>1 DEF Returns, QueueInv, QueueTypeOK
      <4>2. ASSUME at' = [at EXCEPT ![d] = IF expired[d] THEN "awake" ELSE "asleep"]
            PROVE  FALSE
        BY <2>1, <4>2 DEF QueueInv, QueueTypeOK
      <4>. QED
        BY <3>1, <4>1, <4>2 DEF Proceed
    <3>2. CASE queue = <<>> /\ expired[d] /\ Returns(d, FALSE)
      BY <2>1, <3>2 DEF Returns, QueueInv, QueueTypeOK
    <3>3. CASE queue = <<>> /\ at' = [at EXCEPT ![d] = "asleep"]
      BY <2>3, <3>3
    <3>. QED
      BY <2>7, <3>1, <3>2, <3>3 DEF Wake
  <2>8. ASSUME NEW d \in Consumers,
               \/ \E m \in Modes : Call(d, m)
               \/ Wake(d) \/ Spurious(d) \/ Expire(d) \/ PopNow(d) \/ PopAll(d)
        PROVE  expired[c] /\ queue = <<>>
    BY <2>4, <2>5, <2>6, <2>7, <2>8
  <2>. QED
    BY <2>1, <2>2, <2>8 DEF QueueNext
<1>. QED
  BY <1>1, QueueInvariance, PTL DEF QueueSafety, TimesOutOnEmpty
=============================================================================
