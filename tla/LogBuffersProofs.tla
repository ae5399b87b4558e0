-------------------------- MODULE LogBuffersProofs --------------------------
(***************************************************************************)
(* logData()'s main loop, for any number of buffers, of records in a block *)
(* and of blocks in a file.  Its types and the ownership of its buffers:   *)
(* the two queues and the current block are first considered as values,    *)
(* three lemmas say what taking, queueing and recycling a buffer do to     *)
(* them, and the steps of the loop are combinations of the three.  Its     *)
(* records: they reach the card once and in order, the summary counts      *)
(* them, and the loop implements LogStream.                                *)
(***************************************************************************)
EXTENDS LogBuffersProps, DataLemmas

-----------------------------------------------------------------------------
(* Indices of a queue. *)

\* queueNext() stays in the queue.
LEMMA QueueNextType ==
    ASSUME NEW i \in Slots
    PROVE  queueNext(i) \in Slots
  BY SizesAssumption DEF Slots, QueueDim, queueNext

\* The head moves over the slot it pointed to, which was free.
LEMMA HeadAdvances ==
    ASSUME NEW h \in Slots, NEW t \in Slots, QueueLen(h, t) < QueueDim - 1
    PROVE  /\ \A i \in Slots : i \in Live(queueNext(h), t) <=> i \in Live(h, t) \/ i = h
           /\ h \notin Live(h, t)
           /\ QueueLen(queueNext(h), t) = QueueLen(h, t) + 1
<1> USE SizesAssumption DEF Slots, QueueDim, queueNext
<1>1. \A i \in Slots : i \in Live(queueNext(h), t) <=> i \in Live(h, t) \/ i = h
  BY DEF QueueLen, Live
<1>2. h \notin Live(h, t)
  BY DEF Live
<1>3. QueueLen(queueNext(h), t) = QueueLen(h, t) + 1
  BY DEF QueueLen
<1>4. QED
  BY <1>1, <1>2, <1>3

\* The tail moves over the slot it pointed to, which was the oldest in use.
LEMMA TailAdvances ==
    ASSUME NEW h \in Slots, NEW t \in Slots, h # t
    PROVE  /\ \A i \in Slots : i \in Live(h, queueNext(t)) <=> i \in Live(h, t) /\ i # t
           /\ t \in Live(h, t)
           /\ QueueLen(h, queueNext(t)) = QueueLen(h, t) - 1
<1> USE SizesAssumption DEF Slots, QueueDim, queueNext
<1>1. \A i \in Slots : i \in Live(h, queueNext(t)) <=> i \in Live(h, t) /\ i # t
  BY DEF Live
<1>2. t \in Live(h, t)
  BY DEF Live
<1>3. QueueLen(h, queueNext(t)) = QueueLen(h, t) - 1
  BY DEF QueueLen
<1>4. QED
  BY <1>1, <1>2, <1>3

\* The length of a queue is less than its slots, and zero only if its ends meet.
LEMMA QueueLenType ==
    ASSUME NEW h \in Slots, NEW t \in Slots
    PROVE  /\ QueueLen(h, t) \in 0 .. QueueDim - 1
           /\ h # t => QueueLen(h, t) > 0
  BY SizesAssumption DEF Slots, QueueDim, QueueLen

\* Live slots are slots.
LEMMA LiveSlots ==
    ASSUME NEW h, NEW t
    PROVE  Live(h, t) \subseteq Slots
  BY DEF Live

-----------------------------------------------------------------------------
(* The buffers as values: an empty queue eq between et and eh, a full queue *)
(* fq between ft and fh, and a current buffer, which hold n buffers in all. *)

QueuesTyped(eq, eh, et, fq, fh, ft, cur) ==
    /\ eq \in [Slots -> Buffers \cup {NoBlock}]
    /\ fq \in [Slots -> Buffers \cup {NoBlock}]
    /\ eh \in Slots /\ et \in Slots /\ fh \in Slots /\ ft \in Slots
    /\ cur \in Buffers \cup {NoBlock}

Disjoint(eq, eh, et, fq, fh, ft, cur) ==
    /\ \A i, j \in Live(eh, et) : eq[i] = eq[j] => i = j
    /\ \A i, j \in Live(fh, ft) : fq[i] = fq[j] => i = j
    /\ \A i \in Live(eh, et), j \in Live(fh, ft) : eq[i] # fq[j]
    /\ \A i \in Live(eh, et) : eq[i] \notin {cur, NoBlock}
    /\ \A j \in Live(fh, ft) : fq[j] \notin {cur, NoBlock}

Held(eh, et, fh, ft, cur) ==
    QueueLen(eh, et) + QueueLen(fh, ft) + (IF cur = NoBlock THEN 0 ELSE 1)

Covered(eq, eh, et, fq, fh, ft, cur) ==
    \A b \in Buffers :
        \/ cur = b
        \/ \E i \in Live(eh, et) : eq[i] = b
        \/ \E j \in Live(fh, ft) : fq[j] = b

QueuesOK(eq, eh, et, fq, fh, ft, cur, n) ==
    /\ QueuesTyped(eq, eh, et, fq, fh, ft, cur)
    /\ Disjoint(eq, eh, et, fq, fh, ft, cur)
    /\ Held(eh, et, fh, ft, cur) = n

\* No buffer is the null pointer.
LEMMA NoBlockNotBuffer == NoBlock \notin Buffers
  BY DEF NoBlock, Buffers

\* The oldest empty buffer becomes the current one.
LEMMA TakeEmpty ==
    ASSUME NEW eq, NEW eh, NEW et, NEW fq, NEW fh, NEW ft, NEW n,
           QueuesOK(eq, eh, et, fq, fh, ft, NoBlock, n), eh # et
    PROVE  /\ eq[et] \in Buffers
           /\ QueuesOK(eq, eh, queueNext(et), fq, fh, ft, eq[et], n)
           /\ Covered(eq, eh, et, fq, fh, ft, NoBlock)
                => Covered(eq, eh, queueNext(et), fq, fh, ft, eq[et])
<1>1. /\ QueuesTyped(eq, eh, et, fq, fh, ft, NoBlock)
      /\ Disjoint(eq, eh, et, fq, fh, ft, NoBlock)
      /\ Held(eh, et, fh, ft, NoBlock) = n
  BY DEF QueuesOK
<1>2. eh \in Slots /\ et \in Slots /\ fh \in Slots /\ ft \in Slots
  BY <1>1 DEF QueuesTyped
<1>3. /\ \A i \in Live(eh, queueNext(et)) : i \in Live(eh, et) /\ i # et
      /\ \A i \in Live(eh, et) : i # et => i \in Live(eh, queueNext(et))
      /\ et \in Live(eh, et)
      /\ QueueLen(eh, queueNext(et)) = QueueLen(eh, et) - 1
  BY <1>2, TailAdvances, LiveSlots
<1>4. eq[et] \in Buffers
  BY <1>1, <1>2, <1>3 DEF QueuesTyped, Disjoint
<1>5. QueuesTyped(eq, eh, queueNext(et), fq, fh, ft, eq[et])
  BY <1>1, <1>2, <1>4, QueueNextType DEF QueuesTyped
<1>6. Disjoint(eq, eh, queueNext(et), fq, fh, ft, eq[et])
  BY <1>1, <1>3 DEF Disjoint
<1>7. Held(eh, queueNext(et), fh, ft, eq[et]) = n
  <2>1. eq[et] # NoBlock
    BY <1>4, NoBlockNotBuffer
  <2>2. QueueLen(eh, et) \in Int /\ QueueLen(fh, ft) \in Int
    BY <1>2, QueueLenType, SizesAssumption DEF QueueDim
  <2>3. QED
    BY <1>1, <1>3, <2>1, <2>2 DEF Held
<1>8. ASSUME Covered(eq, eh, et, fq, fh, ft, NoBlock)
      PROVE  Covered(eq, eh, queueNext(et), fq, fh, ft, eq[et])
  BY <1>3, <1>8, NoBlockNotBuffer DEF Covered
<1>9. QED
  BY <1>4, <1>5, <1>6, <1>7, <1>8 DEF QueuesOK

\* The current buffer goes to the full queue.
LEMMA PushCurrent ==
    ASSUME NEW eq, NEW eh, NEW et, NEW fq, NEW fh, NEW ft, NEW cur \in Buffers,
           QueuesOK(eq, eh, et, fq, fh, ft, cur, BufferBlockCount + 1)
    PROVE  LET fq2 == [fq EXCEPT ![fh] = cur] IN
           /\ QueuesOK(eq, eh, et, fq2, queueNext(fh), ft, NoBlock, BufferBlockCount + 1)
           /\ Covered(eq, eh, et, fq, fh, ft, cur)
                => Covered(eq, eh, et, fq2, queueNext(fh), ft, NoBlock)
<1> DEFINE fq2 == [fq EXCEPT ![fh] = cur]
<1>1. /\ QueuesTyped(eq, eh, et, fq, fh, ft, cur)
      /\ Disjoint(eq, eh, et, fq, fh, ft, cur)
      /\ Held(eh, et, fh, ft, cur) = BufferBlockCount + 1
  BY DEF QueuesOK
<1>2. eh \in Slots /\ et \in Slots /\ fh \in Slots /\ ft \in Slots
  BY <1>1 DEF QueuesTyped
<1>3. QueueLen(eh, et) \in Nat /\ QueueLen(fh, ft) \in Nat
  BY <1>2, QueueLenType, SizesAssumption DEF QueueDim
<1>4. cur # NoBlock
  BY NoBlockNotBuffer
<1>5. QueueLen(fh, ft) < QueueDim - 1
  BY <1>1, <1>3, <1>4, SizesAssumption DEF Held, QueueDim
<1>6. /\ \A j \in Live(queueNext(fh), ft) : j \in Live(fh, ft) \/ j = fh
      /\ \A j \in Live(fh, ft) : j \in Live(queueNext(fh), ft)
      /\ fh \in Live(queueNext(fh), ft)
      /\ fh \notin Live(fh, ft)
      /\ QueueLen(queueNext(fh), ft) = QueueLen(fh, ft) + 1
  BY <1>2, <1>5, HeadAdvances, LiveSlots
<1>7. fq2[fh] = cur /\ \A j \in Live(fh, ft) : fq2[j] = fq[j]
  BY <1>1, <1>2, <1>6, LiveSlots DEF QueuesTyped
<1>8. fq2 \in [Slots -> Buffers \cup {NoBlock}]
  BY <1>1 DEF QueuesTyped
<1> HIDE DEF fq2
<1>9. QueuesTyped(eq, eh, et, fq2, queueNext(fh), ft, NoBlock)
  BY <1>1, <1>2, <1>8, QueueNextType DEF QueuesTyped
<1>10. Disjoint(eq, eh, et, fq2, queueNext(fh), ft, NoBlock)
  BY <1>1, <1>4, <1>6, <1>7 DEF Disjoint
<1>11. Held(eh, et, queueNext(fh), ft, NoBlock) = BufferBlockCount + 1
  BY <1>1, <1>3, <1>4, <1>6 DEF Held
<1>12. ASSUME Covered(eq, eh, et, fq, fh, ft, cur)
       PROVE  Covered(eq, eh, et, fq2, queueNext(fh), ft, NoBlock)
  BY <1>6, <1>7, <1>12 DEF Covered
<1>13. QED
  BY <1>9, <1>10, <1>11, <1>12 DEF QueuesOK, fq2

\* The oldest full buffer leaves the full queue.
LEMMA DropFull ==
    ASSUME NEW eq, NEW eh, NEW et, NEW fq, NEW fh, NEW ft, NEW cur, NEW n \in Int,
           QueuesOK(eq, eh, et, fq, fh, ft, cur, n), fh # ft
    PROVE  /\ fq[ft] \in Buffers
           /\ QueuesOK(eq, eh, et, fq, fh, queueNext(ft), cur, n - 1)
<1>1. /\ QueuesTyped(eq, eh, et, fq, fh, ft, cur)
      /\ Disjoint(eq, eh, et, fq, fh, ft, cur)
      /\ Held(eh, et, fh, ft, cur) = n
  BY DEF QueuesOK
<1>2. eh \in Slots /\ et \in Slots /\ fh \in Slots /\ ft \in Slots
  BY <1>1 DEF QueuesTyped
<1>3. /\ \A j \in Live(fh, queueNext(ft)) : j \in Live(fh, ft) /\ j # ft
      /\ ft \in Live(fh, ft)
      /\ QueueLen(fh, queueNext(ft)) = QueueLen(fh, ft) - 1
  BY <1>2, TailAdvances, LiveSlots
<1>4. fq[ft] \in Buffers
  BY <1>1, <1>2, <1>3 DEF QueuesTyped, Disjoint
<1>5. QueuesTyped(eq, eh, et, fq, fh, queueNext(ft), cur)
  BY <1>1, <1>2, QueueNextType DEF QueuesTyped
<1>6. Disjoint(eq, eh, et, fq, fh, queueNext(ft), cur)
  BY <1>1, <1>3 DEF Disjoint
<1>7. Held(eh, et, fh, queueNext(ft), cur) = n - 1
  <2>1. QueueLen(eh, et) \in Int /\ QueueLen(fh, ft) \in Int
    BY <1>2, QueueLenType, SizesAssumption DEF QueueDim
  <2>2. QED
    BY <1>1, <1>3, <2>1 DEF Held
<1>8. QED
  BY <1>4, <1>5, <1>6, <1>7 DEF QueuesOK

\* The buffer written goes back to the empty queue.
LEMMA RecycleFull ==
    ASSUME NEW eq, NEW eh, NEW et, NEW fq, NEW fh, NEW ft, NEW cur,
           QueuesOK(eq, eh, et, fq, fh, ft, cur, BufferBlockCount + 1), fh # ft
    PROVE  LET eq2 == [eq EXCEPT ![eh] = fq[ft]] IN
           /\ QueuesOK(eq2, queueNext(eh), et, fq, fh, queueNext(ft), cur,
                       BufferBlockCount + 1)
           /\ Covered(eq, eh, et, fq, fh, ft, cur)
                => Covered(eq2, queueNext(eh), et, fq, fh, queueNext(ft), cur)
<1> DEFINE eq2 == [eq EXCEPT ![eh] = fq[ft]]
<1>1. /\ QueuesTyped(eq, eh, et, fq, fh, ft, cur)
      /\ Disjoint(eq, eh, et, fq, fh, ft, cur)
      /\ Held(eh, et, fh, ft, cur) = BufferBlockCount + 1
  BY DEF QueuesOK
<1>2. eh \in Slots /\ et \in Slots /\ fh \in Slots /\ ft \in Slots
  BY <1>1 DEF QueuesTyped
<1>3. QueueLen(eh, et) \in Nat /\ QueueLen(fh, ft) \in Nat /\ QueueLen(fh, ft) > 0
  BY <1>2, QueueLenType, SizesAssumption DEF QueueDim
<1>4. QueueLen(eh, et) < QueueDim - 1
  BY <1>1, <1>3, SizesAssumption DEF Held, QueueDim
<1>5. /\ \A i \in Live(queueNext(eh), et) : i \in Live(eh, et) \/ i = eh
      /\ \A i \in Live(eh, et) : i \in Live(queueNext(eh), et)
      /\ eh \in Live(queueNext(eh), et)
      /\ eh \notin Live(eh, et)
      /\ QueueLen(queueNext(eh), et) = QueueLen(eh, et) + 1
  BY <1>2, <1>4, HeadAdvances, LiveSlots
<1>6. /\ \A j \in Live(fh, queueNext(ft)) : j \in Live(fh, ft) /\ j # ft
      /\ \A j \in Live(fh, ft) : j # ft => j \in Live(fh, queueNext(ft))
      /\ ft \in Live(fh, ft)
      /\ QueueLen(fh, queueNext(ft)) = QueueLen(fh, ft) - 1
  BY <1>2, TailAdvances, LiveSlots
<1>7. fq[ft] \in Buffers /\ fq[ft] \notin {cur, NoBlock}
  BY <1>1, <1>2, <1>6 DEF QueuesTyped, Disjoint
<1>8. eq2[eh] = fq[ft] /\ \A i \in Live(eh, et) : eq2[i] = eq[i]
  BY <1>1, <1>2, <1>5, LiveSlots DEF QueuesTyped
<1>9. eq2 \in [Slots -> Buffers \cup {NoBlock}]
  BY <1>1, <1>7 DEF QueuesTyped
<1> HIDE DEF eq2
<1>10. QueuesTyped(eq2, queueNext(eh), et, fq, fh, queueNext(ft), cur)
  BY <1>1, <1>2, <1>9, QueueNextType DEF QueuesTyped
<1>11. Disjoint(eq2, queueNext(eh), et, fq, fh, queueNext(ft), cur)
  BY <1>1, <1>5, <1>6, <1>7, <1>8 DEF Disjoint
<1>12. Held(queueNext(eh), et, fh, queueNext(ft), cur) = BufferBlockCount + 1
  BY <1>1, <1>3, <1>5, <1>6 DEF Held
<1>13. ASSUME Covered(eq, eh, et, fq, fh, ft, cur)
       PROVE  Covered(eq2, queueNext(eh), et, fq, fh, queueNext(ft), cur)
  BY <1>5, <1>6, <1>8, <1>13 DEF Covered
<1>14. QED
  BY <1>10, <1>11, <1>12, <1>13 DEF QueuesOK, eq2

-----------------------------------------------------------------------------
(* The inductive invariant: besides its type, a state has its queues in order. *)

QueuesNow(n) ==
    QueuesOK(emptyQueue, emptyHead, emptyTail, fullQueue, fullHead, fullTail, curBlock, n)
CoveredNow ==
    Covered(emptyQueue, emptyHead, emptyTail, fullQueue, fullHead, fullTail, curBlock)

\* A failed write keeps its buffer: it is the only way to hold one fewer.
OwnershipInv ==
    IF pc = "writeFailed" THEN QueuesNow(BufferBlockCount)
    ELSE QueuesNow(BufferBlockCount + 1) /\ CoveredNow

LogInv == TypeOK /\ OwnershipInv

\* The invariant of the queues says that each buffer is in one place.
LEMMA LogInvOwns == LogInv => NoSharedBlock /\ NoLeakedBlock
  BY DEF LogInv, OwnershipInv, QueuesNow, CoveredNow, QueuesOK, Disjoint, Covered,
         NoSharedBlock, NoLeakedBlock, EmptySlots, FullSlots

\* The part of Init that fills the queues.
LEMMA InitQueues ==
    ASSUME Init
    PROVE  /\ emptyQueue = [i \in Slots |-> IF i \in Buffers THEN i ELSE NoBlock]
           /\ emptyHead = BufferBlockCount + 1 /\ emptyTail = 0
           /\ fullQueue = [i \in Slots |-> NoBlock]
           /\ fullHead = 0 /\ fullTail = 0
           /\ curBlock = NoBlock
           /\ pc = "wait"
  BY Zenon DEF Init

\* The queues logData() sets up are queues,
LEMMA InitQueuesTyped ==
    ASSUME Init
    PROVE  QueuesTyped(emptyQueue, emptyHead, emptyTail, fullQueue, fullHead,
                       fullTail, curBlock)
<1>1. emptyQueue \in [Slots -> Buffers \cup {NoBlock}]
  BY InitQueues
<1>2. fullQueue \in [Slots -> Buffers \cup {NoBlock}]
  BY InitQueues
<1>3. 0 \in Slots /\ BufferBlockCount + 1 \in Slots
  BY SizesAssumption DEF Slots, QueueDim
<1>4. QED
  BY <1>1, <1>2, <1>3, InitQueues DEF QueuesTyped

\* every variable has its type at first,
LEMMA InitTyped == Init => TypeOK
<1> SUFFICES ASSUME Init PROVE TypeOK
  OBVIOUS
<1>1. block \in [Buffers -> Blocks]
  <2>1. [count |-> 0, overrun |-> 0, data |-> [i \in 1 .. DataDim |-> 0]] \in Blocks
    BY SizesAssumption, WidthsAssumption, BoundsAssumption DEF Blocks, Records
  <2>2. block = [b \in Buffers |->
                   [count |-> 0, overrun |-> 0, data |-> [i \in 1 .. DataDim |-> 0]]]
    BY Zenon DEF Init
  <2>3. QED
    BY <2>1, <2>2
<1>2. /\ fifo = <<>> /\ serial = <<>> /\ card = <<>> /\ acquired = <<>> /\ lost = {}
      /\ closeFile = FALSE /\ errorLed = TRUE /\ cardBusy = FALSE
      /\ silence = FALSE /\ requestDue = FALSE /\ busQuiet = FALSE
      /\ serialInput = " "
  BY Zenon DEF Init
<1>3. /\ fifo \in Seq(Messages) /\ serial \in Seq(Chars) /\ card \in Seq(Blocks)
      /\ acquired \in Seq(Messages) /\ lost \subseteq Messages
      /\ closeFile \in BOOLEAN /\ errorLed \in BOOLEAN /\ cardBusy \in BOOLEAN
      /\ silence \in BOOLEAN /\ requestDue \in BOOLEAN /\ busQuiet \in BOOLEAN
      /\ serialInput \in Chars \cup {" "}
  BY <1>2, EmptySeq
<1>4. /\ overrun = 0 /\ overrunTotal = 0 /\ count = 0 /\ pgnIndex = 0
      /\ sentIndex = 0 /\ arrived = 0 /\ spins = 0 /\ typed = 0 /\ expired = 0
  BY Zenon DEF Init
<1>5. /\ overrun \in 0 .. Uint32 - 1 /\ overrunTotal \in 0 .. Uint32 - 1
      /\ count \in 0 .. Uint32 - 1 /\ spins \in 0 .. Uint16 - 1
      /\ pgnIndex \in 0 .. NumRequests /\ sentIndex \in 0 .. NumRequests
      /\ arrived \in 0 .. MaxArrivals /\ typed \in 0 .. MaxKeys
      /\ expired \in 0 .. MaxRequests
  BY <1>4, SizesAssumption, WidthsAssumption, BoundsAssumption
<1>6. curBlock \in Buffers \cup {NoBlock} /\ curBlock = NoBlock /\ pc \in Pcs
  BY InitQueues DEF Pcs
<1>7. QED
  BY <1>1, <1>3, <1>5, <1>6, InitQueuesTyped, Zenon DEF TypeOK, QueuesTyped

\* and every buffer is in the empty queue.
LEMMA InitOwned == Init => OwnershipInv
<1> SUFFICES ASSUME Init PROVE OwnershipInv
  OBVIOUS
<1>1. Live(emptyHead, emptyTail) = Buffers
  <2>1. Live(BufferBlockCount + 1, 0) = Buffers
    BY SizesAssumption DEF Live, Slots, QueueDim, Buffers
  <2>2. QED
    BY <2>1, InitQueues
<1>2. Live(fullHead, fullTail) = {}
  <2>1. Live(0, 0) = {}
    BY SizesAssumption DEF Live, Slots, QueueDim
  <2>2. QED
    BY <2>1, InitQueues
<1>3. \A i \in Buffers : emptyQueue[i] = i
  <2>1. Buffers \subseteq Slots
    BY SizesAssumption DEF Buffers, Slots, QueueDim
  <2>2. QED
    BY <2>1, InitQueues
<1>4. Disjoint(emptyQueue, emptyHead, emptyTail, fullQueue, fullHead, fullTail, curBlock)
  BY <1>1, <1>2, <1>3, InitQueues, NoBlockNotBuffer DEF Disjoint
<1>5. CoveredNow
  BY <1>1, <1>2, <1>3 DEF CoveredNow, Covered
<1>6. Held(emptyHead, emptyTail, fullHead, fullTail, curBlock) = BufferBlockCount + 1
  <2>1. QueueLen(BufferBlockCount + 1, 0) = BufferBlockCount + 1 /\ QueueLen(0, 0) = 0
    BY SizesAssumption DEF QueueLen
  <2>2. Held(BufferBlockCount + 1, 0, 0, 0, NoBlock) = BufferBlockCount + 1
    BY <2>1, SizesAssumption DEF Held
  <2>3. QED
    BY <2>2, InitQueues
<1>7. QED
  BY <1>4, <1>5, <1>6, InitQueues, InitQueuesTyped DEF OwnershipInv, QueuesNow, QueuesOK

-----------------------------------------------------------------------------
(* Every step keeps the queues in order. *)

\* A step that leaves the queues alone keeps who holds what.
LEMMA OwnershipKept ==
    ASSUME OwnershipInv, UNCHANGED queueVars, curBlock' = curBlock,
           pc' = pc \/ (pc # "writeFailed" /\ pc' # "writeFailed")
    PROVE  OwnershipInv'
  BY DEF OwnershipInv, QueuesNow, CoveredNow, queueVars

\* The buffer that FillBlock fills, before it is perhaps queued: taken from the
\* empty queue or still the current one.
LEMMA PassBlockOwned ==
    ASSUME OwnershipInv, FillBlock
    PROVE  /\ PassBlock \in Buffers
           /\ QueuesOK(emptyQueue, emptyHead, emptyTail', fullQueue, fullHead,
                       fullTail, PassBlock, BufferBlockCount + 1)
           /\ Covered(emptyQueue, emptyHead, emptyTail', fullQueue, fullHead,
                      fullTail, PassBlock)
<1>1. QueuesNow(BufferBlockCount + 1) /\ CoveredNow
  BY DEF OwnershipInv, FillBlock
<1>2. CASE curBlock # NoBlock
  <2>1. PassBlock = curBlock /\ emptyTail' = emptyTail
    BY <1>2 DEF PassBlock, FillBlock
  <2>2. curBlock \in Buffers
    BY <1>1, <1>2 DEF QueuesNow, QueuesOK, QueuesTyped
  <2>3. QED
    BY <1>1, <2>1, <2>2 DEF QueuesNow, CoveredNow
<1>3. CASE curBlock = NoBlock
  <2>1. /\ PassBlock = emptyQueue[emptyTail] /\ emptyTail' = queueNext(emptyTail)
        /\ emptyHead # emptyTail
    BY <1>3 DEF PassBlock, FillBlock
  <2>2. QED
    BY <1>1, <1>3, <2>1, TakeEmpty DEF QueuesNow, CoveredNow
<1>4. QED
  BY <1>2, <1>3

\* So does every step of the loop.
LEMMA OwnershipNext ==
    ASSUME OwnershipInv, [Next]_vars
    PROVE  OwnershipInv'
<1>1. CASE Environment
  BY <1>1, OwnershipKept
     DEF Environment, MessageArrives, BusGoesQuiet, SilenceExpires, RequestExpires,
         TypeCharacter, CardReady, fillVars
<1>2. CASE \/ SetTimeWhileWaiting \/ FirstMessage \/ PollSerial \/ CountOverrun
           \/ SkipDrain \/ ExitLoop \/ CloseLog \/ CloseFails
  BY <1>2, OwnershipKept
     DEF SetTimeWhileWaiting, FirstMessage, PollSerial, CountOverrun, SkipDrain,
         ExitLoop, CloseLog, CloseFails, fillVars
<1>3. CASE FlushCurBlock
  <2>1. QueuesNow(BufferBlockCount + 1) /\ CoveredNow /\ pc' = "drain"
    BY <1>3 DEF OwnershipInv, FlushCurBlock
  <2>2. UNCHANGED <<emptyQueue, emptyHead, emptyTail, fullTail>>
    BY <1>3 DEF FlushCurBlock
  <2>3. CASE curBlock = NoBlock
    BY <1>3, <2>3, OwnershipKept DEF FlushCurBlock, queueVars
  <2>4. CASE curBlock # NoBlock
    <3>1. curBlock \in Buffers
      BY <2>1, <2>4 DEF QueuesNow, QueuesOK, QueuesTyped
    <3>2. /\ fullQueue' = [fullQueue EXCEPT ![fullHead] = curBlock]
          /\ fullHead' = queueNext(fullHead)
          /\ curBlock' = NoBlock
      BY <1>3, <2>4 DEF FlushCurBlock, Flush, PushFull
    <3>3. QED
      BY <2>1, <2>2, <3>1, <3>2, PushCurrent DEF OwnershipInv, QueuesNow, CoveredNow
  <2>5. QED
    BY <2>3, <2>4
<1>4. CASE FillBlock
  <2>1. UNCHANGED <<emptyQueue, emptyHead, fullTail>> /\ pc' = "drain"
    BY <1>4 DEF FillBlock
  <2>2. CASE Filled.count >= DataDim
    <3>1. /\ fullQueue' = [fullQueue EXCEPT ![fullHead] = PassBlock]
          /\ fullHead' = queueNext(fullHead)
          /\ curBlock' = NoBlock
      BY <1>4, <2>2 DEF FillBlock, PushFull
    <3>2. QED
      BY <1>4, <2>1, <3>1, PassBlockOwned, PushCurrent
         DEF OwnershipInv, QueuesNow, CoveredNow
  <2>3. CASE ~(Filled.count >= DataDim)
    <3>1. UNCHANGED <<fullQueue, fullHead>> /\ curBlock' = PassBlock
      BY <1>4, <2>3 DEF FillBlock
    <3>2. QED
      BY <1>4, <2>1, <3>1, PassBlockOwned DEF OwnershipInv, QueuesNow, CoveredNow
  <2>4. QED
    BY <2>2, <2>3
<1>5. CASE WriteBlock
  <2>1. /\ QueuesNow(BufferBlockCount + 1) /\ CoveredNow /\ fullHead # fullTail
        /\ pc' # "writeFailed"
    BY <1>5 DEF OwnershipInv, WriteBlock
  <2>2. /\ emptyQueue' = [emptyQueue EXCEPT ![emptyHead] = fullQueue[fullTail]]
        /\ emptyHead' = queueNext(emptyHead) /\ fullTail' = queueNext(fullTail)
        /\ UNCHANGED <<emptyTail, fullQueue, fullHead, curBlock>>
    BY <1>5 DEF WriteBlock, NextToWrite, Recycle, fillVars
  <2>3. QED
    BY <2>1, <2>2, RecycleFull DEF OwnershipInv, QueuesNow, CoveredNow
<1>6. CASE WriteFails
  <2>1. /\ QueuesNow(BufferBlockCount + 1) /\ fullHead # fullTail
        /\ pc' = "writeFailed" /\ fullTail' = queueNext(fullTail)
        /\ UNCHANGED <<emptyQueue, emptyHead, emptyTail, fullQueue, fullHead, curBlock>>
    BY <1>6 DEF OwnershipInv, WriteFails, fillVars
  <2>2. BufferBlockCount + 1 \in Int /\ (BufferBlockCount + 1) - 1 = BufferBlockCount
    BY SizesAssumption
  <2>3. QED
    BY <2>1, <2>2, DropFull DEF OwnershipInv, QueuesNow
<1>7. CASE UNCHANGED vars
  BY <1>7, OwnershipKept DEF vars, fillVars
<1>8. QED
  BY <1>1, <1>2, <1>3, <1>4, <1>5, <1>6, <1>7 DEF Next, LoopStep, Stopped

-----------------------------------------------------------------------------
(* Every step keeps the types. *)

\* A remainder is less than its divisor,
LEMMA ModType ==
    ASSUME NEW x \in Nat, NEW m \in Nat \ {0}
    PROVE  x % m \in 0 .. m - 1
  OBVIOUS

\* a count below its limit can grow by one,
LEMMA Bump ==
    ASSUME NEW m \in Nat, NEW n \in 0 .. m, n < m
    PROVE  n + 1 \in 0 .. m
  OBVIOUS

\* sums are numbers,
LEMMA SumType ==
    ASSUME NEW m \in Nat, NEW n \in 0 .. m - 1, NEW k \in Nat
    PROVE  n + k \in Nat
  OBVIOUS

\* and the widths of the counters are positive.
LEMMA Widths == Uint16 \in Nat \ {0} /\ Uint32 \in Nat \ {0}
<1>1. Uint16 \in Nat /\ Uint16 > DataDim /\ Uint32 \in Nat \ {0}
  BY Zenon, WidthsAssumption
<1>2. QED
  BY <1>1, SizesAssumption

\* The block being filled, as it is opened and with the message just read.
LEMMA OpenedTyped ==
    ASSUME TypeOK, OwnershipInv, FillBlock
    PROVE  Opened \in Blocks /\ Opened.count < DataDim
<1>1. PassBlock \in Buffers
  BY PassBlockOwned
<1>2. block[PassBlock] \in Blocks
  BY <1>1 DEF TypeOK
<1>3. CASE curBlock # NoBlock
  <2>1. Opened = block[PassBlock] /\ PassBlock = curBlock
    BY <1>3 DEF Opened, PassBlock
  <2>2. QED
    BY <1>2, <1>3, <2>1 DEF TypeOK
<1>4. CASE curBlock = NoBlock
  <2>1. Opened = [block[PassBlock] EXCEPT !.count = 0, !.overrun = overrun % Uint16]
    BY <1>4 DEF Opened
  <2>2. overrun % Uint16 \in 0 .. Uint16 - 1
    <3>1. overrun \in 0 .. Uint32 - 1
      BY Zenon DEF TypeOK
    <3>2. overrun \in Nat
      BY <3>1, Widths
    <3>3. QED
      BY <3>2, Widths, ModType
  <2>3. 0 \in 0 .. DataDim /\ 0 < DataDim
    BY SizesAssumption
  <2>4. QED
    BY <1>2, <2>1, <2>2, <2>3 DEF Blocks
<1>5. QED
  BY <1>3, <1>4

\* The block filled is a block: its data has room for the record.
LEMMA FilledTyped ==
    ASSUME TypeOK, OwnershipInv, FillBlock
    PROVE  Filled \in Blocks
<1>1. Opened \in Blocks /\ Opened.count < DataDim
  BY OpenedTyped
<1>2. CASE fifo = <<>>
  BY <1>1, <1>2 DEF Filled
<1>3. CASE fifo # <<>>
  <2>1. Head(fifo) \in Records
    <3>1. Head(fifo) \in Messages
      BY <1>3, HeadTailProperties DEF TypeOK
    <3>2. QED
      BY <3>1, BoundsAssumption DEF Messages, Records
  <2>2. Filled = [Opened EXCEPT !.count = @ + 1, !.data[Opened.count + 1] = Head(fifo)]
    BY <1>3 DEF Filled
  <2>3. /\ Opened.count \in 0 .. DataDim /\ Opened.overrun \in 0 .. Uint16 - 1
        /\ Opened.data \in [1 .. DataDim -> Records]
    BY <1>1 DEF Blocks
  <2>4. Opened.count + 1 \in 0 .. DataDim
    BY <1>1, <2>3, SizesAssumption
  <2>5. QED
    BY <1>1, <2>1, <2>2, <2>3, <2>4 DEF Blocks
<1>4. QED
  BY <1>2, <1>3

\* Steps outside the loop keep the types,
LEMMA EnvironmentTyped ==
    ASSUME TypeOK, Environment
    PROVE  TypeOK'
<1>1. CASE MessageArrives
  <2>1. arrived' \in Messages /\ arrived' \in 0 .. MaxArrivals
    <3>1. arrived \in 0 .. MaxArrivals /\ arrived < MaxArrivals /\ arrived' = arrived + 1
      BY <1>1, Zenon DEF MessageArrives, TypeOK
    <3>2. arrived + 1 \in Messages /\ arrived + 1 \in 0 .. MaxArrivals
      BY <3>1, BoundsAssumption DEF Messages
    <3>3. QED
      BY <3>1, <3>2, Zenon
  <2>2. fifo' \in Seq(Messages)
    <3>1. fifo \in Seq(Messages)
      BY Zenon DEF TypeOK
    <3>2. Append(fifo, arrived') \in Seq(Messages)
      BY <2>1, <3>1, AppendProperties
    <3>3. fifo' = fifo \/ fifo' = Append(fifo, arrived')
      BY <1>1, Zenon DEF MessageArrives
    <3>4. QED
      BY <3>1, <3>2, <3>3, Zenon
  <2>3. lost' \subseteq Messages
    BY <1>1, <2>1 DEF MessageArrives, TypeOK
  <2>4. QED
    BY <1>1, <2>1, <2>2, <2>3
       DEF MessageArrives, TypeOK, queueVars, fillVars, drainVars
<1>2. CASE BusGoesQuiet
  BY <1>2 DEF BusGoesQuiet, TypeOK, queueVars, fillVars, drainVars
<1>3. CASE SilenceExpires
  BY <1>3 DEF SilenceExpires, TypeOK, queueVars, fillVars, drainVars
<1>4. CASE RequestExpires
  <2>1. expired' \in 0 .. MaxRequests
    <3>1. expired \in 0 .. MaxRequests /\ expired < MaxRequests /\ expired' = expired + 1
      BY <1>4, Zenon DEF RequestExpires, TypeOK
    <3>2. expired + 1 \in 0 .. MaxRequests
      BY <3>1, BoundsAssumption, Bump
    <3>3. QED
      BY <3>1, <3>2, Zenon
  <2>2. QED
    BY <1>4, <2>1 DEF RequestExpires, TypeOK, queueVars, fillVars, drainVars
<1>5. CASE TypeCharacter
  <2>1. typed' \in 0 .. MaxKeys
    <3>1. typed \in 0 .. MaxKeys /\ typed < MaxKeys /\ typed' = typed + 1
      BY <1>5, Zenon DEF TypeCharacter, TypeOK
    <3>2. typed + 1 \in 0 .. MaxKeys
      BY <3>1, BoundsAssumption, Bump
    <3>3. QED
      BY <3>1, <3>2, Zenon
  <2>2. serial' \in Seq(Chars)
    <3>1. serial \in Seq(Chars)
      BY Zenon DEF TypeOK
    <3>2. PICK c \in Chars : serial' = Append(serial, c)
      BY <1>5, Zenon DEF TypeCharacter
    <3>3. QED
      BY <3>1, <3>2, AppendProperties
  <2>3. QED
    BY <1>5, <2>1, <2>2 DEF TypeCharacter, TypeOK, queueVars, fillVars, drainVars
<1>6. CASE CardReady
  BY <1>6 DEF CardReady, TypeOK, queueVars, fillVars, portVars
<1>7. QED
  BY <1>1, <1>2, <1>3, <1>4, <1>5, <1>6 DEF Environment

\* and so do the passes that fill a block,
LEMMA FillTyped ==
    ASSUME TypeOK, OwnershipInv, FillBlock, OwnershipInv'
    PROVE  TypeOK'
<1>1. block' \in [Buffers -> Blocks]
  BY FilledTyped DEF FillBlock, TypeOK
<1>2. QueuesTyped(emptyQueue', emptyHead', emptyTail', fullQueue', fullHead',
                  fullTail', curBlock')
  BY DEF OwnershipInv, QueuesNow, QueuesOK
<1>3. curBlock' # NoBlock => block'[curBlock'].count < DataDim
  <2>1. SUFFICES ASSUME curBlock' # NoBlock PROVE block'[curBlock'].count < DataDim
    OBVIOUS
  <2>2. curBlock' = PassBlock /\ ~(Filled.count >= DataDim)
    BY <2>1 DEF FillBlock
  <2>3. PassBlock \in Buffers /\ block'[PassBlock] = Filled
    BY PassBlockOwned DEF FillBlock, TypeOK
  <2>4. Filled.count \in Nat /\ DataDim \in Nat
    BY FilledTyped, SizesAssumption DEF Blocks
  <2>5. Filled.count < DataDim
    BY <2>2, <2>4
  <2>6. QED
    BY <2>2, <2>3, <2>5
<1>4. fifo' \in Seq(Messages) /\ acquired' \in Seq(Messages)
  <2>1. CASE fifo = <<>>
    BY <2>1 DEF FillBlock, ReadBus, TypeOK
  <2>2. CASE fifo # <<>>
    <3>1. Head(fifo) \in Messages /\ Tail(fifo) \in Seq(Messages)
      BY <2>2, HeadTailProperties DEF TypeOK
    <3>2. Append(acquired, Head(fifo)) \in Seq(Messages)
      BY <3>1, AppendProperties DEF TypeOK
    <3>3. QED
      BY <2>2, <3>1, <3>2 DEF FillBlock, ReadBus
  <2>3. QED
    BY <2>1, <2>2
<1>5. /\ silence' \in BOOLEAN /\ requestDue' \in BOOLEAN /\ closeFile' \in BOOLEAN
  BY Zenon DEF FillBlock, ReadBus, CheckSilence, SendRequest, TypeOK
<1>6. overrun' \in 0 .. Uint32 - 1
  <2>1. overrun' = overrun \/ overrun' = 0
    BY Zenon DEF FillBlock
  <2>2. overrun \in 0 .. Uint32 - 1
    BY Zenon DEF TypeOK
  <2>3. 0 \in 0 .. Uint32 - 1
    BY Widths
  <2>4. QED
    BY <2>1, <2>2, <2>3, Zenon
<1>7. pgnIndex' \in 0 .. NumRequests /\ sentIndex' \in 0 .. NumRequests
  <2>1. pgnIndex \in 0 .. NumRequests /\ sentIndex \in 0 .. NumRequests
    BY Zenon DEF TypeOK
  <2>2. (IF pgnIndex + 1 > NumRequests THEN 0 ELSE pgnIndex + 1) \in 0 .. NumRequests
    BY <2>1, SizesAssumption
  <2>3. \/ UNCHANGED <<pgnIndex, sentIndex>>
        \/ /\ sentIndex' = pgnIndex
           /\ pgnIndex' = IF pgnIndex + 1 > NumRequests THEN 0 ELSE pgnIndex + 1
    BY Zenon DEF FillBlock, SendRequest
  <2>4. QED
    BY <2>1, <2>2, <2>3, Zenon
<1>8. pc' \in Pcs
  BY DEF FillBlock, Pcs
<1>9. UNCHANGED <<serialInput, spins, drainVars, serial, arrived, lost, busQuiet,
                  typed, expired>>
  BY DEF FillBlock
<1>10. QED
  BY <1>1, <1>2, <1>3, <1>4, <1>5, <1>6, <1>7, <1>8, <1>9, Zenon
     DEF TypeOK, QueuesTyped, drainVars

\* those that write one,
LEMMA WriteTyped ==
    ASSUME TypeOK, OwnershipInv, WriteBlock, OwnershipInv'
    PROVE  TypeOK'
<1> DEFINE b == fullQueue[fullTail]
<1>1. b \in Buffers
  <2>1. QueuesNow(BufferBlockCount + 1) /\ fullHead # fullTail
    BY DEF OwnershipInv, WriteBlock
  <2>2. BufferBlockCount + 1 \in Int
    BY SizesAssumption
  <2>3. QED
    BY <2>1, <2>2, DropFull DEF QueuesNow
<1>2. block[b] \in Blocks /\ block[b].count \in Nat /\ block[b].overrun \in Nat
  <2>1. block[b] \in Blocks
    BY <1>1, Zenon DEF TypeOK
  <2>2. block[b].count \in 0 .. DataDim /\ block[b].overrun \in 0 .. Uint16 - 1
    BY <2>1 DEF Blocks
  <2>3. QED
    BY <2>1, <2>2, SizesAssumption, Widths
<1>3. card' \in Seq(Blocks)
  BY <1>2, AppendProperties DEF WriteBlock, NextToWrite, TypeOK
<1>4. count' \in 0 .. Uint32 - 1 /\ overrunTotal' \in 0 .. Uint32 - 1
  <2>1. count + block[b].count \in Nat /\ overrunTotal + block[b].overrun \in Nat
    <3>1. count \in 0 .. Uint32 - 1 /\ overrunTotal \in 0 .. Uint32 - 1
      BY Zenon DEF TypeOK
    <3>2. QED
      BY <1>2, <3>1, Widths, SumType
  <2>2. /\ count' = (count + block[b].count) % Uint32
        /\ overrunTotal' = (overrunTotal + block[b].overrun) % Uint32
    BY Zenon DEF WriteBlock, NextToWrite
  <2>3. /\ (count + block[b].count) % Uint32 \in 0 .. Uint32 - 1
        /\ (overrunTotal + block[b].overrun) % Uint32 \in 0 .. Uint32 - 1
    BY <2>1, ModType, Widths
  <2>4. QED
    BY <2>2, <2>3, Zenon
<1>5. errorLed' \in BOOLEAN
  BY Zenon DEF WriteBlock, NextToWrite
<1>6. QueuesTyped(emptyQueue', emptyHead', emptyTail', fullQueue', fullHead',
                  fullTail', curBlock')
  BY DEF OwnershipInv, QueuesNow, QueuesOK
<1>7. pc' \in Pcs /\ closeFile' \in BOOLEAN /\ cardBusy' \in BOOLEAN
  BY DEF WriteBlock, Pcs, TypeOK
<1>8. UNCHANGED <<serialInput, fillVars, portVars>>
  BY DEF WriteBlock
<1>9. QED
  BY <1>3, <1>4, <1>5, <1>6, <1>7, <1>8, Zenon
     DEF TypeOK, QueuesTyped, fillVars, portVars

\* those that find no buffer,
LEMMA OverrunTyped ==
    ASSUME TypeOK, CountOverrun
    PROVE  TypeOK'
<1>1. /\ overrun \in 0 .. Uint32 - 1 /\ spins \in 0 .. Uint16 - 1
      /\ overrun' = (overrun + 1) % Uint32 /\ spins' = (spins + 1) % Uint16
  BY Zenon DEF TypeOK, CountOverrun
<1>2. (overrun + 1) % Uint32 \in 0 .. Uint32 - 1 /\ (spins + 1) % Uint16 \in 0 .. Uint16 - 1
  BY <1>1, Widths, SumType, ModType
<1>3. overrun' \in 0 .. Uint32 - 1 /\ spins' \in 0 .. Uint16 - 1
  BY <1>1, <1>2, Zenon
<1>4. /\ UNCHANGED <<closeFile, serialInput, queueVars, curBlock, block, pgnIndex,
                     sentIndex, acquired, drainVars, portVars>>
      /\ pc' \in Pcs
  BY DEF CountOverrun, Pcs
<1>5. QED
  BY <1>3, <1>4, Zenon DEF TypeOK, queueVars, drainVars, portVars

\* The steps that read the serial port or the first message, and the end.
LEMMA PortsTyped ==
    ASSUME TypeOK,
           SetTimeWhileWaiting \/ FirstMessage \/ PollSerial \/ CloseLog \/ CloseFails
           \/ SkipDrain \/ ExitLoop
    PROVE  TypeOK'
<1>1. CASE SetTimeWhileWaiting
  <2>1. serial' \in Seq(Chars)
    <3>1. serial \in Seq(Chars)
      BY Zenon DEF TypeOK
    <3>2. PICK n \in 1 .. Len(serial) : serial' = SubSeq(serial, n + 1, Len(serial))
      BY <1>1, Zenon DEF SetTimeWhileWaiting
    <3>3. QED
      BY <3>1, <3>2, SubSeqProperties
  <2>2. QED
    BY <1>1, <2>1 DEF SetTimeWhileWaiting, TypeOK, queueVars, fillVars, drainVars
<1>2. CASE FirstMessage
  <2>1. fifo' \in Seq(Messages)
    BY <1>2, HeadTailProperties DEF FirstMessage, TypeOK
  <2>2. QED
    BY <1>2, <2>1 DEF FirstMessage, TypeOK, Pcs, queueVars, fillVars
<1>3. CASE PollSerial
  <2>1. serial \in Seq(Chars)
    BY Zenon DEF TypeOK
  <2>2. /\ serial' \in Seq(Chars) /\ serialInput' \in Chars \cup {" "}
        /\ closeFile' \in BOOLEAN
    <3>1. CASE serial = <<>>
      BY <1>3, <3>1 DEF PollSerial, TypeOK
    <3>2. CASE serial # <<>>
      BY <1>3, <2>1, <3>2, HeadTailProperties DEF PollSerial
    <3>3. QED
      BY <3>1, <3>2
  <2>3. QED
    BY <1>3, <2>2 DEF PollSerial, TypeOK, Pcs, queueVars, fillVars, drainVars
<1>4. CASE CloseLog
  <2>1. serial' \in Seq(Chars) /\ serialInput' \in Chars \cup {" "}
    BY <1>4, EmptySeq DEF CloseLog
  <2>2. QED
    BY <1>4, <2>1 DEF CloseLog, TypeOK, Pcs, queueVars, fillVars
<1>5. CASE CloseFails
  BY <1>5 DEF CloseFails, TypeOK, Pcs, queueVars, fillVars, drainVars, portVars
<1>6. CASE SkipDrain
  BY <1>6 DEF SkipDrain, TypeOK, Pcs, queueVars, fillVars, drainVars, portVars
<1>7. CASE ExitLoop
  BY <1>7 DEF ExitLoop, TypeOK, Pcs, queueVars, fillVars, drainVars, portVars
<1>8. QED
  BY <1>1, <1>2, <1>3, <1>4, <1>5, <1>6, <1>7

\* The steps that move a buffer out of the current block or the full queue.
LEMMA MovesTyped ==
    ASSUME TypeOK, OwnershipInv', FlushCurBlock \/ WriteFails
    PROVE  TypeOK'
<1>1. QueuesTyped(emptyQueue', emptyHead', emptyTail', fullQueue', fullHead',
                  fullTail', curBlock')
  BY DEF OwnershipInv, QueuesNow, QueuesOK
<1>2. CASE FlushCurBlock
  <2>1. curBlock' = NoBlock /\ pc' \in Pcs
    BY <1>2 DEF FlushCurBlock, Flush, Pcs
  <2>2. UNCHANGED <<closeFile, serialInput, block, overrun, pgnIndex, sentIndex,
                    acquired, spins, drainVars, portVars>>
    BY <1>2 DEF FlushCurBlock
  <2>3. QED
    BY <1>1, <2>1, <2>2, Zenon DEF TypeOK, QueuesTyped, drainVars, portVars
<1>3. CASE WriteFails
  <2>1. UNCHANGED <<closeFile, serialInput, fillVars, drainVars, portVars>> /\ pc' \in Pcs
    BY <1>3 DEF WriteFails, Pcs
  <2>2. QED
    BY <1>1, <2>1, Zenon DEF TypeOK, QueuesTyped, fillVars, drainVars, portVars
<1>4. QED
  BY <1>2, <1>3

\* and every step.
LEMMA TypeNext ==
    ASSUME TypeOK, OwnershipInv, [Next]_vars, OwnershipInv'
    PROVE  TypeOK'
<1>1. CASE Environment
  BY <1>1, EnvironmentTyped
<1>2. CASE LoopStep
  BY <1>2, PortsTyped, MovesTyped, OverrunTyped, FillTyped, WriteTyped DEF LoopStep
<1>3. CASE UNCHANGED vars
  BY <1>3, Zenon DEF TypeOK, vars, queueVars, fillVars, drainVars, portVars
<1>4. QED
  BY <1>1, <1>2, <1>3 DEF Next, Stopped

-----------------------------------------------------------------------------
(* The theorems. *)

\* In every reachable state of logData() the variables have their types and
\* the two block queues and the current block are in order: LogInv is
\* inductive.
THEOREM LogInvariant == Spec => []LogInv
<1>1. Init => LogInv
  BY InitTyped, InitOwned DEF LogInv
<1>2. LogInv /\ [Next]_vars => LogInv'
  BY OwnershipNext, TypeNext DEF LogInv
<1>3. QED
  BY <1>1, <1>2, PTL DEF Spec

\* The variables keep their types for any sizes of queue, block and file: an
\* index stays inside its queue, and the block being filled always has room for
\* the record that data[count++] writes into it.
THEOREM TypeCorrect == Spec => []TypeOK
<1>1. LogInv => TypeOK
  BY DEF LogInv
<1>2. QED
  BY <1>1, LogInvariant, PTL

\* No buffer is in two places at once, and none disappears: what the card is given
\* to write is never a block that messages are being recorded in, and until a write
\* fails logging never runs out of buffers for good, however many the sketch is
\* built with.
THEOREM BuffersOnce == Spec => []EveryBufferOnce
<1>1. LogInv => EveryBufferOnce
  BY LogInvOwns DEF EveryBufferOnce
<1>2. QED
  BY <1>1, LogInvariant, PTL

-----------------------------------------------------------------------------
(* The records of blocks one after the other. *)

\* The records of a block are as many as its count says.
LEMMA RecordsOfType ==
    ASSUME NEW b \in Blocks
    PROVE  RecordsOf(b) \in Seq(Records) /\ Len(RecordsOf(b)) = b.count
<1>1. b.count \in 0 .. DataDim /\ b.data \in [1 .. DataDim -> Records]
  BY DEF Blocks
<1>2. \A i \in 1 .. b.count : b.data[i] \in Records
  BY <1>1, SizesAssumption
<1>3. b.count \in Int /\ b.count >= 0
  BY <1>1, SizesAssumption
<1>4. QED
  BY <1>2, <1>3, SubSeqProperties DEF RecordsOf

\* A block opened has no records, and one that a message goes into has one more.
LEMMA RecordsOfEmpty ==
    ASSUME NEW b, b.count = 0
    PROVE  RecordsOf(b) = <<>>
  BY SubSeqEmpty DEF RecordsOf

\* data[count++] adds a record at the end.
LEMMA RecordsOfMore ==
    ASSUME NEW b \in Blocks, b.count < DataDim, NEW m \in Records,
           NEW c \in Blocks, c.count = b.count + 1,
           c.data = [b.data EXCEPT ![b.count + 1] = m]
    PROVE  RecordsOf(c) = Append(RecordsOf(b), m)
<1>1. /\ b.count \in 0 .. DataDim /\ b.data \in [1 .. DataDim -> Records]
      /\ c.data \in [1 .. DataDim -> Records]
  BY DEF Blocks
<1>2. b.count \in Nat /\ b.count + 1 \in 1 .. DataDim
  BY <1>1, SizesAssumption
<1>3. /\ RecordsOf(b) \in Seq(Records) /\ Len(RecordsOf(b)) = b.count
      /\ RecordsOf(c) \in Seq(Records) /\ Len(RecordsOf(c)) = b.count + 1
  BY RecordsOfType
<1>4. \A i \in 1 .. b.count : RecordsOf(b)[i] = b.data[i]
  BY <1>1, <1>2 DEF RecordsOf
<1>5. \A i \in 1 .. b.count + 1 : RecordsOf(c)[i] = c.data[i]
  BY <1>1, <1>2 DEF RecordsOf
<1>6. c.data[b.count + 1] = m /\ \A i \in 1 .. b.count : c.data[i] = b.data[i]
  <2>1. \A i \in 1 .. b.count : i \in 1 .. DataDim /\ i # b.count + 1
    BY <1>2, SizesAssumption
  <2>2. QED
    BY <1>1, <1>2, <2>1, Zenon
<1>7. \A i \in 1 .. b.count + 1 : RecordsOf(c)[i] = Append(RecordsOf(b), m)[i]
  BY <1>2, <1>3, <1>4, <1>5, <1>6, AppendProperties
<1>8. Append(RecordsOf(b), m) \in Seq(Records) /\ Len(Append(RecordsOf(b), m)) = b.count + 1
  BY <1>3, AppendProperties
<1>9. QED
  BY <1>3, <1>7, <1>8, SeqEqual

\* The records block by block, the list that RecordsOfAll makes one of.
LEMMA RecordLists ==
    ASSUME NEW blks \in Seq(Blocks)
    PROVE  LET lists == [i \in DOMAIN blks |-> RecordsOf(blks[i])] IN
           /\ lists \in Seq(Seq(Records))
           /\ Len(lists) = Len(blks)
           /\ \A i \in 1 .. Len(blks) : lists[i] = RecordsOf(blks[i])
<1>1. DOMAIN blks = 1 .. Len(blks) /\ Len(blks) \in Nat
  OBVIOUS
<1>2. \A i \in 1 .. Len(blks) : RecordsOf(blks[i]) \in Seq(Records)
  BY RecordsOfType
<1>3. QED
  BY <1>1, <1>2

\* A file without blocks has no records,
LEMMA RecordsEmpty == RecordsOfAll(<<>>) = <<>>
<1>1. [i \in DOMAIN <<>> |-> RecordsOf(<<>>[i])] = <<>>
  OBVIOUS
<1>2. QED
  BY <1>1, FlattenEmpty DEF RecordsOfAll

\* the records of blocks are records,
LEMMA RecordsType ==
    ASSUME NEW blks \in Seq(Blocks)
    PROVE  RecordsOfAll(blks) \in Seq(Records)
  BY RecordLists, FlattenType DEF RecordsOfAll

\* those of some blocks and then others are those of the first and then of the others,
LEMMA RecordsConcat ==
    ASSUME NEW s \in Seq(Blocks), NEW t \in Seq(Blocks)
    PROVE  RecordsOfAll(s \o t) = RecordsOfAll(s) \o RecordsOfAll(t)
<1> DEFINE List(blks) == [i \in DOMAIN blks |-> RecordsOf(blks[i])]
<1>1. /\ List(s) \in Seq(Seq(Records)) /\ Len(List(s)) = Len(s)
      /\ \A i \in 1 .. Len(s) : List(s)[i] = RecordsOf(s[i])
  BY RecordLists
<1>2. /\ List(t) \in Seq(Seq(Records)) /\ Len(List(t)) = Len(t)
      /\ \A i \in 1 .. Len(t) : List(t)[i] = RecordsOf(t[i])
  BY RecordLists
<1>3. s \o t \in Seq(Blocks) /\ Len(s \o t) = Len(s) + Len(t)
  OBVIOUS
<1>4. /\ List(s \o t) \in Seq(Seq(Records)) /\ Len(List(s \o t)) = Len(s) + Len(t)
      /\ \A i \in 1 .. Len(s) + Len(t) : List(s \o t)[i] = RecordsOf((s \o t)[i])
  BY <1>3, RecordLists
<1> HIDE DEF List
<1>5. List(s \o t) = List(s) \o List(t)
  <2>1. \A i \in 1 .. Len(s) : (s \o t)[i] = s[i]
    BY ConcatProperties
  <2>2. \A i \in 1 .. Len(t) : (s \o t)[Len(s) + i] = t[i]
    BY ConcatProperties
  <2>3. \A i \in 1 .. Len(s) : i \in 1 .. Len(s) + Len(t)
    OBVIOUS
  <2>4. \A i \in 1 .. Len(t) : Len(s) + i \in 1 .. Len(s) + Len(t)
    OBVIOUS
  <2>5. \A i \in 1 .. Len(s) : List(s \o t)[i] = List(s)[i]
    BY <1>1, <1>4, <2>1, <2>3, Zenon
  <2>6. \A i \in 1 .. Len(t) : List(s \o t)[Len(s) + i] = List(t)[i]
    BY <1>2, <1>4, <2>2, <2>4, Zenon
  <2> DEFINE W == Seq(Records)
             p == List(s)
             q == List(t)
             r == List(s \o t)
  <2>7. /\ p \in Seq(W) /\ q \in Seq(W) /\ r \in Seq(W)
        /\ Len(r) = Len(p) + Len(q)
        /\ \A i \in 1 .. Len(p) : r[i] = p[i]
        /\ \A i \in 1 .. Len(q) : r[Len(p) + i] = q[i]
    BY <1>1, <1>2, <1>4, <2>5, <2>6, Zenon
  <2> HIDE DEF W, p, q, r
  <2>8. r = p \o q
    BY <2>7, ConcatIs
  <2>9. QED
    BY <2>8 DEF p, q, r
<1>6. FlattenSeq(List(s) \o List(t)) = FlattenSeq(List(s)) \o FlattenSeq(List(t))
  BY <1>1, <1>2, FlattenConcat
<1>7. QED
  BY <1>5, <1>6, Zenon DEF RecordsOfAll, List

\* and those of a single block are its own.
LEMMA RecordsSingle ==
    ASSUME NEW b \in Blocks
    PROVE  RecordsOfAll(<<b>>) = RecordsOf(b)
<1>1. RecordsOf(b) \in Seq(Records)
  BY RecordsOfType
<1>2. [i \in DOMAIN <<b>> |-> RecordsOf(<<b>>[i])] = <<RecordsOf(b)>>
  OBVIOUS
<1>3. <<RecordsOf(b)>> = Append(<<>>, RecordsOf(b)) /\ <<>> \in Seq(Seq(Records))
  OBVIOUS
<1>4. FlattenSeq(<<RecordsOf(b)>>) = <<>> \o RecordsOf(b)
  BY <1>1, <1>3, FlattenAppend, FlattenEmpty
<1>5. QED
  BY <1>1, <1>2, <1>4, ConcatEmptySeq, Zenon DEF RecordsOfAll

-----------------------------------------------------------------------------
(* The overruns of blocks, or of lines of checkOverrun(), in all. *)

Counted(s) == Len(s) \in Nat /\ \A i \in 1 .. Len(s) : s[i].overrun \in Nat

\* What the recursion of OverrunOf says of its function.
IsTotal(f, s) ==
    f = [i \in 0 .. Len(s) |-> IF i = 0 THEN 0 ELSE f[i - 1] + s[i].overrun]

\* The recursion of OverrunOf, step by step.
LEMMA TotalSteps ==
    ASSUME NEW s, NEW f, Counted(s), IsTotal(f, s)
    PROVE  /\ f[0] = 0
           /\ \A i \in 0 .. Len(s) - 1 : f[i + 1] = f[i] + s[i + 1].overrun
<1>1. Len(s) \in Nat
  BY DEF Counted
<1>2. 0 \in 0 .. Len(s)
  BY <1>1
<1>3. f[0] = 0
  BY <1>2, Zenon DEF IsTotal
<1>4. ASSUME NEW i \in 0 .. Len(s) - 1
      PROVE  f[i + 1] = f[i] + s[i + 1].overrun
  <2>1. i + 1 \in 0 .. Len(s) /\ i + 1 # 0 /\ (i + 1) - 1 = i
    BY <1>1
  <2>2. f[i + 1] = IF i + 1 = 0 THEN 0 ELSE f[(i + 1) - 1] + s[i + 1].overrun
    BY <2>1, Zenon DEF IsTotal
  <2>3. QED
    BY <2>1, <2>2, Zenon
<1>5. QED
  BY <1>3, <1>4

\* There is a function that satisfies it.
LEMMA TotalExists ==
    ASSUME NEW s, Counted(s)
    PROVE  \E f : IsTotal(f, s) /\ OverrunOf(s) = f[Len(s)]
<1> DEFINE m == Len(s)
           g == [i \in 1 .. m |-> [v \in Nat |-> v + s[i].overrun]]
<1>1. m \in Nat /\ \A i \in 1 .. m : s[i].overrun \in Nat
  BY DEF Counted
<1> HIDE DEF m
<1>2. g \in [1 .. m -> [Nat -> Nat]]
  <2>1. \A i \in 1 .. m : \A v \in Nat : v + s[i].overrun \in Nat
    BY <1>1
  <2>2. QED
    BY <2>1
<1> HIDE DEF g
<1>3. PICK f \in [0 .. m -> Nat] : IsRun(f, m, 0, g)
  BY <1>1, <1>2, RunExists
<1>4. \A i \in 0 .. m : f[i] = IF i = 0 THEN 0 ELSE f[i - 1] + s[i].overrun
  <2>1. TAKE i \in 0 .. m
  <2>2. CASE i = 0
    BY <1>3, <2>2 DEF IsRun
  <2>3. CASE i # 0
    <3>1. i \in 1 .. m /\ i - 1 \in 0 .. m
      BY <1>1, <2>3
    <3>2. f[i] = g[i][f[i - 1]] /\ f[i - 1] \in Nat
      BY <1>3, <3>1 DEF IsRun
    <3>3. g[i][f[i - 1]] = f[i - 1] + s[i].overrun
      BY <3>1, <3>2 DEF g
    <3>4. QED
      BY <2>3, <3>2, <3>3, Zenon
  <2>4. QED
    BY <2>2, <2>3
<1>5. f = [i \in 0 .. m |-> IF i = 0 THEN 0 ELSE f[i - 1] + s[i].overrun]
  <2> DEFINE k == [i \in 0 .. m |-> IF i = 0 THEN 0 ELSE f[i - 1] + s[i].overrun]
  <2>1. \A i \in 0 .. m : f[i] = k[i]
    BY <1>4, Zenon
  <2>2. QED
    BY <2>1, Zenon
<1>6. \E k : k = [i \in 0 .. Len(s) |-> IF i = 0 THEN 0 ELSE k[i - 1] + s[i].overrun]
  BY <1>5 DEF m
<1>7. QED
  BY <1>6, Zenon DEF OverrunOf, IsTotal

\* Its values are numbers,
LEMMA TotalTyped ==
    ASSUME NEW s, NEW f, Counted(s), IsTotal(f, s)
    PROVE  \A i \in 0 .. Len(s) : f[i] \in Nat
<1> DEFINE T == {i \in 0 .. Len(s) : f[i] \in Nat}
<1>1. Len(s) \in Nat /\ \A i \in 1 .. Len(s) : s[i].overrun \in Nat
  BY DEF Counted
<1>2. 0 \in T
  BY <1>1, TotalSteps
<1>3. ASSUME NEW i \in 0 .. Len(s) - 1, i \in T
      PROVE  i + 1 \in T
  <2>1. f[i + 1] = f[i] + s[i + 1].overrun
    BY TotalSteps
  <2>2. i + 1 \in 1 .. Len(s) /\ i + 1 \in 0 .. Len(s)
    BY <1>1
  <2>3. QED
    BY <1>1, <1>3, <2>1, <2>2
<1> HIDE DEF T
<1>4. \A i \in 0 .. Len(s) : i \in T
  BY <1>1, <1>2, <1>3, SetInductionUpTo
<1>5. QED
  BY <1>4 DEF T

\* and on a prefix it has the same ones.
LEMMA TotalPrefix ==
    ASSUME NEW s, NEW t, Counted(s), Counted(t), Begins(s, t),
           NEW f, IsTotal(f, s), NEW h, IsTotal(h, t)
    PROVE  f[Len(s)] = h[Len(s)]
<1> DEFINE T == {i \in 0 .. Len(s) : f[i] = h[i]}
<1>1. /\ Len(s) \in Nat /\ Len(t) \in Nat /\ Len(s) <= Len(t)
      /\ \A i \in 1 .. Len(s) : s[i] = t[i]
  BY Zenon DEF Begins
<1>2. 0 \in T
  BY <1>1, TotalSteps
<1>3. ASSUME NEW i \in 0 .. Len(s) - 1, i \in T
      PROVE  i + 1 \in T
  <2>1. i \in 0 .. Len(t) - 1 /\ i + 1 \in 1 .. Len(s) /\ i + 1 \in 0 .. Len(s)
    BY <1>1
  <2>2. f[i + 1] = f[i] + s[i + 1].overrun
    BY TotalSteps
  <2>3. h[i + 1] = h[i] + t[i + 1].overrun
    BY <2>1, TotalSteps
  <2>4. f[i] = h[i] /\ s[i + 1] = t[i + 1]
    BY <1>1, <1>3, <2>1, Zenon
  <2>5. QED
    BY <2>1, <2>2, <2>3, <2>4, Zenon
<1> HIDE DEF T
<1>4. Len(s) \in T
  BY <1>1, <1>2, <1>3, SetInductionUpTo
<1>5. QED
  BY <1>4 DEF T

\* The overruns of blocks are a number,
LEMMA OverrunType ==
    ASSUME NEW s, Counted(s)
    PROVE  OverrunOf(s) \in Nat
<1>1. PICK f : IsTotal(f, s) /\ OverrunOf(s) = f[Len(s)]
  BY TotalExists
<1>2. Len(s) \in 0 .. Len(s)
  BY DEF Counted
<1>3. QED
  BY <1>1, <1>2, TotalTyped

\* of no blocks they are zero,
LEMMA OverrunEmpty == OverrunOf(<<>>) = 0
<1>1. Counted(<<>>) /\ Len(<<>>) = 0
  BY DEF Counted
<1>2. PICK f : IsTotal(f, <<>>) /\ OverrunOf(<<>>) = f[Len(<<>>)]
  BY <1>1, TotalExists
<1>3. QED
  BY <1>1, <1>2, TotalSteps

\* a block more adds its own,
LEMMA OverrunAppend ==
    ASSUME NEW S, NEW s \in Seq(S), NEW e \in S, \A x \in S : x.overrun \in Nat
    PROVE  OverrunOf(Append(s, e)) = OverrunOf(s) + e.overrun
<1> DEFINE t == Append(s, e)
<1>1. /\ t \in Seq(S) /\ Len(t) = Len(s) + 1 /\ t[Len(s) + 1] = e
      /\ \A i \in 1 .. Len(s) : t[i] = s[i]
  BY AppendProperties
<1> HIDE DEF t
<1>2. Counted(s) /\ Counted(t)
  BY <1>1 DEF Counted
<1>3. Len(s) \in Nat
  OBVIOUS
<1>4. Begins(s, t)
  BY <1>1, <1>3 DEF Begins
<1>5. PICK f : IsTotal(f, s) /\ OverrunOf(s) = f[Len(s)]
  BY <1>2, TotalExists
<1>6. PICK h : IsTotal(h, t) /\ OverrunOf(t) = h[Len(t)]
  BY <1>2, TotalExists
<1>7. h[Len(s) + 1] = h[Len(s)] + e.overrun
  <2>1. Len(s) \in 0 .. Len(t) - 1
    BY <1>1, <1>3
  <2>2. QED
    BY <1>1, <1>2, <1>6, <2>1, TotalSteps
<1>8. f[Len(s)] = h[Len(s)]
  BY <1>2, <1>4, <1>5, <1>6, TotalPrefix
<1>9. QED
  BY <1>1, <1>5, <1>6, <1>7, <1>8 DEF t

\* a single block has its own,
LEMMA OverrunSingle ==
    ASSUME NEW b, b.overrun \in Nat
    PROVE  OverrunOf(<<b>>) = b.overrun
<1>1. <<b>> = Append(<<>>, b) /\ <<>> \in Seq({b}) /\ b \in {b}
  OBVIOUS
<1>2. OverrunOf(<<b>>) = OverrunOf(<<>>) + b.overrun
  BY <1>1, OverrunAppend
<1>3. QED
  BY <1>2, OverrunEmpty

\* and those of some blocks and then others are the sum.
LEMMA OverrunConcat ==
    ASSUME NEW S, \A x \in S : x.overrun \in Nat, NEW s \in Seq(S), NEW t \in Seq(S)
    PROVE  OverrunOf(s \o t) = OverrunOf(s) + OverrunOf(t)
<1> DEFINE First(i) == SubSeq(t, 1, i)
           T == {i \in 0 .. Len(t) :
                   OverrunOf(s \o First(i)) = OverrunOf(s) + OverrunOf(First(i))}
<1>1. Len(t) \in Nat /\ First(0) = <<>> /\ First(Len(t)) = t
  BY SubSeqEmpty, SubSeqFull
<1>2. OverrunOf(s) \in Nat
  BY OverrunType DEF Counted
<1>3. 0 \in T
  <2>1. s \o <<>> = s
    BY ConcatEmptySeq
  <2>2. OverrunOf(s) = OverrunOf(s) + OverrunOf(<<>>)
    BY <1>2, OverrunEmpty
  <2>3. 0 \in 0 .. Len(t)
    BY <1>1
  <2>4. QED
    BY <1>1, <2>1, <2>2, <2>3, Zenon
<1>4. ASSUME NEW i \in 0 .. Len(t) - 1, i \in T
      PROVE  i + 1 \in T
  <2> DEFINE e == t[i + 1]
  <2>1. e \in S /\ i + 1 \in 1 .. Len(t) /\ i + 1 \in 0 .. Len(t)
    BY <1>1
  <2>2. First(i) \in Seq(S) /\ First(i + 1) = Append(First(i), e)
    <3>1. First(i) \in Seq(S)
      BY <1>1, SubSeqProperties
    <3>2. First(i + 1) = First(i) \o <<e>>
      BY <1>1, <2>1, SubSeqRecursiveSecond
    <3>3. QED
      BY <2>1, <3>1, <3>2, AppendIsConcat
  <2>3. OverrunOf(s \o First(i)) = OverrunOf(s) + OverrunOf(First(i))
    BY <1>4
  <2> HIDE DEF First, e
  <2>4. s \o First(i) \in Seq(S)
    BY <2>2, ConcatProperties
  <2>5. s \o First(i + 1) = Append(s \o First(i), e)
    <3>1. s \o Append(First(i), e) = Append(s \o First(i), e)
      BY <2>1, <2>2, AppendToConcat
    <3>2. QED
      BY <2>2, <3>1, Zenon
  <2>6. OverrunOf(s \o First(i + 1)) = OverrunOf(s \o First(i)) + e.overrun
    BY <2>1, <2>4, <2>5, OverrunAppend
  <2>7. OverrunOf(First(i + 1)) = OverrunOf(First(i)) + e.overrun
    BY <2>1, <2>2, OverrunAppend
  <2>8. OverrunOf(First(i)) \in Nat /\ e.overrun \in Nat
    <3>1. Counted(First(i))
      BY <2>2 DEF Counted
    <3>2. QED
      BY <2>1, <3>1, OverrunType
  <2>9. OverrunOf(s \o First(i + 1)) = OverrunOf(s) + OverrunOf(First(i + 1))
    BY <1>2, <2>3, <2>6, <2>7, <2>8
  <2>10. QED
    BY <2>1, <2>9, Zenon
<1> HIDE DEF T
<1>5. Len(t) \in T
  BY <1>1, <1>3, <1>4, SetInductionUpTo
<1>6. QED
  BY <1>1, <1>5, Zenon DEF T

BlocksCounted == \A b \in Blocks : b.overrun \in Nat

\* The overrun field of each of the loop's blocks is a number.
LEMMA BlocksAreCounted == BlocksCounted
<1>1. Uint16 \in Nat
  BY Widths
<1>2. QED
  BY <1>1 DEF BlocksCounted, Blocks

-----------------------------------------------------------------------------
(* What the readers make of a file whose only empty block, if any, is its last. *)

\* What the recursion of checkOverrun says of its function.
IsLines(f, read) ==
    f = [i \in 0 .. Len(read) |->
            IF i = 0 THEN <<>>
            ELSE IF read[i].overrun = 0 THEN f[i - 1]
            ELSE Append(f[i - 1], [bn |-> i - 1, overrun |-> read[i].overrun])]

Lines == [bn : Nat, overrun : Nat]

\* The recursion of checkOverrun() has a function that satisfies it.
LEMMA LinesExist ==
    ASSUME NEW blks, ReadBlocks(blks) \in Seq(Blocks)
    PROVE  \E f : /\ IsLines(f, ReadBlocks(blks))
                  /\ checkOverrun(blks) = f[Len(ReadBlocks(blks))]
<1> DEFINE read == ReadBlocks(blks)
           m == Len(read)
           line(i) == [bn |-> i - 1, overrun |-> read[i].overrun]
           g == [i \in 1 .. m |-> [v \in Seq(Lines) |->
                    IF read[i].overrun = 0 THEN v ELSE Append(v, line(i))]]
<1>1. m \in Nat /\ \A i \in 1 .. m : line(i) \in Lines
  <2>1. m \in Nat /\ \A i \in 1 .. m : read[i] \in Blocks
    OBVIOUS
  <2>2. \A i \in 1 .. m : read[i].overrun \in Nat /\ i - 1 \in Nat
    BY <2>1, BlocksAreCounted DEF BlocksCounted
  <2>3. QED
    BY <2>1, <2>2, Zenon DEF Lines
<1> HIDE DEF m, line, read
<1>2. g \in [1 .. m -> [Seq(Lines) -> Seq(Lines)]]
  <2>1. \A i \in 1 .. m : \A v \in Seq(Lines) :
           (IF read[i].overrun = 0 THEN v ELSE Append(v, line(i))) \in Seq(Lines)
    BY <1>1, AppendProperties
  <2>2. QED
    BY <2>1
<1> HIDE DEF g
<1>3. PICK f \in [0 .. m -> Seq(Lines)] : IsRun(f, m, <<>>, g)
  <2>1. <<>> \in Seq(Lines)
    BY EmptySeq
  <2>2. QED
    BY <1>1, <1>2, <2>1, RunExists
<1>4. \A i \in 0 .. m : f[i] =
          IF i = 0 THEN <<>>
          ELSE IF read[i].overrun = 0 THEN f[i - 1] ELSE Append(f[i - 1], line(i))
  <2>1. TAKE i \in 0 .. m
  <2>2. CASE i = 0
    BY <1>3, <2>2 DEF IsRun
  <2>3. CASE i # 0
    <3>1. i \in 1 .. m /\ i - 1 \in 0 .. m
      BY <1>1, <2>3
    <3>2. f[i] = g[i][f[i - 1]] /\ f[i - 1] \in Seq(Lines)
      BY <1>3, <3>1 DEF IsRun
    <3>3. g[i][f[i - 1]] =
            IF read[i].overrun = 0 THEN f[i - 1] ELSE Append(f[i - 1], line(i))
      BY <3>1, <3>2, Zenon DEF g
    <3>4. QED
      BY <2>3, <3>2, <3>3, Zenon
  <2>4. QED
    BY <2>2, <2>3
<1>5. f = [i \in 0 .. m |->
             IF i = 0 THEN <<>>
             ELSE IF read[i].overrun = 0 THEN f[i - 1] ELSE Append(f[i - 1], line(i))]
  <2> DEFINE k == [i \in 0 .. m |->
             IF i = 0 THEN <<>>
             ELSE IF read[i].overrun = 0 THEN f[i - 1] ELSE Append(f[i - 1], line(i))]
  <2>1. \A i \in 0 .. m : f[i] = k[i]
    BY <1>4, Zenon
  <2>2. QED
    BY <2>1, Zenon
<1>6. \E k : IsLines(k, read)
  BY <1>5, Zenon DEF m, line, IsLines
<1>7. QED
  BY <1>6, Zenon DEF checkOverrun, IsLines, read

\* The lines leave out the blocks without overruns, and nothing else.
LEMMA LinesTotal ==
    ASSUME NEW read \in Seq(Blocks), NEW f, IsLines(f, read)
    PROVE  OverrunOf(f[Len(read)]) = OverrunOf(read)
<1> DEFINE First(i) == SubSeq(read, 1, i)
           T == {i \in 0 .. Len(read) :
                   f[i] \in Seq(Lines) /\ OverrunOf(f[i]) = OverrunOf(First(i))}
<1>1. Len(read) \in Nat /\ First(0) = <<>> /\ First(Len(read)) = read
  BY SubSeqEmpty, SubSeqFull
<1>2. 0 \in T
  <2>1. 0 \in 0 .. Len(read)
    BY <1>1
  <2>2. f[0] = <<>>
    BY <2>1, Zenon DEF IsLines
  <2>3. <<>> \in Seq(Lines)
    BY EmptySeq
  <2>4. QED
    BY <1>1, <2>1, <2>2, <2>3, Zenon
<1>3. ASSUME NEW i \in 0 .. Len(read) - 1, i \in T
      PROVE  i + 1 \in T
  <2> DEFINE b == read[i + 1]
             line == [bn |-> i, overrun |-> b.overrun]
  <2>1. /\ b \in Blocks /\ i \in Nat /\ (i + 1) - 1 = i /\ i + 1 # 0
        /\ i + 1 \in 1 .. Len(read) /\ i + 1 \in 0 .. Len(read)
    BY <1>1
  <2>2. First(i) \in Seq(Blocks) /\ First(i + 1) = Append(First(i), b)
    <3>1. First(i) \in Seq(Blocks)
      BY <1>1, SubSeqProperties
    <3>2. First(i + 1) = First(i) \o <<b>>
      BY <1>1, <2>1, SubSeqRecursiveSecond
    <3>3. QED
      BY <2>1, <3>1, <3>2, AppendIsConcat
  <2>3. f[i] \in Seq(Lines) /\ OverrunOf(f[i]) = OverrunOf(First(i))
    BY <1>3
  <2>4. f[i + 1] = IF b.overrun = 0 THEN f[i] ELSE Append(f[i], line)
    BY <2>1, Zenon DEF IsLines
  <2>5. b.overrun \in Nat
    BY <2>1, BlocksAreCounted DEF BlocksCounted
  <2>6. line \in Lines /\ line.overrun = b.overrun
    BY <2>1, <2>5 DEF Lines
  <2> HIDE DEF First, b, line
  <2>7. OverrunOf(First(i + 1)) = OverrunOf(First(i)) + b.overrun
    BY <2>1, <2>2, OverrunAppend, BlocksAreCounted DEF BlocksCounted
  <2>8. f[i + 1] \in Seq(Lines) /\ OverrunOf(f[i + 1]) = OverrunOf(First(i + 1))
    <3>1. CASE b.overrun = 0
      <4>1. OverrunOf(First(i)) \in Nat
        BY <2>2, BlocksAreCounted, OverrunType DEF BlocksCounted, Counted
      <4>2. QED
        BY <2>3, <2>4, <2>7, <3>1, <4>1
    <3>2. CASE b.overrun # 0
      <4>1. \A x \in Lines : x.overrun \in Nat
        BY DEF Lines
      <4>2. OverrunOf(Append(f[i], line)) = OverrunOf(f[i]) + line.overrun
        BY <2>3, <2>6, <4>1, OverrunAppend
      <4>3. Append(f[i], line) \in Seq(Lines)
        BY <2>3, <2>6, AppendProperties
      <4>4. QED
        BY <2>3, <2>4, <2>6, <2>7, <3>2, <4>2, <4>3, Zenon
    <3>3. QED
      BY <3>1, <3>2
  <2>9. QED
    BY <2>1, <2>8, Zenon
<1> HIDE DEF T
<1>4. Len(read) \in T
  BY <1>1, <1>2, <1>3, SetInductionUpTo
<1>5. QED
  BY <1>1, <1>4, Zenon DEF T

\* Only the last of these blocks may have no records.
EmptyIsLast(blks) == \A i \in 1 .. Len(blks) : blks[i].count = 0 => i = Len(blks)

\* A reader that stops at the first block without records skips that block alone, when it
\* is the last.
LEMMA ReadBlocksOf ==
    ASSUME NEW blks \in Seq(Blocks), EmptyIsLast(blks)
    PROVE  IF blks # <<>> /\ blks[Len(blks)].count = 0
           THEN /\ ReadBlocks(blks) \in Seq(Blocks)
                /\ blks[Len(blks)] \in Blocks
                /\ blks = Append(ReadBlocks(blks), blks[Len(blks)])
           ELSE ReadBlocks(blks) = blks
<1> DEFINE empty == {i \in DOMAIN blks : blks[i].count = 0}
<1>1. DOMAIN blks = 1 .. Len(blks) /\ Len(blks) \in Nat
  OBVIOUS
<1>2. CASE blks # <<>> /\ blks[Len(blks)].count = 0
  <2>1. Len(blks) \in 1 .. Len(blks) /\ blks[Len(blks)] \in Blocks
    BY <1>1, <1>2, EmptySeq
  <2>2. empty = {Len(blks)}
    BY <1>1, <1>2, <2>1 DEF EmptyIsLast
  <2>3. Min({Len(blks)}) = Len(blks)
    BY <1>1 DEF Min
  <2>4. ReadBlocks(blks) = SubSeq(blks, 1, Len(blks) - 1)
    BY <2>2, <2>3 DEF ReadBlocks
  <2>5. SubSeq(blks, 1, Len(blks) - 1) \in Seq(Blocks)
    BY <1>1, SubSeqProperties
  <2>6. blks = SubSeq(blks, 1, Len(blks) - 1) \o <<blks[Len(blks)]>>
    <3>1. SubSeq(blks, 1, Len(blks)) = blks
      BY SubSeqFull
    <3>2. 1 \in 1 .. Len(blks) /\ Len(blks) \in 1 .. Len(blks)
      BY <1>1, <2>1
    <3>3. SubSeq(blks, 1, Len(blks))
             = SubSeq(blks, 1, Len(blks) - 1) \o <<blks[Len(blks)]>>
      BY <3>2, SubSeqRecursiveSecond
    <3>4. QED
      BY <3>1, <3>3
  <2>7. QED
    BY <1>2, <2>1, <2>4, <2>5, <2>6, AppendIsConcat
<1>3. CASE ~(blks # <<>> /\ blks[Len(blks)].count = 0)
  <2>1. empty = {}
    <3>1. ASSUME NEW i \in 1 .. Len(blks), blks[i].count = 0
          PROVE  FALSE
      <4>1. i = Len(blks)
        BY <3>1, Zenon DEF EmptyIsLast
      <4>2. blks # <<>>
        BY <1>1
      <4>3. QED
        BY <1>3, <3>1, <4>1, <4>2
    <3>2. QED
      BY <1>1, <3>1, Zenon
  <2>2. ReadBlocks(blks) = SubSeq(blks, 1, Len(blks))
    BY <2>1 DEF ReadBlocks
  <2>3. QED
    BY <1>3, <2>2, SubSeqFull
<1>4. QED
  BY <1>2, <1>3

\* So it finds every record there is.
LEMMA ReadersFindAll ==
    ASSUME NEW blks \in Seq(Blocks), EmptyIsLast(blks)
    PROVE  ReadFile(blks) = RecordsOfAll(blks)
<1> DEFINE last == blks[Len(blks)]
           read == ReadBlocks(blks)
<1>1. CASE blks # <<>> /\ last.count = 0
  <2>1. read \in Seq(Blocks) /\ last \in Blocks /\ blks = Append(read, last)
    BY <1>1, ReadBlocksOf, Zenon
  <2> HIDE DEF last, read
  <2>2. blks = read \o <<last>> /\ <<last>> \in Seq(Blocks)
    BY <2>1, AppendIsConcat
  <2>3. RecordsOfAll(blks) = RecordsOfAll(read) \o RecordsOfAll(<<last>>)
    BY <2>1, <2>2, RecordsConcat
  <2>4. RecordsOfAll(<<last>>) = <<>>
    BY <1>1, <2>1, RecordsSingle, RecordsOfEmpty
  <2>5. RecordsOfAll(read) \in Seq(Records)
    BY <2>1, RecordsType
  <2>6. RecordsOfAll(blks) = RecordsOfAll(read)
    BY <2>3, <2>4, <2>5, ConcatEmptySeq
  <2>7. QED
    BY <2>6 DEF ReadFile, read
<1>2. CASE ~(blks # <<>> /\ last.count = 0)
  BY <1>2, ReadBlocksOf, Zenon DEF ReadFile
<1>3. QED
  BY <1>1, <1>2

\* checkOverrun() and the empty block at the end, which it does not reach.
LEMMA ReadersCountAll ==
    ASSUME NEW blks \in Seq(Blocks), EmptyIsLast(blks)
    PROVE  OverrunOf(blks) =
             OverrunOf(checkOverrun(blks))
               + (IF blks # <<>> /\ blks[Len(blks)].count = 0
                  THEN blks[Len(blks)].overrun ELSE 0)
<1> DEFINE last == blks[Len(blks)]
           read == ReadBlocks(blks)
<1>1. ASSUME read \in Seq(Blocks)
      PROVE  OverrunOf(checkOverrun(blks)) = OverrunOf(read) /\ OverrunOf(read) \in Nat
  <2>1. PICK f : IsLines(f, read) /\ checkOverrun(blks) = f[Len(read)]
    BY <1>1, LinesExist, Zenon
  <2> HIDE DEF read
  <2>2. OverrunOf(f[Len(read)]) = OverrunOf(read)
    BY <1>1, <2>1, LinesTotal
  <2>3. Counted(read)
    BY <1>1, BlocksAreCounted DEF BlocksCounted, Counted
  <2>4. QED
    BY <2>1, <2>2, <2>3, OverrunType, Zenon
<1>2. CASE blks # <<>> /\ last.count = 0
  <2>1. read \in Seq(Blocks) /\ last \in Blocks /\ blks = Append(read, last)
    BY <1>2, ReadBlocksOf, Zenon
  <2>2. OverrunOf(checkOverrun(blks)) = OverrunOf(read)
    BY <1>1, <2>1, Zenon
  <2> HIDE DEF read, last
  <2>3. OverrunOf(Append(read, last)) = OverrunOf(read) + last.overrun
    BY <2>1, OverrunAppend, BlocksAreCounted DEF BlocksCounted
  <2>4. OverrunOf(blks) = OverrunOf(checkOverrun(blks)) + last.overrun
    BY <2>1, <2>2, <2>3, Zenon
  <2>5. QED
    BY <1>2, <2>4, Zenon DEF last
<1>3. CASE ~(blks # <<>> /\ last.count = 0)
  <2>1. read = blks
    BY <1>3, ReadBlocksOf, Zenon
  <2>2. OverrunOf(checkOverrun(blks)) = OverrunOf(blks) /\ OverrunOf(blks) \in Nat
    BY <1>1, <2>1, Zenon
  <2>3. OverrunOf(blks) = OverrunOf(checkOverrun(blks)) + 0
    BY <2>2
  <2>4. QED
    BY <1>3, <2>3, Zenon
<1>4. QED
  BY <1>2, <1>3

-----------------------------------------------------------------------------
(* The blocks waiting in the full queue, as a sequence. *)

FullOf(blk, fq, fh, ft) ==
    [i \in 1 .. QueueLen(fh, ft) |-> blk[fq[(ft + i - 1) % QueueDim]]]

\* The blocks queued, as a function of the queue.
LEMMA FullBlocksOf == FullBlocks = FullOf(block, fullQueue, fullHead, fullTail)
  BY DEF FullBlocks, FullOf

\* An index that has run past the end of a queue comes round once.
LEMMA Round ==
    ASSUME NEW m \in Nat \ {0}, NEW a \in Nat, a < 2 * m
    PROVE  a % m = IF a < m THEN a ELSE a - m
<1>1. CASE a < m
  BY <1>1
<1>2. CASE a >= m
  <2>1. a - m \in 0 .. m - 1 /\ a = m * 1 + (a - m)
    BY <1>2
  <2>2. QED
    BY <1>2, <2>1
<1>3. QED
  BY <1>1, <1>2

\* The slot of the block i places behind the oldest.
SlotAt(t, i) == LET a == t + i - 1 IN IF a < QueueDim THEN a ELSE a - QueueDim

\* The slot of a queue that its i-th entry is in,
LEMMA SlotOf ==
    ASSUME NEW t \in Slots, NEW i \in 1 .. QueueDim
    PROVE  (t + i - 1) % QueueDim = SlotAt(t, i) /\ SlotAt(t, i) \in Slots
<1>1. QueueDim \in Nat \ {0}
  BY SizesAssumption DEF QueueDim
<1>2. t \in 0 .. QueueDim - 1
  BY DEF Slots
<1> DEFINE a == t + i - 1
<1>3. a \in Nat /\ a < 2 * QueueDim
  BY <1>1, <1>2
<1> HIDE DEF a
<1>4. a % QueueDim = IF a < QueueDim THEN a ELSE a - QueueDim
  BY <1>1, <1>3, Round
<1>5. SlotAt(t, i) = IF a < QueueDim THEN a ELSE a - QueueDim
  BY Zenon DEF SlotAt, a
<1>6. SlotAt(t, i) \in Slots
  BY <1>1, <1>3, <1>5 DEF Slots
<1>7. a % QueueDim = SlotAt(t, i)
  BY <1>1, <1>3, <1>4, <1>5
<1>8. QED
  BY <1>6, <1>7, Zenon DEF a

\* which is one of the live ones.
LEMMA FullSlot ==
    ASSUME NEW h \in Slots, NEW t \in Slots, NEW i \in 1 .. QueueLen(h, t)
    PROVE  /\ i \in 1 .. QueueDim /\ (t + i - 1) % QueueDim = SlotAt(t, i)
           /\ SlotAt(t, i) \in Live(h, t)
<1>1. i \in 1 .. QueueDim
  BY QueueLenType, SizesAssumption DEF QueueDim
<1>2. (t + i - 1) % QueueDim = SlotAt(t, i) /\ SlotAt(t, i) \in Slots
  BY <1>1, SlotOf
<1>3. SlotAt(t, i) \in Live(h, t)
  BY <1>2, SizesAssumption DEF SlotAt, Live, QueueLen, Slots, QueueDim
<1>4. QED
  BY <1>1, <1>2, <1>3

\* The blocks queued are blocks, as many as the queue is long.
LEMMA FullOfType ==
    ASSUME NEW blk \in [Buffers -> Blocks], NEW eq, NEW eh, NEW et, NEW fq, NEW fh,
           NEW ft, NEW cur, NEW n, QueuesOK(eq, eh, et, fq, fh, ft, cur, n)
    PROVE  /\ FullOf(blk, fq, fh, ft) \in Seq(Blocks)
           /\ Len(FullOf(blk, fq, fh, ft)) = QueueLen(fh, ft)
           /\ \A i \in 1 .. QueueLen(fh, ft) :
                /\ FullOf(blk, fq, fh, ft)[i] = blk[fq[SlotAt(ft, i)]]
                /\ fq[SlotAt(ft, i)] \in Buffers /\ fq[SlotAt(ft, i)] # cur
<1>1. /\ fh \in Slots /\ ft \in Slots /\ fq \in [Slots -> Buffers \cup {NoBlock}]
      /\ \A j \in Live(fh, ft) : fq[j] \notin {cur, NoBlock}
  BY DEF QueuesOK, QueuesTyped, Disjoint
<1>2. QueueLen(fh, ft) \in Nat
  BY <1>1, QueueLenType, SizesAssumption DEF QueueDim
<1>3. ASSUME NEW i \in 1 .. QueueLen(fh, ft)
      PROVE  /\ blk[fq[(ft + i - 1) % QueueDim]] = blk[fq[SlotAt(ft, i)]]
             /\ fq[SlotAt(ft, i)] \in Buffers /\ fq[SlotAt(ft, i)] # cur
             /\ blk[fq[SlotAt(ft, i)]] \in Blocks
  <2>1. (ft + i - 1) % QueueDim = SlotAt(ft, i) /\ SlotAt(ft, i) \in Live(fh, ft)
    BY <1>1, FullSlot
  <2>2. SlotAt(ft, i) \in Slots
    BY <2>1, LiveSlots
  <2>3. fq[SlotAt(ft, i)] \in Buffers /\ fq[SlotAt(ft, i)] # cur
    BY <1>1, <2>1, <2>2
  <2>4. QED
    BY <2>1, <2>3
<1>4. QED
  BY <1>2, <1>3 DEF FullOf

\* A block that is not queued changes, or is queued; the oldest block leaves.
LEMMA FullKeep ==
    ASSUME NEW blk \in [Buffers -> Blocks], NEW eq, NEW eh, NEW et, NEW fq, NEW fh,
           NEW ft, NEW cur, NEW n, QueuesOK(eq, eh, et, fq, fh, ft, cur, n),
           NEW blk2, \A b \in Buffers : b # cur => blk2[b] = blk[b]
    PROVE  FullOf(blk2, fq, fh, ft) = FullOf(blk, fq, fh, ft)
<1>1. /\ fh \in Slots /\ ft \in Slots /\ fq \in [Slots -> Buffers \cup {NoBlock}]
      /\ \A j \in Live(fh, ft) : fq[j] \notin {cur, NoBlock}
  BY DEF QueuesOK, QueuesTyped, Disjoint
<1>2. ASSUME NEW i \in 1 .. QueueLen(fh, ft)
      PROVE  blk2[fq[(ft + i - 1) % QueueDim]] = blk[fq[(ft + i - 1) % QueueDim]]
  <2>1. (ft + i - 1) % QueueDim \in Live(fh, ft)
    BY <1>1, FullSlot
  <2>2. fq[(ft + i - 1) % QueueDim] \in Buffers /\ fq[(ft + i - 1) % QueueDim] # cur
    BY <1>1, <2>1, LiveSlots
  <2>3. QED
    BY <2>2, Zenon
<1>3. QED
  BY <1>2, Zenon DEF FullOf

Queued(fq, fh, b, fq2) == fq2 = [fq EXCEPT ![fh] = b]

\* A buffer queued comes behind those in the queue, whose blocks stay as they are.
LEMMA FullPush ==
    ASSUME NEW blk \in [Buffers -> Blocks], NEW eq, NEW eh, NEW et, NEW fq, NEW fh,
           NEW ft, NEW cur \in Buffers,
           QueuesOK(eq, eh, et, fq, fh, ft, cur, BufferBlockCount + 1),
           NEW fq2, Queued(fq, fh, cur, fq2)
    PROVE  FullOf(blk, fq2, queueNext(fh), ft)
             = Append(FullOf(blk, fq, fh, ft), blk[cur])
<1> DEFINE before == FullOf(blk, fq, fh, ft)
           after == FullOf(blk, fq2, queueNext(fh), ft)
           len == QueueLen(fh, ft)
<1>1. /\ fh \in Slots /\ ft \in Slots /\ fq \in [Slots -> Buffers \cup {NoBlock}]
  BY DEF QueuesOK, QueuesTyped
<1>2. QueuesOK(eq, eh, et, fq2, queueNext(fh), ft, NoBlock, BufferBlockCount + 1)
  BY PushCurrent DEF Queued
<1>3. /\ before \in Seq(Blocks) /\ Len(before) = len
      /\ \A i \in 1 .. len : before[i] = blk[fq[SlotAt(ft, i)]]
  BY FullOfType
<1>4. /\ after \in Seq(Blocks) /\ Len(after) = QueueLen(queueNext(fh), ft)
      /\ \A i \in 1 .. QueueLen(queueNext(fh), ft) : after[i] = blk[fq2[SlotAt(ft, i)]]
  BY <1>2, FullOfType
<1>5. len \in Nat /\ len < QueueDim - 1
  <2>1. QueueLen(eh, et) \in Nat /\ len \in Nat
    BY QueueLenType, SizesAssumption DEF QueueDim, QueuesOK, QueuesTyped
  <2>2. QueueLen(eh, et) + len + 1 = BufferBlockCount + 1
    BY NoBlockNotBuffer DEF QueuesOK, Held
  <2>3. QED
    BY <2>1, <2>2, SizesAssumption DEF QueueDim
<1>6. QueueLen(queueNext(fh), ft) = len + 1 /\ fh \notin Live(fh, ft)
  BY <1>1, <1>5, HeadAdvances
<1>7. SlotAt(ft, len + 1) = fh
  BY <1>1, <1>5, SizesAssumption DEF SlotAt, QueueLen, Slots, QueueDim
<1>8. \A i \in 1 .. len : after[i] = before[i]
  <2>1. TAKE i \in 1 .. len
  <2>2. SlotAt(ft, i) \in Live(fh, ft)
    BY <1>1, FullSlot
  <2>3. SlotAt(ft, i) # fh /\ SlotAt(ft, i) \in Slots
    BY <1>6, <2>2, LiveSlots
  <2>4. fq2[SlotAt(ft, i)] = fq[SlotAt(ft, i)]
    BY <1>1, <2>3 DEF Queued
  <2>5. i \in 1 .. len + 1
    BY <1>5
  <2> HIDE DEF before, after, len
  <2>6. QED
    BY <1>3, <1>4, <1>6, <2>4, <2>5, Zenon
<1>9. after[len + 1] = blk[cur]
  <2>1. len + 1 \in 1 .. len + 1
    BY <1>5
  <2>2. fq2[fh] = cur
    BY <1>1 DEF Queued
  <2> HIDE DEF before, after, len
  <2>3. QED
    BY <1>4, <1>6, <1>7, <2>1, <2>2, Zenon
<1>10. blk[cur] \in Blocks
  OBVIOUS
<1> HIDE DEF before, after, len
<1>11. after = Append(before, blk[cur])
  BY <1>3, <1>4, <1>5, <1>6, <1>8, <1>9, <1>10
<1>12. QED
  BY <1>11 DEF before, after

Leads(b, before, after) == before = <<b>> \o after

\* The buffer taken from the queue held the first of them.
LEMMA FullDrop ==
    ASSUME NEW blk \in [Buffers -> Blocks], NEW eq, NEW eh, NEW et, NEW fq, NEW fh,
           NEW ft, NEW cur, NEW n \in Int,
           QueuesOK(eq, eh, et, fq, fh, ft, cur, n), fh # ft
    PROVE  /\ blk[fq[ft]] \in Blocks
           /\ FullOf(blk, fq, fh, queueNext(ft)) \in Seq(Blocks)
           /\ Leads(blk[fq[ft]], FullOf(blk, fq, fh, ft), FullOf(blk, fq, fh, queueNext(ft)))
<1> DEFINE before == FullOf(blk, fq, fh, ft)
           after == FullOf(blk, fq, fh, queueNext(ft))
           len == QueueLen(fh, queueNext(ft))
<1>1. /\ fh \in Slots /\ ft \in Slots /\ queueNext(ft) \in Slots
  BY QueueNextType DEF QueuesOK, QueuesTyped
<1>2. QueuesOK(eq, eh, et, fq, fh, queueNext(ft), cur, n - 1) /\ fq[ft] \in Buffers
  BY DropFull
<1>3. /\ before \in Seq(Blocks) /\ Len(before) = QueueLen(fh, ft)
      /\ \A i \in 1 .. QueueLen(fh, ft) : before[i] = blk[fq[SlotAt(ft, i)]]
  BY FullOfType
<1>4. /\ after \in Seq(Blocks) /\ Len(after) = len
      /\ \A i \in 1 .. len : after[i] = blk[fq[SlotAt(queueNext(ft), i)]]
  BY <1>2, FullOfType
<1>5. len \in Nat /\ len < QueueDim /\ QueueLen(fh, ft) = len + 1
  <2>1. QueueLen(fh, ft) \in 0 .. QueueDim - 1 /\ len \in 0 .. QueueDim - 1
    BY <1>1, QueueLenType
  <2>2. len = QueueLen(fh, ft) - 1
    BY <1>1, TailAdvances
  <2>3. QED
    BY <2>1, <2>2, SizesAssumption DEF QueueDim
<1>6. SlotAt(ft, 1) = ft /\ \A i \in 1 .. len : SlotAt(ft, 1 + i) = SlotAt(queueNext(ft), i)
  BY <1>1, <1>5, SizesAssumption DEF SlotAt, queueNext, Slots, QueueDim
<1>7. blk[fq[ft]] \in Blocks
  BY <1>2
<1> HIDE DEF before, after, len
<1>8. before[1] = blk[fq[ft]]
  <2>1. 1 \in 1 .. QueueLen(fh, ft)
    BY <1>5
  <2>2. QED
    BY <1>3, <1>6, <2>1, Zenon
<1>9. \A i \in 1 .. len : before[1 + i] = after[i]
  <2>1. \A i \in 1 .. len : 1 + i \in 1 .. QueueLen(fh, ft)
    BY <1>5
  <2>2. QED
    BY <1>3, <1>4, <1>6, <2>1, Zenon
<1>10. before = <<blk[fq[ft]]>> \o after
  <2> DEFINE p == <<blk[fq[ft]]>>
  <2>1. p \in Seq(Blocks) /\ Len(p) = 1 /\ p[1] = blk[fq[ft]]
    BY <1>7
  <2> HIDE DEF p
  <2>2. Len(before) = Len(p) + Len(after)
    <3>1. Len(before) = 1 + len /\ Len(after) = len
      BY <1>3, <1>4, <1>5
    <3>2. QED
      BY <2>1, <3>1
  <2>3. \A i \in 1 .. Len(p) : before[i] = p[i]
    BY <1>8, <2>1
  <2>4. \A i \in 1 .. Len(after) : before[Len(p) + i] = after[i]
    BY <1>4, <1>9, <2>1
  <2>5. before = p \o after
    BY <1>3, <1>4, <2>1, <2>2, <2>3, <2>4, ConcatIs
  <2>6. QED
    BY <2>5 DEF p
<1>11. QED
  BY <1>4, <1>7, <1>10 DEF before, after, Leads

-----------------------------------------------------------------------------
(* What the steps of the loop do to the blocks waiting for the card. *)

\* The blocks that the card has not been given, and those that it has or will
\* have been given before the current block.
Waiting == FullBlocks \o CurrentBlocks
Sent == card \o FullBlocks

\* The buffers logData() works with are blocks: those it queued, and the one it
\* is filling.
LEMMA WaitingType ==
    ASSUME LogInv
    PROVE  /\ FullBlocks \in Seq(Blocks)
           /\ Len(FullBlocks) = QueueLen(fullHead, fullTail)
           /\ CurrentBlocks \in Seq(Blocks)
           /\ Waiting \in Seq(Blocks)
           /\ card \in Seq(Blocks) /\ Sent \in Seq(Blocks)
<1>1. block \in [Buffers -> Blocks] /\ card \in Seq(Blocks)
      /\ curBlock \in Buffers \cup {NoBlock}
  BY DEF LogInv, TypeOK
<1>2. \E n : QueuesOK(emptyQueue, emptyHead, emptyTail, fullQueue, fullHead,
                      fullTail, curBlock, n)
  BY DEF LogInv, OwnershipInv, QueuesNow
<1>3. FullBlocks \in Seq(Blocks) /\ Len(FullBlocks) = QueueLen(fullHead, fullTail)
  BY <1>1, <1>2, FullOfType, FullBlocksOf
<1>4. CurrentBlocks \in Seq(Blocks)
  BY <1>1 DEF CurrentBlocks
<1>5. QED
  BY <1>1, <1>3, <1>4, ConcatProperties DEF Waiting, Sent

\* A step that leaves buffers and queues alone leaves what they hold.
LEMMA SameBlocks ==
    ASSUME UNCHANGED <<block, fullQueue, fullHead, fullTail, curBlock>>
    PROVE  UNCHANGED <<FullBlocks, CurrentBlocks>>
  BY Zenon DEF FullBlocks, CurrentBlocks

\* A step that fills a block leaves the ones queued before it alone.
LEMMA FillMoves ==
    ASSUME LogInv, FillBlock
    PROVE  /\ Filled \in Blocks
           /\ IF Filled.count >= DataDim
              THEN FullBlocks' = Append(FullBlocks, Filled) /\ CurrentBlocks' = <<>>
              ELSE FullBlocks' = FullBlocks /\ CurrentBlocks' = <<Filled>>
<1> DEFINE blk2 == [block EXCEPT ![PassBlock] = Filled]
<1>1. /\ block \in [Buffers -> Blocks] /\ block' = blk2
      /\ fullTail' = fullTail
  BY DEF LogInv, TypeOK, FillBlock
<1>2. Filled \in Blocks
  BY FilledTyped DEF LogInv
<1>3. /\ PassBlock \in Buffers
      /\ QueuesOK(emptyQueue, emptyHead, emptyTail', fullQueue, fullHead,
                  fullTail, PassBlock, BufferBlockCount + 1)
  BY PassBlockOwned DEF LogInv
<1>5. /\ blk2 \in [Buffers -> Blocks] /\ blk2[PassBlock] = Filled
      /\ \A b \in Buffers : b # PassBlock => blk2[b] = block[b]
  BY <1>1, <1>2, <1>3
<1> HIDE DEF blk2
<1>4. FullOf(blk2, fullQueue, fullHead, fullTail) = FullBlocks
  BY <1>1, <1>3, <1>5, FullKeep, FullBlocksOf
<1>6. FullBlocks' = FullOf(blk2, fullQueue', fullHead', fullTail)
  BY <1>1, Zenon DEF FullBlocks, FullOf
<1>7. CASE Filled.count >= DataDim
  <2>1. /\ Queued(fullQueue, fullHead, PassBlock, fullQueue')
        /\ fullHead' = queueNext(fullHead)
        /\ curBlock' = NoBlock
    BY <1>7, Zenon DEF FillBlock, PushFull, Queued
  <2>2. FullOf(blk2, fullQueue', fullHead', fullTail) = Append(FullBlocks, Filled)
    BY <1>3, <1>4, <1>5, <2>1, FullPush
  <2>3. CurrentBlocks' = <<>>
    BY <2>1, Zenon DEF CurrentBlocks
  <2>4. QED
    BY <1>2, <1>6, <1>7, <2>2, <2>3, Zenon
<1>8. CASE ~(Filled.count >= DataDim)
  <2>1. UNCHANGED <<fullQueue, fullHead>> /\ curBlock' = PassBlock
    BY <1>8, Zenon DEF FillBlock
  <2>2. CurrentBlocks' = <<Filled>>
    <3>1. PassBlock # NoBlock
      BY <1>3, NoBlockNotBuffer
    <3>2. QED
      BY <1>1, <1>5, <2>1, <3>1, Zenon DEF CurrentBlocks
  <2>3. QED
    BY <1>2, <1>4, <1>6, <1>8, <2>1, <2>2, Zenon
<1>9. QED
  BY <1>7, <1>8

\* The current block is queued as it is when the log is closed.
LEMMA FlushMoves ==
    ASSUME LogInv, FlushCurBlock
    PROVE  /\ CurrentBlocks' = <<>> /\ curBlock' = NoBlock
           /\ Waiting' = Waiting
           /\ FullBlocks' = FullBlocks \o CurrentBlocks
           /\ CurrentBlocks = IF curBlock = NoBlock THEN <<>> ELSE <<block[curBlock]>>
<1>1. QueuesNow(BufferBlockCount + 1)
  BY DEF LogInv, OwnershipInv, FlushCurBlock
<1>2. block' = block /\ fullTail' = fullTail /\ block \in [Buffers -> Blocks]
  BY DEF LogInv, TypeOK, FlushCurBlock
<1>3. FullBlocks \in Seq(Blocks) /\ CurrentBlocks \in Seq(Blocks)
  BY WaitingType
<1>4. CASE curBlock = NoBlock
  <2>1. UNCHANGED <<block, fullQueue, fullHead, fullTail, curBlock>>
    BY <1>2, <1>4, Zenon DEF FlushCurBlock
  <2>2. UNCHANGED <<FullBlocks, CurrentBlocks>>
    BY <2>1, SameBlocks
  <2>3. CurrentBlocks = <<>>
    BY <1>4, Zenon DEF CurrentBlocks
  <2>4. FullBlocks \o <<>> = FullBlocks
    BY <1>3, ConcatEmptySeq
  <2>5. QED
    BY <1>4, <2>1, <2>2, <2>3, <2>4, Zenon DEF Waiting
<1>5. CASE curBlock # NoBlock
  <2>1. curBlock \in Buffers
    BY <1>1, <1>5 DEF QueuesNow, QueuesOK, QueuesTyped
  <2>2. /\ Queued(fullQueue, fullHead, curBlock, fullQueue')
        /\ fullHead' = queueNext(fullHead)
        /\ curBlock' = NoBlock
    BY <1>5, Zenon DEF FlushCurBlock, Flush, PushFull, Queued
  <2>3. FullOf(block, fullQueue', fullHead', fullTail)
           = Append(FullOf(block, fullQueue, fullHead, fullTail), block[curBlock])
    BY <1>1, <1>2, <2>1, <2>2, FullPush DEF QueuesNow
  <2>4. FullBlocks' = FullOf(block, fullQueue', fullHead', fullTail)
    BY <1>2, Zenon DEF FullBlocks, FullOf
  <2>5. CurrentBlocks = <<block[curBlock]>> /\ CurrentBlocks' = <<>>
    BY <1>5, <2>2, Zenon DEF CurrentBlocks
  <2>6. block[curBlock] \in Blocks
    BY <1>2, <2>1
  <2>7. FullBlocks' = FullBlocks \o CurrentBlocks
    BY <1>3, <2>3, <2>4, <2>5, <2>6, FullBlocksOf, AppendIsConcat
  <2>8. FullBlocks' \o <<>> = FullBlocks'
    <3>1. FullBlocks \o CurrentBlocks \in Seq(Blocks)
      BY <1>3, ConcatProperties
    <3>2. QED
      BY <2>7, <3>1, ConcatEmptySeq
  <2>9. QED
    BY <1>5, <2>2, <2>5, <2>7, <2>8, Zenon DEF Waiting
<1>6. QED
  BY <1>4, <1>5

\* The oldest block goes to the card, or is lost with the write that fails.
LEMMA DrainMoves ==
    ASSUME LogInv, WriteBlock \/ WriteFails
    PROVE  LET b == block[NextToWrite] IN
           /\ b \in Blocks
           /\ FullBlocks' \in Seq(Blocks)
           /\ FullBlocks = <<b>> \o FullBlocks'
           /\ CurrentBlocks' = CurrentBlocks
<1>1. /\ QueuesNow(BufferBlockCount + 1) /\ fullHead # fullTail
      /\ UNCHANGED <<block, fullQueue, fullHead, curBlock>>
      /\ fullTail' = queueNext(fullTail)
  <2>1. CASE WriteBlock
    BY <2>1 DEF LogInv, OwnershipInv, WriteBlock, fillVars
  <2>2. CASE WriteFails
    BY <2>2 DEF LogInv, OwnershipInv, WriteFails, fillVars
  <2>3. QED
    BY <2>1, <2>2
<1>2. block \in [Buffers -> Blocks] /\ BufferBlockCount + 1 \in Int
  <2>1. block \in [Buffers -> Blocks]
    BY Zenon DEF LogInv, TypeOK
  <2>2. BufferBlockCount + 1 \in Int
    BY SizesAssumption
  <2>3. QED
    BY <2>1, <2>2
<1> DEFINE n == BufferBlockCount + 1
<1> HIDE DEF n
<1>7. /\ QueuesOK(emptyQueue, emptyHead, emptyTail, fullQueue, fullHead, fullTail,
                  curBlock, n)
      /\ fullHead # fullTail /\ n \in Int
  BY <1>1, <1>2, Zenon DEF QueuesNow, n
<1>3. /\ block[fullQueue[fullTail]] \in Blocks
      /\ FullOf(block, fullQueue, fullHead, queueNext(fullTail)) \in Seq(Blocks)
      /\ Leads(block[fullQueue[fullTail]],
               FullOf(block, fullQueue, fullHead, fullTail),
               FullOf(block, fullQueue, fullHead, queueNext(fullTail)))
  BY <1>2, <1>7, FullDrop
<1>4. FullBlocks' = FullOf(block, fullQueue, fullHead, queueNext(fullTail))
  BY <1>1, Zenon DEF FullBlocks, FullOf
<1>5. CurrentBlocks' = CurrentBlocks
  BY <1>1, Zenon DEF CurrentBlocks
<1>6. QED
  BY <1>3, <1>4, <1>5, FullBlocksOf, Zenon DEF NextToWrite, Leads

-----------------------------------------------------------------------------
(* The invariants that make RecordsInOrder inductive. *)

\* The records on the card and in the buffers, blocks without records included,
\* are the messages taken from the controller.
InOrder ==
    pc # "writeFailed" => acquired = RecordsOfAll(card) \o RecordsOfAll(Waiting)

\* A block without records is queued only when the log is closed, after all others.
EmptyLast ==
    pc # "writeFailed" =>
        \A i \in 1 .. Len(Sent) : Sent[i].count = 0 =>
            i = Len(Sent) /\ closeFile /\ curBlock = NoBlock

\* The counters of the summary say what is on the card, up to their widths.
Counters ==
    pc # "writeFailed" =>
        /\ count = Len(RecordsOfAll(card)) % Uint32
        /\ overrunTotal = OverrunOf(card) % Uint32
        /\ spins = (overrunTotal + OverrunOf(Waiting) + overrun) % Uint16

DataInv == InOrder /\ EmptyLast /\ Counters

\* Steps of the program or of its environment that move no record.
LEMMA DataKept ==
    ASSUME DataInv,
           UNCHANGED <<block, fullQueue, fullHead, fullTail, curBlock>>,
           UNCHANGED <<card, acquired, count, overrunTotal, spins, overrun>>,
           closeFile => closeFile', pc = "writeFailed" => pc' = "writeFailed"
    PROVE  DataInv'
<1>1. UNCHANGED <<FullBlocks, CurrentBlocks>>
  BY SameBlocks
<1>2. UNCHANGED <<Waiting, Sent>>
  BY <1>1, Zenon DEF Waiting, Sent
<1>3. UNCHANGED <<card, acquired, count, overrunTotal, spins, overrun, curBlock>>
  BY Zenon
<1>4. pc' # "writeFailed" => pc # "writeFailed"
  BY Zenon
<1>5. InOrder'
  BY <1>2, <1>3, <1>4, Zenon DEF DataInv, InOrder
<1>6. EmptyLast'
  BY <1>2, <1>3, <1>4, Zenon DEF DataInv, EmptyLast
<1>7. Counters'
  BY <1>2, <1>3, <1>4, Zenon DEF DataInv, Counters
<1>8. QED
  BY <1>5, <1>6, <1>7, Zenon DEF DataInv

\* Concatenation is associative,
LEMMA ConcatAgain ==
    ASSUME NEW V, NEW a \in Seq(V), NEW b \in Seq(V), NEW c \in Seq(V)
    PROVE  (a \o b) \o c = a \o (b \o c)
  BY ConcatAssociative, SMTT(30)

Parts(a, b, c, d) == (a \o (b \o c)) \o d = a \o (b \o (c \o d))

\* with four parts too.
LEMMA FourParts ==
    ASSUME NEW a \in Seq(Records), NEW b \in Seq(Records), NEW c \in Seq(Records),
           NEW d \in Seq(Records)
    PROVE  Parts(a, b, c, d)
<1> DEFINE g == b \o c
<1>1. g \in Seq(Records)
  BY ConcatProperties
<1>2. g \o d = b \o (c \o d)
  BY ConcatAgain
<1> HIDE DEF g
<1>3. (a \o g) \o d = a \o (g \o d)
  BY <1>1, ConcatAgain
<1>4. QED
  BY <1>2, <1>3, Zenon DEF g, Parts

\* The 16-bit counter wraps wherever the 32-bit one does.
LEMMA WidthsDivide == Uint32 % Uint16 = 0 /\ Uint16 % Uint16 = 0 /\ Uint32 % Uint32 = 0
<1>1. Uint32 % Uint16 = 0
  BY WidthsAssumption, Zenon
<1>2. \A m \in Nat \ {0} : m % m = 0
  <2>1. TAKE m \in Nat \ {0}
  <2>2. (0 + m * 1) % m = 0 % m
    BY ModShift
  <2>3. 0 + m * 1 = m /\ 0 % m = 0
    OBVIOUS
  <2>4. QED
    BY <2>2, <2>3
<1>3. QED
  BY <1>1, <1>2, Widths

\* A counter reduced to its width may be added to before or after it is.
LEMMA ModAdd16 ==
    ASSUME NEW x \in Nat, NEW y \in Nat
    PROVE  /\ ((x % Uint16) + y) % Uint16 = (x + y) % Uint16
           /\ ((x % Uint32) + y) % Uint16 = (x + y) % Uint16
           /\ ((x % Uint32) + y) % Uint32 = (x + y) % Uint32
<1>1. Uint16 \in Nat \ {0} /\ Uint32 \in Nat \ {0}
  BY Widths
<1>2. Uint32 % Uint16 = 0 /\ Uint16 % Uint16 = 0 /\ Uint32 % Uint32 = 0
  BY WidthsDivide
<1>3. ((x % Uint16) + y) % Uint16 = (x + y) % Uint16
  BY <1>1, <1>2, ModAdd
<1>4. ((x % Uint32) + y) % Uint16 = (x + y) % Uint16
  BY <1>1, <1>2, ModAdd
<1>5. ((x % Uint32) + y) % Uint32 = (x + y) % Uint32
  BY <1>1, <1>2, ModAdd
<1>6. QED
  BY <1>3, <1>4, <1>5

\* The record read by this pass is the last of the block being filled.
LEMMA FillRecords ==
    ASSUME LogInv, FillBlock
    PROVE  \E read \in Seq(Messages) :
              /\ acquired' = acquired \o read
              /\ RecordsOf(Filled) = RecordsOfAll(CurrentBlocks) \o read
<1>1. Opened \in Blocks /\ Opened.count < DataDim
  BY OpenedTyped DEF LogInv
<1>2. RecordsOf(Opened) = RecordsOfAll(CurrentBlocks)
  <2>1. CASE curBlock # NoBlock
    <3>1. Opened = block[curBlock] /\ CurrentBlocks = <<block[curBlock]>>
      BY <2>1, Zenon DEF Opened, CurrentBlocks
    <3>2. RecordsOfAll(<<Opened>>) = RecordsOf(Opened)
      BY <1>1, RecordsSingle
    <3>3. QED
      BY <3>1, <3>2, Zenon
  <2>2. CASE curBlock = NoBlock
    <3>1. Opened.count = 0
      <4>1. Opened = [block[PassBlock] EXCEPT !.count = 0, !.overrun = overrun % Uint16]
        BY <2>2, Zenon DEF Opened
      <4>2. block[PassBlock] \in Blocks
        BY PassBlockOwned DEF LogInv, TypeOK
      <4>3. QED
        BY <4>1, <4>2 DEF Blocks
    <3>2. CurrentBlocks = <<>>
      BY <2>2, Zenon DEF CurrentBlocks
    <3>3. QED
      BY <3>1, <3>2, RecordsOfEmpty, RecordsEmpty
  <2>3. QED
    BY <2>1, <2>2
<1>3. /\ RecordsOf(Opened) \in Seq(Records)
      /\ acquired \in Seq(Messages) /\ fifo \in Seq(Messages)
  <2>1. acquired \in Seq(Messages) /\ fifo \in Seq(Messages)
    BY Zenon DEF LogInv, TypeOK
  <2>2. QED
    BY <1>1, <2>1, RecordsOfType
<1>4. CASE fifo = <<>>
  <2>1. Filled = Opened /\ acquired' = acquired
    BY <1>4, Zenon DEF Filled, FillBlock, ReadBus
  <2>2. acquired \o <<>> = acquired /\ RecordsOf(Opened) \o <<>> = RecordsOf(Opened)
    BY <1>3, ConcatEmptySeq
  <2>3. <<>> \in Seq(Messages)
    BY EmptySeq
  <2>4. QED
    BY <1>2, <2>1, <2>2, <2>3, Zenon
<1>5. CASE fifo # <<>>
  <2> DEFINE m == Head(fifo)
  <2>1. m \in Messages /\ m \in Records
    BY <1>3, <1>5, HeadTailProperties, BoundsAssumption DEF Messages, Records
  <2>2. /\ acquired' = Append(acquired, m)
        /\ Filled = [Opened EXCEPT !.count = @ + 1, !.data[Opened.count + 1] = m]
    BY <1>5, Zenon DEF Filled, FillBlock, ReadBus
  <2> HIDE DEF m
  <2>3. /\ Filled.count = Opened.count + 1
        /\ Filled.data = [Opened.data EXCEPT ![Opened.count + 1] = m]
    BY <1>1, <2>2 DEF Blocks
  <2>4. Filled \in Blocks
    BY FilledTyped DEF LogInv
  <2>5. RecordsOf(Filled) = Append(RecordsOf(Opened), m)
    BY <1>1, <2>1, <2>3, <2>4, RecordsOfMore
  <2>6. /\ <<m>> \in Seq(Messages)
        /\ Append(acquired, m) = acquired \o <<m>>
        /\ Append(RecordsOf(Opened), m) = RecordsOf(Opened) \o <<m>>
    BY <1>3, <2>1, AppendIsConcat
  <2>7. QED
    BY <1>2, <2>2, <2>5, <2>6, Zenon
<1>6. QED
  BY <1>4, <1>5

\* After a pass that fills a block, what waits is the queue and the block as filled.
LEMMA FillWaiting ==
    ASSUME LogInv, FillBlock
    PROVE  Waiting' = FullBlocks \o <<Filled>>
<1>1. FullBlocks \in Seq(Blocks) /\ Filled \in Blocks
  BY WaitingType, FillMoves
<1>2. CASE Filled.count >= DataDim
  <2>1. FullBlocks' = Append(FullBlocks, Filled) /\ CurrentBlocks' = <<>>
    BY <1>2, FillMoves, Zenon
  <2>2. /\ Append(FullBlocks, Filled) = FullBlocks \o <<Filled>>
        /\ FullBlocks \o <<Filled>> \in Seq(Blocks)
    BY <1>1, AppendIsConcat, ConcatProperties
  <2>3. (FullBlocks \o <<Filled>>) \o <<>> = FullBlocks \o <<Filled>>
    BY <2>2, ConcatEmptySeq
  <2>4. QED
    BY <2>1, <2>2, <2>3, Zenon DEF Waiting
<1>3. CASE ~(Filled.count >= DataDim)
  BY <1>3, FillMoves, Zenon DEF Waiting
<1>4. QED
  BY <1>2, <1>3

\* The overruns of the block being opened are the passes that found none, up to
\* the width of its field.
LEMMA FillOverrun ==
    ASSUME LogInv, FillBlock
    PROVE  /\ Filled.overrun \in Nat /\ overrun \in Nat
           /\ \/ /\ overrun' = overrun
                 /\ OverrunOf(CurrentBlocks) = Filled.overrun
              \/ /\ overrun' = 0 /\ CurrentBlocks = <<>>
                 /\ Filled.overrun = overrun % Uint16
<1>1. Opened \in Blocks /\ Filled \in Blocks
  BY OpenedTyped, FilledTyped DEF LogInv
<1>2. Opened.overrun \in Nat /\ Filled.overrun \in Nat
  BY <1>1, BlocksAreCounted DEF BlocksCounted
<1>3. Filled.overrun = Opened.overrun
  <2>1. CASE fifo = <<>>
    BY <2>1, Zenon DEF Filled
  <2>2. CASE fifo # <<>>
    <3>1. Filled = [Opened EXCEPT !.count = @ + 1, !.data[Opened.count + 1] = Head(fifo)]
      BY <2>2, Zenon DEF Filled
    <3>2. QED
      BY <1>1, <3>1 DEF Blocks
  <2>3. QED
    BY <2>1, <2>2
<1>4. overrun \in Nat
  <2>1. overrun \in 0 .. Uint32 - 1
    BY Zenon DEF LogInv, TypeOK
  <2>2. QED
    BY <2>1, Widths
<1>5. CASE curBlock # NoBlock
  <2>1. Opened = block[curBlock] /\ CurrentBlocks = <<block[curBlock]>>
        /\ overrun' = overrun
    BY <1>5, Zenon DEF Opened, CurrentBlocks, FillBlock
  <2>2. OverrunOf(<<Opened>>) = Opened.overrun
    BY <1>2, OverrunSingle
  <2>3. QED
    BY <1>2, <1>3, <1>4, <2>1, <2>2, Zenon
<1>6. CASE curBlock = NoBlock
  <2>1. Opened = [block[PassBlock] EXCEPT !.count = 0, !.overrun = overrun % Uint16]
        /\ CurrentBlocks = <<>> /\ overrun' = 0
    BY <1>6, Zenon DEF Opened, CurrentBlocks, FillBlock
  <2>2. block[PassBlock] \in Blocks
    BY PassBlockOwned DEF LogInv, TypeOK
  <2>3. Opened.overrun = overrun % Uint16
    BY <2>1, <2>2 DEF Blocks
  <2>4. QED
    BY <1>2, <1>3, <1>4, <2>1, <2>3, Zenon
<1>7. QED
  BY <1>5, <1>6

\* The overruns of blocks one after the other.
LEMMA BlockOverruns ==
    ASSUME NEW s \in Seq(Blocks)
    PROVE  /\ OverrunOf(s) \in Nat
           /\ \A t \in Seq(Blocks) : OverrunOf(s \o t) = OverrunOf(s) + OverrunOf(t)
           /\ \A b \in Blocks : b.overrun \in Nat /\ OverrunOf(<<b>>) = b.overrun
<1>1. \A x \in Blocks : x.overrun \in Nat
  BY BlocksAreCounted DEF BlocksCounted
<1>2. OverrunOf(s) \in Nat
  BY <1>1, OverrunType DEF Counted
<1>3. ASSUME NEW t \in Seq(Blocks)
      PROVE  OverrunOf(s \o t) = OverrunOf(s) + OverrunOf(t)
  BY <1>1, OverrunConcat
<1>4. ASSUME NEW b \in Blocks
      PROVE  OverrunOf(<<b>>) = b.overrun
  BY <1>1, OverrunSingle
<1>5. QED
  BY <1>1, <1>2, <1>3, <1>4

\* The counters of the summary are numbers within their widths.
LEMMA CountersType ==
    ASSUME LogInv
    PROVE  /\ count \in Nat /\ overrunTotal \in Nat /\ overrun \in Nat /\ spins \in Nat
           /\ spins < Uint16
<1>1. /\ count \in 0 .. Uint32 - 1 /\ overrunTotal \in 0 .. Uint32 - 1
      /\ overrun \in 0 .. Uint32 - 1 /\ spins \in 0 .. Uint16 - 1
  BY Zenon DEF LogInv, TypeOK
<1>2. QED
  BY <1>1, Widths

\* A pass that takes a buffer, records a message, or queues a full block keeps DataInv.
LEMMA FillKeeps ==
    ASSUME LogInv, DataInv, FillBlock
    PROVE  DataInv'
<1>1. pc # "writeFailed" /\ ~closeFile
  BY DEF FillBlock
<1>2. UNCHANGED <<card, count, overrunTotal, spins>>
  BY Zenon DEF FillBlock, drainVars
<1>3. /\ FullBlocks \in Seq(Blocks) /\ CurrentBlocks \in Seq(Blocks)
      /\ card \in Seq(Blocks) /\ Filled \in Blocks /\ Sent \in Seq(Blocks)
  BY WaitingType, FillMoves
<1>4. <<Filled>> \in Seq(Blocks)
  BY <1>3
<1>5. InOrder'
  <2>1. acquired = RecordsOfAll(card) \o RecordsOfAll(Waiting)
    BY <1>1, Zenon DEF DataInv, InOrder
  <2>2. PICK read \in Seq(Messages) :
           /\ acquired' = acquired \o read
           /\ RecordsOf(Filled) = RecordsOfAll(CurrentBlocks) \o read
    BY FillRecords
  <2> DEFINE c == RecordsOfAll(card)
             f == RecordsOfAll(FullBlocks)
             k == RecordsOfAll(CurrentBlocks)
  <2>3. /\ c \in Seq(Records) /\ f \in Seq(Records) /\ k \in Seq(Records)
        /\ read \in Seq(Records)
    <3>1. Messages \subseteq Records
      BY BoundsAssumption DEF Messages, Records
    <3>2. QED
      BY <1>3, <3>1, RecordsType
  <2>4. RecordsOfAll(Waiting) = f \o k
    BY <1>3, RecordsConcat DEF Waiting
  <2>5. RecordsOfAll(Waiting') = f \o (k \o read)
    <3>1. RecordsOfAll(FullBlocks \o <<Filled>>) = f \o RecordsOfAll(<<Filled>>)
      BY <1>3, <1>4, RecordsConcat
    <3>2. RecordsOfAll(<<Filled>>) = RecordsOf(Filled)
      BY <1>3, RecordsSingle
    <3>3. QED
      BY <2>2, <3>1, <3>2, FillWaiting, Zenon
  <2> HIDE DEF c, f, k
  <2>6. (c \o (f \o k)) \o read = c \o (f \o (k \o read))
    <3>1. Parts(c, f, k, read)
      BY <2>3, FourParts
    <3>2. QED
      BY <3>1, Zenon DEF Parts
  <2>7. acquired' = c \o RecordsOfAll(Waiting')
    <3>1. acquired = c \o (f \o k)
      BY <2>1, <2>4, Zenon DEF c
    <3>2. QED
      BY <2>2, <2>5, <2>6, <3>1, Zenon
  <2>8. RecordsOfAll(card') = c /\ RecordsOfAll(Waiting)' = RecordsOfAll(Waiting')
    BY <1>2, Zenon DEF c
  <2>9. QED
    BY <2>7, <2>8, Zenon DEF InOrder
<1>6. EmptyLast'
  <2>1. \A i \in 1 .. Len(Sent) : Sent[i].count # 0
    BY <1>1, Zenon DEF DataInv, EmptyLast
  <2>2. CASE Filled.count >= DataDim
    <3>1. Sent' = Append(Sent, Filled)
      <4>1. FullBlocks' = Append(FullBlocks, Filled)
        BY <2>2, FillMoves, Zenon
      <4>2. card \o Append(FullBlocks, Filled) = Append(card \o FullBlocks, Filled)
        BY <1>3, AppendToConcat
      <4>3. QED
        BY <1>2, <4>1, <4>2, Zenon DEF Sent
    <3>2. Filled.count # 0
      <4>1. Filled.count \in Nat /\ DataDim \in Nat \ {0}
        BY <1>3, SizesAssumption DEF Blocks
      <4>2. QED
        BY <2>2, <4>1
    <3>3. \A i \in 1 .. Len(Sent') : (Sent')[i].count # 0
      BY <1>3, <2>1, <3>1, <3>2
    <3>4. QED
      BY <3>3, Zenon DEF EmptyLast
  <2>3. CASE ~(Filled.count >= DataDim)
    <3>1. Sent' = Sent
      BY <1>2, <2>3, FillMoves, Zenon DEF Sent
    <3>2. QED
      BY <2>1, <3>1, Zenon DEF EmptyLast
  <2>4. QED
    BY <2>2, <2>3
<1>7. Counters'
  <2> DEFINE f == OverrunOf(FullBlocks)
             k == OverrunOf(CurrentBlocks)
             t == overrunTotal
  <2>1. /\ count = Len(RecordsOfAll(card)) % Uint32
        /\ overrunTotal = OverrunOf(card) % Uint32
        /\ spins = (t + OverrunOf(Waiting) + overrun) % Uint16
    BY <1>1, Zenon DEF DataInv, Counters
  <2>2. OverrunOf(Waiting) = f + k /\ f \in Nat /\ k \in Nat
    BY <1>3, BlockOverruns DEF Waiting
  <2>3. OverrunOf(Waiting') = f + Filled.overrun
    <3>1. OverrunOf(FullBlocks \o <<Filled>>) = f + Filled.overrun
      BY <1>3, <1>4, BlockOverruns
    <3>2. QED
      BY <3>1, FillWaiting, Zenon
  <2>4. t \in Nat /\ overrun \in Nat
    BY CountersType
  <2> HIDE DEF f, k, t
  <2>5. spins = (t + OverrunOf(Waiting') + overrun') % Uint16
    <3>1. CASE overrun' = overrun /\ k = Filled.overrun
      BY <2>1, <2>2, <2>3, <3>1, Zenon
    <3>2. CASE overrun' = 0 /\ CurrentBlocks = <<>> /\ Filled.overrun = overrun % Uint16
      <4>1. k = 0
        BY <3>2, OverrunEmpty, Zenon DEF k
      <4> DEFINE r == overrun % Uint16
      <4>2. r \in Nat
        BY <2>4, Widths, ModType
      <4>3. (r + (t + f)) % Uint16 = (overrun + (t + f)) % Uint16
        <5>1. t + f \in Nat
          BY <2>2, <2>4
        <5>2. QED
          BY <2>4, <5>1, ModAdd16
      <4> HIDE DEF r
      <4>4. t + OverrunOf(Waiting') + overrun' = r + (t + f)
        <5>1. Filled.overrun = r
          BY <3>2, Zenon DEF r
        <5>2. QED
          BY <2>2, <2>3, <2>4, <3>2, <4>2, <5>1
      <4>5. t + OverrunOf(Waiting) + overrun = overrun + (t + f)
        BY <2>2, <2>4, <4>1
      <4>6. QED
        BY <2>1, <4>3, <4>4, <4>5, Zenon
    <3>3. QED
      BY <3>1, <3>2, FillOverrun, Zenon DEF k
  <2>6. QED
    BY <1>2, <2>1, <2>5, Zenon DEF Counters, t
<1>8. QED
  BY <1>5, <1>6, <1>7, Zenon DEF DataInv

\* So does one that finds no buffer,
LEMMA OverrunKeeps ==
    ASSUME LogInv, DataInv, CountOverrun
    PROVE  DataInv'
<1>1. pc # "writeFailed" /\ pc' # "writeFailed"
  BY DEF CountOverrun
<1>2. UNCHANGED <<block, fullQueue, fullHead, fullTail, curBlock>>
  BY Zenon DEF CountOverrun, queueVars
<1>3. UNCHANGED <<Waiting, Sent, card>>
  <2>1. UNCHANGED <<FullBlocks, CurrentBlocks>>
    BY <1>2, SameBlocks
  <2>2. card' = card
    BY Zenon DEF CountOverrun, drainVars
  <2>3. QED
    BY <2>1, <2>2, Zenon DEF Waiting, Sent
<1>4. InOrder' /\ EmptyLast'
  <2>1. UNCHANGED <<acquired, closeFile, curBlock>>
    BY Zenon DEF CountOverrun
  <2>2. QED
    BY <1>1, <1>3, <2>1, Zenon DEF DataInv, InOrder, EmptyLast
<1>5. Counters'
  <2> DEFINE w == overrunTotal + OverrunOf(Waiting)
  <2>1. /\ count = Len(RecordsOfAll(card)) % Uint32
        /\ overrunTotal = OverrunOf(card) % Uint32
        /\ spins = (w + overrun) % Uint16
    BY <1>1, Zenon DEF DataInv, Counters
  <2>2. /\ overrun' = (overrun + 1) % Uint32 /\ spins' = (spins + 1) % Uint16
        /\ UNCHANGED <<count, overrunTotal>>
    BY Zenon DEF CountOverrun, drainVars
  <2>3. overrun \in Nat /\ overrunTotal \in Nat /\ OverrunOf(Waiting) \in Nat
    BY CountersType, WaitingType, BlockOverruns
  <2>4. w \in Nat /\ w + overrun \in Nat /\ overrun + 1 \in Nat
    BY <2>3
  <2>5. (w + overrun') % Uint16 = ((w + overrun) + 1) % Uint16
    <3> HIDE DEF w
    <3> DEFINE r == (overrun + 1) % Uint32
    <3>1. (r + w) % Uint16 = ((overrun + 1) + w) % Uint16
      BY <2>4, ModAdd16
    <3>2. r \in Nat
      BY <2>4, Widths, ModType
    <3> HIDE DEF r
    <3>3. w + overrun' = r + w
      <4>1. overrun' = r
        BY <2>2, Zenon DEF r
      <4>2. QED
        BY <2>4, <3>2, <4>1
    <3>4. (w + overrun) + 1 = (overrun + 1) + w
      BY <2>3, <2>4
    <3>5. QED
      BY <3>1, <3>3, <3>4, Zenon
  <2>6. spins' = ((w + overrun) + 1) % Uint16
    <3> HIDE DEF w
    <3>1. (((w + overrun) % Uint16) + 1) % Uint16 = ((w + overrun) + 1) % Uint16
      BY <2>4, ModAdd16
    <3>2. QED
      BY <2>1, <2>2, <3>1, Zenon
  <2>7. w' = w
    BY <1>3, <2>2, Zenon
  <2>8. spins' = (w' + overrun') % Uint16
    BY <2>5, <2>6, <2>7, Zenon
  <2>9. QED
    BY <1>3, <2>1, <2>2, <2>8, Zenon DEF Counters
<1>6. QED
  BY <1>4, <1>5, Zenon DEF DataInv

\* and one that flushes the current block, perhaps without a record in it.
LEMMA FlushKeeps ==
    ASSUME LogInv, DataInv, FlushCurBlock
    PROVE  DataInv'
<1>1. /\ pc # "writeFailed" /\ pc' # "writeFailed" /\ closeFile /\ closeFile'
  BY DEF FlushCurBlock
<1>2. UNCHANGED <<card, acquired, count, overrunTotal, spins, overrun>>
  BY Zenon DEF FlushCurBlock, drainVars
<1>3. Waiting' = Waiting /\ curBlock' = NoBlock
  BY FlushMoves
<1>4. InOrder' /\ Counters'
  BY <1>1, <1>2, <1>3, Zenon DEF DataInv, InOrder, Counters
<1>5. EmptyLast'
  <2>1. /\ FullBlocks \in Seq(Blocks) /\ card \in Seq(Blocks) /\ Sent \in Seq(Blocks)
        /\ CurrentBlocks \in Seq(Blocks)
    BY WaitingType
  <2>2. CASE curBlock = NoBlock
    <3>1. FullBlocks' = FullBlocks
      <4>1. FullBlocks' = FullBlocks \o <<>>
        BY <2>2, FlushMoves, Zenon
      <4>2. QED
        BY <2>1, <4>1, ConcatEmptySeq
    <3>2. Sent' = Sent
      BY <1>2, <3>1, Zenon DEF Sent
    <3>3. \A i \in 1 .. Len(Sent) : Sent[i].count = 0 => i = Len(Sent)
      BY <1>1, Zenon DEF DataInv, EmptyLast
    <3>4. QED
      BY <1>1, <1>3, <3>2, <3>3, Zenon DEF EmptyLast
  <2>3. CASE curBlock # NoBlock
    <3> DEFINE b == block[curBlock]
    <3>1. CurrentBlocks = <<b>>
      BY <2>3, FlushMoves, Zenon
    <3>2. b \in Blocks
      <4>1. curBlock \in Buffers \cup {NoBlock} /\ block \in [Buffers -> Blocks]
        BY Zenon DEF LogInv, TypeOK
      <4>2. QED
        BY <2>3, <4>1
    <3> HIDE DEF b
    <3>3. Sent' = Append(Sent, b)
      <4>1. FullBlocks' = FullBlocks \o <<b>>
        BY <3>1, FlushMoves, Zenon
      <4>2. FullBlocks \o <<b>> = Append(FullBlocks, b)
        BY <2>1, <3>2, AppendIsConcat
      <4>3. card \o Append(FullBlocks, b) = Append(card \o FullBlocks, b)
        BY <2>1, <3>2, AppendToConcat
      <4>4. QED
        BY <1>2, <4>1, <4>2, <4>3, Zenon DEF Sent
    <3>4. \A i \in 1 .. Len(Sent) : Sent[i].count # 0
      BY <1>1, <2>3, Zenon DEF DataInv, EmptyLast
    <3>5. \A i \in 1 .. Len(Sent') : (Sent')[i].count = 0 => i = Len(Sent')
      BY <2>1, <3>2, <3>3, <3>4
    <3>6. QED
      BY <1>1, <1>3, <3>5, Zenon DEF EmptyLast
  <2>4. QED
    BY <2>2, <2>3
<1>6. QED
  BY <1>4, <1>5, Zenon DEF DataInv

\* What a block adds at the end of others, or at their beginning.
Adds(s, b, t) ==
    /\ RecordsOfAll(t) = RecordsOfAll(s) \o RecordsOf(b)
    /\ OverrunOf(t) = OverrunOf(s) + b.overrun
Precedes(b, s, t) ==
    /\ RecordsOfAll(t) = RecordsOf(b) \o RecordsOfAll(s)
    /\ OverrunOf(t) = b.overrun + OverrunOf(s)

\* What a block adds at either end, in records and in overruns.
LEMMA BlockAdds ==
    ASSUME NEW s \in Seq(Blocks), NEW b \in Blocks
    PROVE  Adds(s, b, s \o <<b>>) /\ Precedes(b, s, <<b>> \o s)
<1>1. <<b>> \in Seq(Blocks)
  OBVIOUS
<1>2. RecordsOfAll(<<b>>) = RecordsOf(b)
  BY RecordsSingle
<1>3. OverrunOf(<<b>>) = b.overrun
  BY BlockOverruns
<1> DEFINE u == <<b>>
<1> HIDE DEF u
<1>4. u \in Seq(Blocks)
  BY <1>1 DEF u
<1>5. RecordsOfAll(s \o u) = RecordsOfAll(s) \o RecordsOfAll(u)
  BY <1>4, RecordsConcat
<1>6. RecordsOfAll(u \o s) = RecordsOfAll(u) \o RecordsOfAll(s)
  BY <1>4, RecordsConcat
<1>7. OverrunOf(s \o u) = OverrunOf(s) + OverrunOf(u)
  BY <1>4, BlockOverruns
<1>8. OverrunOf(u \o s) = OverrunOf(u) + OverrunOf(s)
  BY <1>4, BlockOverruns
<1>9. QED
  BY <1>2, <1>3, <1>5, <1>6, <1>7, <1>8, Zenon DEF Adds, Precedes, u

\* The block written leaves the queue for the card.
LEMMA WriteKeeps ==
    ASSUME LogInv, DataInv, WriteBlock
    PROVE  DataInv'
<1> DEFINE b == block[NextToWrite]
           full == FullBlocks'
           card2 == card'
<1>1. pc # "writeFailed" /\ pc' # "writeFailed"
  BY DEF WriteBlock
<1>2. /\ card' = Append(card, b)
      /\ count' = (count + b.count) % Uint32
      /\ overrunTotal' = (overrunTotal + b.overrun) % Uint32
      /\ UNCHANGED <<curBlock, block, overrun, acquired, spins>>
      /\ closeFile => closeFile'
  BY Zenon DEF WriteBlock, fillVars
<1>3. /\ b \in Blocks /\ full \in Seq(Blocks) /\ FullBlocks = <<b>> \o full
      /\ CurrentBlocks' = CurrentBlocks
  BY DrainMoves
<1>4. /\ card \in Seq(Blocks) /\ CurrentBlocks \in Seq(Blocks) /\ FullBlocks \in Seq(Blocks)
  BY WaitingType
<1> DEFINE rest == full \o CurrentBlocks
<1>5. Waiting' = rest
  BY <1>3, Zenon DEF Waiting
<1> HIDE DEF b, full, card2
<1>6. <<b>> \in Seq(Blocks) /\ rest \in Seq(Blocks)
  BY <1>3, <1>4, ConcatProperties
<1>7. Waiting = <<b>> \o rest
  <2>1. (<<b>> \o full) \o CurrentBlocks = <<b>> \o (full \o CurrentBlocks)
    BY <1>3, <1>4, <1>6, ConcatAgain
  <2>2. QED
    BY <1>3, <2>1, Zenon DEF Waiting
<1> HIDE DEF rest
<1>8. card2 = card \o <<b>> /\ card2 \in Seq(Blocks)
  BY <1>2, <1>3, <1>4, AppendIsConcat, AppendProperties DEF card2
<1>added. Adds(card, b, card2) /\ Precedes(b, rest, Waiting)
  <2>1. Adds(card, b, card \o <<b>>)
    BY <1>3, <1>4, BlockAdds
  <2>2. Precedes(b, rest, <<b>> \o rest)
    BY <1>3, <1>6, BlockAdds
  <2>3. QED
    BY <1>7, <1>8, <2>1, <2>2, Zenon
<1>9. InOrder'
  <2>1. acquired = RecordsOfAll(card) \o RecordsOfAll(Waiting)
    BY <1>1, Zenon DEF DataInv, InOrder
  <2> DEFINE c == RecordsOfAll(card)
             r == RecordsOf(b)
             w == RecordsOfAll(rest)
  <2>2. c \in Seq(Records) /\ r \in Seq(Records) /\ w \in Seq(Records)
    BY <1>3, <1>4, <1>6, RecordsType, RecordsOfType
  <2>4. RecordsOfAll(Waiting) = r \o w
    BY <1>added, Zenon DEF Precedes
  <2>5. RecordsOfAll(card2) = c \o r
    BY <1>added, Zenon DEF Adds
  <2> HIDE DEF c, r, w
  <2>6. (c \o r) \o w = c \o (r \o w)
    BY <2>2, ConcatAgain
  <2>7. acquired = RecordsOfAll(card2) \o w
    BY <2>1, <2>4, <2>5, <2>6, Zenon DEF c
  <2>8. acquired' = RecordsOfAll(card') \o RecordsOfAll(Waiting')
    BY <1>2, <1>5, <2>7, Zenon DEF w, card2
  <2>9. QED
    BY <2>8, Zenon DEF InOrder
<1>10. Sent' = Sent
  <2>1. Sent' = card2 \o full
    BY Zenon DEF Sent, card2, full
  <2>2. (card \o <<b>>) \o full = card \o (<<b>> \o full)
    BY <1>3, <1>4, <1>6, ConcatAgain
  <2>3. QED
    BY <1>3, <1>8, <2>1, <2>2, Zenon DEF Sent
<1>11. EmptyLast'
  BY <1>1, <1>2, <1>10, Zenon DEF DataInv, EmptyLast
<1>12. Counters'
  <2> DEFINE l == Len(RecordsOfAll(card))
             o == OverrunOf(card)
             w == OverrunOf(rest)
  <2>1. /\ count = l % Uint32
        /\ overrunTotal = o % Uint32
        /\ spins = (overrunTotal + OverrunOf(Waiting) + overrun) % Uint16
    BY <1>1, Zenon DEF DataInv, Counters
  <2>2. l \in Nat /\ o \in Nat /\ w \in Nat /\ b.overrun \in Nat /\ b.count \in Nat
    <3>1. l \in Nat
      BY <1>4, RecordsType
    <3>2. b.count \in Nat
      BY <1>3, SizesAssumption DEF Blocks
    <3>3. QED
      BY <1>3, <1>4, <1>6, <3>1, <3>2, BlockOverruns
  <2>3. /\ OverrunOf(card2) = o + b.overrun
        /\ OverrunOf(Waiting) = b.overrun + w
    BY <1>added, Zenon DEF Adds, Precedes
  <2>4. Len(RecordsOfAll(card2)) = l + b.count
    <3>1. RecordsOfAll(card2) = RecordsOfAll(card) \o RecordsOf(b)
      BY <1>added, Zenon DEF Adds
    <3>2. RecordsOfAll(card) \in Seq(Records) /\ RecordsOf(b) \in Seq(Records)
          /\ Len(RecordsOf(b)) = b.count
      BY <1>3, <1>4, RecordsType, RecordsOfType
    <3>3. QED
      BY <3>1, <3>2, ConcatProperties
  <2>5. overrun \in Nat /\ overrunTotal \in Nat
    BY CountersType
  <2> HIDE DEF l, o, w
  <2>6. count' = Len(RecordsOfAll(card')) % Uint32
    <3>1. ((l % Uint32) + b.count) % Uint32 = (l + b.count) % Uint32
      BY <2>2, ModAdd16
    <3>2. QED
      BY <1>2, <2>1, <2>4, <3>1, Zenon DEF card2
  <2>7. overrunTotal' = OverrunOf(card') % Uint32
    <3>1. ((o % Uint32) + b.overrun) % Uint32 = (o + b.overrun) % Uint32
      BY <2>2, ModAdd16
    <3>2. QED
      BY <1>2, <2>1, <2>3, <3>1, Zenon DEF card2
  <2>8. spins' = (overrunTotal' + OverrunOf(Waiting') + overrun') % Uint16
    <3> DEFINE x == overrunTotal + b.overrun
               y == w + overrun
               t == x % Uint32
    <3>1. x \in Nat /\ y \in Nat
      BY <2>2, <2>5
    <3>2. overrunTotal + OverrunOf(Waiting) + overrun = x + y
      BY <2>2, <2>3, <2>5
    <3> HIDE DEF x, y
    <3>3. (t + y) % Uint16 = (x + y) % Uint16
      BY <3>1, ModAdd16
    <3>4. t \in Nat
      BY <3>1, Widths, ModType
    <3>5. overrunTotal' = t
      BY <1>2, Zenon DEF x
    <3> HIDE DEF t
    <3>6. t + w + overrun = t + y
      BY <2>2, <2>5, <3>4 DEF y
    <3>7. OverrunOf(Waiting') = w
      BY <1>5, Zenon DEF w
    <3>8. QED
      BY <1>2, <2>1, <3>2, <3>3, <3>5, <3>6, <3>7, Zenon
  <2>9. QED
    BY <2>6, <2>7, <2>8, Zenon DEF Counters
<1>13. QED
  BY <1>9, <1>11, <1>12, Zenon DEF DataInv

\* The step that fails a write gives up what DataInv says.
LEMMA FailKeeps ==
    ASSUME WriteFails
    PROVE  DataInv'
<1>1. pc' = "writeFailed"
  BY DEF WriteFails
<1>2. QED
  BY <1>1, Zenon DEF DataInv, InOrder, EmptyLast, Counters

\* Every step of logData() keeps DataInv,
LEMMA DataNext ==
    ASSUME LogInv, DataInv, [Next]_vars
    PROVE  DataInv'
<1>1. CASE Environment
  <2>1. /\ UNCHANGED <<block, fullQueue, fullHead, fullTail, curBlock>>
        /\ UNCHANGED <<card, acquired, count, overrunTotal, spins, overrun>>
        /\ closeFile' = closeFile /\ pc' = pc
    BY <1>1, Zenon
       DEF Environment, MessageArrives, BusGoesQuiet, SilenceExpires, RequestExpires,
           TypeCharacter, CardReady, queueVars, fillVars, drainVars
  <2>2. QED
    BY <2>1, DataKept
<1>2. CASE \/ SetTimeWhileWaiting \/ FirstMessage \/ PollSerial \/ SkipDrain
           \/ ExitLoop \/ CloseLog \/ CloseFails
  <2> DEFINE Quiet ==
               /\ UNCHANGED <<block, fullQueue, fullHead, fullTail, curBlock>>
               /\ UNCHANGED <<card, acquired, count, overrunTotal, spins, overrun>>
               /\ closeFile' = TRUE \/ closeFile' = closeFile
               /\ pc \in {"wait", "poll", "drain", "close"}
  <2>1. SetTimeWhileWaiting => Quiet
    BY Zenon DEF SetTimeWhileWaiting, queueVars, fillVars, drainVars
  <2>2. FirstMessage => Quiet
    BY Zenon DEF FirstMessage, queueVars, fillVars
  <2>3. PollSerial => Quiet
    BY Zenon DEF PollSerial, queueVars, fillVars, drainVars
  <2>4. SkipDrain => Quiet
    BY Zenon DEF SkipDrain, queueVars, fillVars, drainVars
  <2>5. ExitLoop => Quiet
    BY Zenon DEF ExitLoop, queueVars, fillVars, drainVars
  <2>6. CloseLog => Quiet
    BY Zenon DEF CloseLog, queueVars, fillVars
  <2>7. CloseFails => Quiet
    BY Zenon DEF CloseFails, queueVars, fillVars, drainVars
  <2>8. Quiet
    BY <1>2, <2>1, <2>2, <2>3, <2>4, <2>5, <2>6, <2>7, Zenon
  <2>9. pc # "writeFailed" /\ (closeFile => closeFile')
    BY <2>8
  <2>10. QED
    BY <2>8, <2>9, DataKept, Zenon
<1>3. CASE UNCHANGED vars
  <2>1. /\ UNCHANGED <<block, fullQueue, fullHead, fullTail, curBlock>>
        /\ UNCHANGED <<card, acquired, count, overrunTotal, spins, overrun>>
        /\ closeFile' = closeFile /\ pc' = pc
    BY <1>3, Zenon DEF vars, queueVars, fillVars, drainVars
  <2>2. QED
    BY <2>1, DataKept
<1>4. CASE CountOverrun
  BY <1>4, OverrunKeeps
<1>5. CASE FlushCurBlock
  BY <1>5, FlushKeeps
<1>6. CASE FillBlock
  BY <1>6, FillKeeps
<1>7. CASE WriteBlock
  BY <1>7, WriteKeeps
<1>8. CASE WriteFails
  BY <1>8, FailKeeps
<1>9. QED
  BY <1>1, <1>2, <1>3, <1>4, <1>5, <1>6, <1>7, <1>8, Zenon DEF Next, LoopStep, Stopped

\* which holds when the loop begins,
LEMMA DataInit == Init => DataInv
<1> SUFFICES ASSUME Init PROVE DataInv
  OBVIOUS
<1>1. /\ card = <<>> /\ acquired = <<>> /\ count = 0 /\ overrunTotal = 0
      /\ spins = 0 /\ overrun = 0
  BY Zenon DEF Init
<1>2. FullBlocks = <<>> /\ CurrentBlocks = <<>>
  <2>1. QueueLen(fullHead, fullTail) = 0
    BY InitQueues DEF QueueLen
  <2>2. FullBlocks = <<>>
    BY <2>1 DEF FullBlocks
  <2>3. QED
    BY <2>2, InitQueues DEF CurrentBlocks
<1>3. Waiting = <<>> /\ Sent = <<>>
  BY <1>1, <1>2 DEF Waiting, Sent
<1>4. InOrder
  BY <1>1, <1>3, RecordsEmpty DEF InOrder
<1>5. EmptyLast
  <2>1. Len(Sent) = 0
    BY <1>3
  <2>2. QED
    BY <2>1 DEF EmptyLast
<1>6. Counters
  <2>1. Len(RecordsOfAll(card)) = 0 /\ OverrunOf(card) = 0 /\ OverrunOf(Waiting) = 0
    BY <1>1, <1>3, RecordsEmpty, OverrunEmpty
  <2>2. 0 % Uint32 = 0 /\ (0 + 0 + 0) % Uint16 = 0
    BY Widths
  <2>3. QED
    BY <1>1, <2>1, <2>2, Zenon DEF Counters
<1>7. QED
  BY <1>4, <1>5, <1>6 DEF DataInv

\* What a reader finds: the empty block at the end is the only one, and what it
\* lacks is what checkOverrun() does not list.
LEMMA DataRead ==
    ASSUME LogInv, DataInv, pc # "writeFailed"
    PROVE  EmptyIsLast(card) /\ FileRecords = RecordsOfAll(card)
<1>1. card \in Seq(Blocks) /\ FullBlocks \in Seq(Blocks)
  BY WaitingType
<1>2. \A i \in 1 .. Len(Sent) : Sent[i].count = 0 => i = Len(Sent)
  BY Zenon DEF DataInv, EmptyLast
<1>3. EmptyIsLast(card)
  <2>1. SUFFICES ASSUME NEW i \in 1 .. Len(card), card[i].count = 0
                 PROVE  i = Len(card)
    BY DEF EmptyIsLast
  <2>2. Len(Sent) = Len(card) + Len(FullBlocks) /\ Sent[i] = card[i]
    BY <1>1, ConcatProperties DEF Sent
  <2>3. Len(card) \in Nat /\ Len(FullBlocks) \in Nat
    BY <1>1
  <2>4. i = Len(Sent)
    BY <1>2, <2>1, <2>2, <2>3
  <2>5. QED
    BY <2>2, <2>3, <2>4
<1>4. QED
  BY <1>1, <1>3, ReadersFindAll DEF FileRecords

\* and says all that a reader and the summary rely on.
LEMMA DataImplies == LogInv /\ DataInv => RecordsInOrder
<1> SUFFICES ASSUME LogInv, DataInv, pc # "writeFailed" PROVE RecordsInOrder
  BY Zenon DEF RecordsInOrder
<1> DEFINE unlisted == IF card # <<>> /\ card[Len(card)].count = 0
                       THEN card[Len(card)].overrun ELSE 0
<1>1. FileRecords = RecordsOfAll(card) /\ EmptyIsLast(card) /\ card \in Seq(Blocks)
  BY DataRead, WaitingType
<1>2. /\ acquired = RecordsOfAll(card) \o RecordsOfAll(Waiting)
      /\ count = Len(RecordsOfAll(card)) % Uint32
      /\ overrunTotal = OverrunOf(card) % Uint32
      /\ spins = (overrunTotal + OverrunOf(Waiting) + overrun) % Uint16
  BY Zenon DEF DataInv, InOrder, Counters
<1>3. OverrunOf(card) = OverrunOf(checkOverrun(card)) + unlisted
  BY <1>1, ReadersCountAll, Zenon
<1>4. QED
  BY <1>1, <1>2, <1>3, Zenon DEF RecordsInOrder, BufferedRecords, Waiting

\* The records on the card and in the buffers are the messages taken from the
\* controller, once and in order, whatever blocks are reused or queued empty, and
\* the summary and checkOverrun() count them as they are: for any number of buffers,
\* records in a block, blocks in a file, messages and characters typed.
THEOREM RecordsKeepOrder == Spec => []RecordsInOrder
<1>1. Init => DataInv
  BY DataInit
<1>2. LogInv /\ DataInv /\ [Next]_vars => DataInv'
  BY DataNext
<1>3. LogInv /\ DataInv => RecordsInOrder
  BY DataImplies
<1>4. QED
  BY <1>1, <1>2, <1>3, LogInvariant, PTL DEF Spec

-----------------------------------------------------------------------------
(* The phases of a log. *)

\* What holds when: before the first message nothing is recorded; a character is
\* remembered only with closeFile; only the last block of the file ends the loop
\* early, and it leaves an empty buffer behind; a loop that ended for any other
\* reason has nothing left to write, and nothing in the current block unless it was
\* the silence that ended it.
PhaseInv ==
    /\ pc = "wait" => acquired = <<>> /\ ~closeFile
    /\ ~closeFile => serialInput = " "
    /\ pc \in {"wait", "poll", "fill", "drain", "writeFailed"}
          => Len(card) < FileBlockCount
    /\ pc \in {"close", "closed", "closeFailed"} => closeFile
    /\ pc = "close" =>
          IF Len(card) = FileBlockCount THEN emptyHead # emptyTail
          ELSE /\ Len(card) < FileBlockCount
               /\ fullHead = fullTail
               /\ curBlock # NoBlock => serialInput = " "
    /\ pc = "drain" /\ closeFile /\ curBlock # NoBlock => serialInput = " "

\* The buffer written is free at once.
LEMMA WriteFrees ==
    ASSUME LogInv, WriteBlock
    PROVE  emptyHead' # emptyTail'
<1>1. /\ QueuesNow(BufferBlockCount + 1) /\ fullHead # fullTail
      /\ emptyHead' = queueNext(emptyHead) /\ emptyTail' = emptyTail
  BY DEF LogInv, OwnershipInv, WriteBlock, Recycle
<1>2. /\ emptyHead \in Slots /\ emptyTail \in Slots /\ fullHead \in Slots
      /\ fullTail \in Slots
      /\ Held(emptyHead, emptyTail, fullHead, fullTail, curBlock) = BufferBlockCount + 1
  BY <1>1 DEF QueuesNow, QueuesOK, QueuesTyped
<1>3. /\ QueueLen(emptyHead, emptyTail) \in Nat
      /\ QueueLen(fullHead, fullTail) \in Nat /\ QueueLen(fullHead, fullTail) > 0
  BY <1>1, <1>2, QueueLenType, SizesAssumption DEF QueueDim
<1>4. QueueLen(emptyHead, emptyTail) < QueueDim - 1
  BY <1>2, <1>3, SizesAssumption DEF Held, QueueDim
<1>5. QueueLen(queueNext(emptyHead), emptyTail) = QueueLen(emptyHead, emptyTail) + 1
  BY <1>2, <1>4, HeadAdvances
<1>6. QueueLen(emptyTail, emptyTail) = 0
  BY <1>2, SizesAssumption DEF QueueLen, Slots, QueueDim
<1>7. QED
  BY <1>1, <1>3, <1>5, <1>6

\* Nothing outside the loop changes what PhaseInv speaks of.
LEMMA PhaseEnvironment ==
    ASSUME PhaseInv, Environment
    PROVE  PhaseInv'
<1>1. /\ UNCHANGED <<pc, closeFile, serialInput, card, acquired, curBlock>>
      /\ UNCHANGED <<emptyHead, emptyTail, fullHead, fullTail>>
  BY Zenon DEF Environment, MessageArrives, BusGoesQuiet, SilenceExpires, RequestExpires,
               TypeCharacter, CardReady, queueVars, fillVars, drainVars
<1>2. QED
  BY <1>1, Zenon DEF PhaseInv

\* Each step of the loop keeps it.
LEMMA PhaseLoop ==
    ASSUME LogInv, PhaseInv, LoopStep
    PROVE  PhaseInv'
<1>1. CASE SetTimeWhileWaiting
  <2>1. /\ UNCHANGED <<pc, closeFile, serialInput, card, acquired, curBlock>>
        /\ UNCHANGED <<emptyHead, emptyTail, fullHead, fullTail>>
    BY <1>1, Zenon DEF SetTimeWhileWaiting, queueVars, fillVars, drainVars
  <2>2. QED
    BY <2>1, Zenon DEF PhaseInv
<1>2. CASE FirstMessage
  <2>1. /\ UNCHANGED <<closeFile, serialInput, card>>
        /\ pc = "wait" /\ pc' = "poll"
    BY <1>2, Zenon DEF FirstMessage
  <2>2. QED
    BY <2>1 DEF PhaseInv
<1>3. CASE PollSerial
  <2>1. /\ card' = card /\ pc = "poll" /\ pc' = "fill"
        /\ closeFile' = TRUE \/ UNCHANGED <<closeFile, serialInput>>
    BY <1>3, Zenon DEF PollSerial, drainVars
  <2>2. QED
    BY <2>1 DEF PhaseInv
<1>4. CASE FlushCurBlock
  <2>1. /\ UNCHANGED <<card, closeFile, serialInput>> /\ pc = "fill" /\ pc' = "drain"
    BY <1>4, Zenon DEF FlushCurBlock, drainVars
  <2>2. curBlock' = NoBlock
    BY <1>4, FlushMoves
  <2>3. QED
    BY <2>1, <2>2 DEF PhaseInv
<1>5. CASE CountOverrun
  <2>1. /\ UNCHANGED <<card, closeFile, serialInput>> /\ pc = "fill" /\ pc' = "drain"
        /\ ~closeFile
    BY <1>5, Zenon DEF CountOverrun, drainVars
  <2>2. QED
    BY <2>1 DEF PhaseInv
<1>6. CASE FillBlock
  <2>1. /\ UNCHANGED <<card, serialInput>> /\ pc = "fill" /\ pc' = "drain" /\ ~closeFile
    BY <1>6, Zenon DEF FillBlock, drainVars
  <2>2. QED
    BY <2>1 DEF PhaseInv
<1>7. CASE SkipDrain
  <2>1. /\ UNCHANGED <<card, closeFile, serialInput>> /\ pc = "drain" /\ pc' = "poll"
    BY <1>7, Zenon DEF SkipDrain, drainVars
  <2>2. QED
    BY <2>1 DEF PhaseInv
<1>8. CASE ExitLoop
  <2>1. /\ UNCHANGED <<card, closeFile, serialInput, curBlock>>
        /\ UNCHANGED <<fullHead, fullTail>> /\ pc = "drain" /\ pc' = "close"
        /\ fullHead = fullTail /\ closeFile
    BY <1>8, Zenon DEF ExitLoop, queueVars, fillVars, drainVars
  <2>2. Len(card) \in Nat /\ FileBlockCount \in Nat
    BY WaitingType, SizesAssumption
  <2>3. Len(card) < FileBlockCount /\ (curBlock # NoBlock => serialInput = " ")
    BY <2>1 DEF PhaseInv
  <2>4. Len(card) # FileBlockCount
    <3> DEFINE n == Len(card)
    <3>1. n \in Nat /\ FileBlockCount \in Nat /\ n < FileBlockCount
      BY <2>2, <2>3, Zenon
    <3> HIDE DEF n
    <3>2. n # FileBlockCount
      BY <3>1
    <3>3. QED
      BY <3>2, Zenon DEF n
  <2>5. /\ Len(card)' # FileBlockCount /\ Len(card)' < FileBlockCount
        /\ fullHead' = fullTail' /\ (curBlock' # NoBlock => serialInput' = " ")
        /\ closeFile'
    BY <2>1, <2>3, <2>4
  <2>6. QED
    BY <2>1, <2>5 DEF PhaseInv
<1>9. CASE WriteBlock
  <2>1. /\ card' = Append(card, block[NextToWrite]) /\ pc = "drain"
        /\ IF Len(card') = FileBlockCount
           THEN closeFile' = TRUE /\ pc' = "close"
           ELSE pc' = "poll" /\ closeFile' = closeFile
        /\ serialInput' = serialInput
    BY <1>9, Zenon DEF WriteBlock
  <2>2. Len(card) \in Nat /\ FileBlockCount \in Nat /\ Len(card') = Len(card) + 1
    BY <2>1, WaitingType, SizesAssumption
  <2>3. emptyHead' # emptyTail'
    BY <1>9, WriteFrees
  <2>4. Len(card) < FileBlockCount
    BY <2>1 DEF PhaseInv
  <2>5. CASE Len(card') = FileBlockCount
    BY <2>1, <2>3, <2>5 DEF PhaseInv
  <2>6. CASE Len(card') # FileBlockCount
    <3>1. Len(card') < FileBlockCount
      BY <2>2, <2>4, <2>6
    <3>2. QED
      BY <2>1, <2>6, <3>1 DEF PhaseInv
  <2>7. QED
    BY <2>5, <2>6
<1>10. CASE WriteFails
  <2>1. /\ UNCHANGED <<card, closeFile, serialInput>>
        /\ pc = "drain" /\ pc' = "writeFailed"
    BY <1>10, Zenon DEF WriteFails, drainVars
  <2>2. QED
    BY <2>1 DEF PhaseInv
<1>11. CASE CloseLog
  <2>1. /\ closeFile' = closeFile /\ serialInput' = " " /\ pc = "close" /\ pc' = "closed"
    BY <1>11, Zenon DEF CloseLog
  <2>2. QED
    BY <2>1 DEF PhaseInv
<1>12. CASE CloseFails
  <2>1. /\ UNCHANGED <<closeFile, serialInput>>
        /\ pc = "close" /\ pc' = "closeFailed"
    BY <1>12, Zenon DEF CloseFails
  <2>2. QED
    BY <2>1 DEF PhaseInv
<1>13. QED
  BY <1>1, <1>2, <1>3, <1>4, <1>5, <1>6, <1>7, <1>8, <1>9, <1>10, <1>11, <1>12, Zenon
     DEF LoopStep

\* So does every step,
LEMMA PhaseNext ==
    ASSUME LogInv, PhaseInv, [Next]_vars
    PROVE  PhaseInv'
<1>1. CASE UNCHANGED vars
  <2>1. /\ UNCHANGED <<pc, closeFile, serialInput, card, acquired, curBlock>>
        /\ UNCHANGED <<emptyHead, emptyTail, fullHead, fullTail>>
    BY <1>1, Zenon DEF vars, queueVars, fillVars, drainVars
  <2>2. QED
    BY <2>1, Zenon DEF PhaseInv
<1>2. QED
  BY <1>1, PhaseEnvironment, PhaseLoop, Zenon DEF Next, Stopped

\* and it holds when the loop begins.
LEMMA PhaseInit == Init => PhaseInv
<1> SUFFICES ASSUME Init PROVE PhaseInv
  OBVIOUS
<1>1. /\ pc = "wait" /\ acquired = <<>> /\ closeFile = FALSE /\ serialInput = " "
      /\ card = <<>>
  BY Zenon DEF Init
<1>2. Len(card) < FileBlockCount
  <2>1. Len(card) = 0
    BY <1>1
  <2>2. QED
    BY <2>1, SizesAssumption
<1>3. QED
  BY <1>1, <1>2 DEF PhaseInv

-----------------------------------------------------------------------------
(* The silence that closes a log. *)

\* Once a message is recorded, the timer has expired only on a bus that is silent
\* or with messages waiting, the first of which will restart it.
SilenceInv == acquired # <<>> /\ silence => busQuiet \/ fifo # <<>>

\* The timer that has expired tells of a silent bus, or of a message left to read, or
\* nothing has been recorded.
LEMMA SilenceNext ==
    ASSUME LogInv, PhaseInv, SilenceInv, [Next]_vars
    PROVE  SilenceInv'
<1>1. CASE MessageArrives
  <2>1. fifo \in Seq(Messages) /\ RxDepth \in Nat \ {0}
    BY SizesAssumption, Zenon DEF LogInv, TypeOK
  <2>2. fifo' # <<>>
    BY <1>1, <2>1 DEF MessageArrives
  <2>3. QED
    BY <2>2 DEF SilenceInv
<1>2. CASE SilenceExpires
  <2>1. pc = "wait" \/ busQuiet \/ fifo # <<>>
    BY <1>2, Zenon DEF SilenceExpires
  <2>2. UNCHANGED <<acquired, busQuiet, fifo>>
    BY <1>2, Zenon DEF SilenceExpires, fillVars
  <2>3. pc = "wait" => acquired = <<>>
    BY Zenon DEF PhaseInv
  <2>4. QED
    BY <2>1, <2>2, <2>3, Zenon DEF SilenceInv
<1>3. CASE FirstMessage
  <2>1. acquired' = acquired /\ pc = "wait"
    BY <1>3, Zenon DEF FirstMessage, fillVars
  <2>2. acquired = <<>>
    BY <2>1, Zenon DEF PhaseInv
  <2>3. QED
    BY <2>1, <2>2, Zenon DEF SilenceInv
<1>4. CASE FillBlock
  <2>1. CASE fifo # <<>>
    <3>1. silence' = FALSE
      BY <1>4, <2>1, Zenon DEF FillBlock, ReadBus
    <3>2. QED
      BY <3>1, Zenon DEF SilenceInv
  <2>2. CASE fifo = <<>>
    <3>1. UNCHANGED <<acquired, silence, busQuiet, fifo>>
      BY <1>4, <2>2, Zenon DEF FillBlock, ReadBus
    <3>2. QED
      BY <3>1, Zenon DEF SilenceInv
  <2>3. QED
    BY <2>1, <2>2
<1>5. CASE BusGoesQuiet
  BY <1>5, Zenon DEF BusGoesQuiet, SilenceInv
<1>6. ASSUME UNCHANGED <<acquired, silence, busQuiet, fifo>>
      PROVE  SilenceInv'
  BY <1>6, Zenon DEF SilenceInv
<1>7. CASE RequestExpires \/ TypeCharacter \/ CardReady
  <2>1. UNCHANGED <<acquired, silence, busQuiet, fifo>>
    BY <1>7, Zenon DEF RequestExpires, TypeCharacter, CardReady, fillVars, portVars
  <2>2. QED
    BY <1>6, <2>1
<1>8. CASE \/ SetTimeWhileWaiting \/ PollSerial \/ FlushCurBlock \/ CountOverrun
           \/ SkipDrain \/ ExitLoop \/ WriteBlock \/ WriteFails \/ CloseLog \/ CloseFails
  <2>1. UNCHANGED <<acquired, silence, busQuiet, fifo>>
    BY <1>8, Zenon
       DEF SetTimeWhileWaiting, PollSerial, FlushCurBlock, CountOverrun, SkipDrain,
           ExitLoop, WriteBlock, WriteFails, CloseLog, CloseFails, fillVars, portVars
  <2>2. QED
    BY <1>6, <2>1
<1>9. CASE UNCHANGED vars
  <2>1. UNCHANGED <<acquired, silence, busQuiet, fifo>>
    BY <1>9, Zenon DEF vars, fillVars, portVars
  <2>2. QED
    BY <1>6, <2>1
<1>10. QED
  BY <1>1, <1>2, <1>3, <1>4, <1>5, <1>7, <1>8, <1>9, Zenon
     DEF Next, LoopStep, Environment, Stopped

\* Only a pass that read nothing lets the timer close the log.
LEMMA SilenceStep ==
    ASSUME PhaseInv, SilenceInv, [Next]_vars, pc = "fill", ~closeFile, closeFile'
    PROVE  busQuiet \/ acquired' = <<>>
<1>1. CASE FillBlock
  <2>1. closeFile' = silence'
    BY <1>1, Zenon DEF FillBlock, CheckSilence
  <2>2. CASE fifo # <<>>
    <3>1. silence' = FALSE
      BY <1>1, <2>2, Zenon DEF FillBlock, ReadBus
    <3>2. QED
      BY <2>1, <3>1
  <2>3. CASE fifo = <<>>
    <3>1. UNCHANGED <<acquired, silence>>
      BY <1>1, <2>3, Zenon DEF FillBlock, ReadBus
    <3>2. QED
      BY <2>1, <2>3, <3>1 DEF SilenceInv
  <2>4. QED
    BY <2>2, <2>3
<1>2. CASE Environment
  <2>1. closeFile' = closeFile
    BY <1>2, Zenon
       DEF Environment, MessageArrives, BusGoesQuiet, SilenceExpires, RequestExpires,
           TypeCharacter, CardReady
  <2>2. QED
    BY <2>1
<1>3. CASE FlushCurBlock \/ CountOverrun
  <2>1. closeFile' = closeFile
    BY <1>3, Zenon DEF FlushCurBlock, CountOverrun
  <2>2. QED
    BY <2>1
<1>4. CASE \/ SetTimeWhileWaiting \/ FirstMessage \/ PollSerial
           \/ SkipDrain \/ ExitLoop \/ WriteBlock \/ WriteFails \/ CloseLog \/ CloseFails
  <2>1. pc \in {"wait", "poll", "drain", "close"}
    BY <1>4, Zenon
       DEF SetTimeWhileWaiting, FirstMessage, PollSerial, SkipDrain, ExitLoop,
           WriteBlock, WriteFails, CloseLog, CloseFails
  <2>2. QED
    BY <2>1
<1>5. CASE UNCHANGED vars
  <2>1. closeFile' = closeFile
    BY <1>5, Zenon DEF vars
  <2>2. QED
    BY <2>1
<1>6. QED
  BY <1>1, <1>2, <1>3, <1>4, <1>5, Zenon DEF Next, LoopStep, Stopped

\* In every reachable state the loop is in order about its phases and its timer.
LEMMA PhasesHold == Spec => [](LogInv /\ PhaseInv /\ SilenceInv)
<1>1. Init => PhaseInv /\ SilenceInv
  <2>1. Init => SilenceInv
    <3>1. Init => acquired = <<>>
      BY Zenon DEF Init
    <3>2. QED
      BY <3>1, Zenon DEF SilenceInv
  <2>2. QED
    BY <2>1, PhaseInit
<1>2. LogInv /\ PhaseInv /\ SilenceInv /\ [Next]_vars => PhaseInv' /\ SilenceInv'
  BY PhaseNext, SilenceNext
<1>3. QED
  BY <1>1, <1>2, LogInvariant, PTL DEF Spec

\* Whatever the card does to the loop, a log with records in it is closed by the
\* silence timer only on a bus that has been silent for as long as the timer says.
THEOREM SilenceIsGenuine == Spec => SilenceCloseIsGenuine
<1>1. PhaseInv /\ SilenceInv /\ [Next]_vars
        => [pc = "fill" /\ ~closeFile /\ closeFile' =>
              busQuiet \/ acquired' = <<>>]_vars
  BY SilenceStep
<1>2. QED
  BY <1>1, PhasesHold, PTL DEF Spec, SilenceCloseIsGenuine

-----------------------------------------------------------------------------
(* The messages, from their arrival to their block. *)

\* The messages taken from the controller and those it still holds, in order.
Taken == acquired \o fifo

\* Messages are taken in the order of their arrival; none is missing but those lost
\* for want of room in the controller, and the first, which only ends the wait.
ArrivalInv ==
    /\ \A i, j \in 1 .. Len(Taken) : i < j => Taken[i] < Taken[j]
    /\ \A i \in 1 .. Len(Taken) : Taken[i] <= arrived
    /\ \A m \in 1 .. arrived :
         \/ \E i \in 1 .. Len(Taken) : Taken[i] = m
         \/ m \in lost
         \/ m = 1 /\ pc # "wait"
    /\ pc = "wait" => IF fifo = <<>> THEN arrived = 0 ELSE Head(fifo) = 1

\* The messages taken and those still held are messages.
LEMMA TakenType ==
    ASSUME LogInv
    PROVE  /\ Taken \in Seq(Messages) /\ arrived \in Nat
           /\ fifo \in Seq(Messages) /\ acquired \in Seq(Messages)
           /\ Len(Taken) = Len(acquired) + Len(fifo)
           /\ \A i \in 1 .. Len(Taken) : Taken[i] \in Nat
<1>1. fifo \in Seq(Messages) /\ acquired \in Seq(Messages)
  BY Zenon DEF LogInv, TypeOK
<1>2. Taken \in Seq(Messages) /\ Len(Taken) = Len(acquired) + Len(fifo)
  BY <1>1, ConcatProperties DEF Taken
<1>3. arrived \in Nat
  <2>1. arrived \in 0 .. MaxArrivals
    BY Zenon DEF LogInv, TypeOK
  <2>2. QED
    BY <2>1, BoundsAssumption
<1>4. \A i \in 1 .. Len(Taken) : Taken[i] \in Nat
  <2>1. Messages \subseteq Nat
    BY BoundsAssumption DEF Messages
  <2> DEFINE taken == Taken
  <2>2. taken \in Seq(Messages)
    BY <1>2
  <2> HIDE DEF taken
  <2>3. \A i \in 1 .. Len(taken) : taken[i] \in Messages
    BY <2>2, ElementOfSeq
  <2>4. QED
    BY <2>1, <2>3, Zenon DEF taken
<1>5. QED
  BY <1>1, <1>2, <1>3, <1>4, Zenon

\* A step of the loop that moves messages from one to the other keeps their order.
LEMMA ArrivalKept ==
    ASSUME ArrivalInv, Taken' = Taken, UNCHANGED <<arrived, lost>>,
           pc # "wait", pc' # "wait"
    PROVE  ArrivalInv'
  BY Zenon DEF ArrivalInv

\* A message that arrives is the newest, and is held or counted as lost.
LEMMA MessageOrdered ==
    ASSUME LogInv, ArrivalInv, MessageArrives
    PROVE  ArrivalInv'
<1>1. /\ arrived' = arrived + 1 /\ pc' = pc /\ acquired' = acquired
      /\ IF Len(fifo) < RxDepth
         THEN fifo' = Append(fifo, arrived') /\ lost' = lost
         ELSE lost' = lost \cup {arrived'} /\ fifo' = fifo
  BY Zenon DEF MessageArrives, fillVars
<1>2. /\ Taken \in Seq(Messages) /\ arrived \in Nat /\ fifo \in Seq(Messages)
      /\ acquired \in Seq(Messages) /\ \A i \in 1 .. Len(Taken) : Taken[i] \in Nat
  BY TakenType
<1>3. arrived' \in Messages
  <2>1. arrived < MaxArrivals
    BY Zenon DEF MessageArrives
  <2>2. QED
    BY <1>1, <1>2, <2>1, BoundsAssumption DEF Messages
<1>4. CASE Len(fifo) < RxDepth
  <2> DEFINE m == arrived'
             taken == Taken'
  <2>1. fifo' = Append(fifo, m) /\ lost' = lost
    BY <1>1, <1>4, Zenon
  <2>2. taken = Append(Taken, m)
    <3>1. taken = acquired \o Append(fifo, m)
      BY <1>1, <2>1, Zenon DEF Taken
    <3>2. acquired \o Append(fifo, m) = Append(acquired \o fifo, m)
      BY <1>2, <1>3, AppendToConcat
    <3>3. QED
      BY <3>1, <3>2, Zenon DEF Taken
  <2> HIDE DEF taken
  <2>3. /\ Len(taken) = Len(Taken) + 1 /\ taken[Len(Taken) + 1] = m
        /\ \A i \in 1 .. Len(Taken) : taken[i] = Taken[i]
    BY <1>2, <1>3, <2>2, AppendProperties
  <2>4. Len(Taken) \in Nat /\ m = arrived + 1 /\ m \in Nat
    BY <1>1, <1>2
  <2> HIDE DEF m
  <2>5. \A i \in 1 .. Len(Taken) : Taken[i] <= arrived /\ Taken[i] < m
    <3>1. \A i \in 1 .. Len(Taken) : Taken[i] <= arrived
      BY Zenon DEF ArrivalInv
    <3>2. QED
      BY <1>2, <2>4, <3>1
  <2>6. \A i, j \in 1 .. Len(taken) : i < j => taken[i] < taken[j]
    <3>1. \A i, j \in 1 .. Len(Taken) : i < j => Taken[i] < Taken[j]
      BY Zenon DEF ArrivalInv
    <3>2. TAKE i, j \in 1 .. Len(taken)
    <3>3. HAVE i < j
    <3>4. i \in 1 .. Len(Taken)
      BY <2>3, <2>4, <3>3
    <3>5. CASE j \in 1 .. Len(Taken)
      BY <2>3, <3>1, <3>3, <3>4, <3>5, Zenon
    <3>6. CASE j \notin 1 .. Len(Taken)
      <4>1. j = Len(Taken) + 1
        BY <2>3, <2>4, <3>6
      <4>2. QED
        BY <2>3, <2>5, <3>4, <4>1, Zenon
    <3>7. QED
      BY <3>5, <3>6
  <2>7. \A i \in 1 .. Len(taken) : taken[i] <= m
    <3>1. TAKE i \in 1 .. Len(taken)
    <3>2. CASE i \in 1 .. Len(Taken)
      BY <1>2, <2>3, <2>4, <2>5, <3>2
    <3>3. CASE i \notin 1 .. Len(Taken)
      BY <2>3, <2>4, <3>3
    <3>4. QED
      BY <3>2, <3>3
  <2>8. \A n \in 1 .. m :
           (\E i \in 1 .. Len(taken) : taken[i] = n) \/ n \in lost \/ (n = 1 /\ pc # "wait")
    <3>1. TAKE n \in 1 .. m
    <3>2. CASE n = m
      <4>1. Len(Taken) + 1 \in 1 .. Len(taken)
        BY <2>3, <2>4
      <4>2. QED
        BY <2>3, <3>2, <4>1, Zenon
    <3>3. CASE n # m
      <4>1. n \in 1 .. arrived
        BY <1>2, <2>4, <3>3
      <4>2. (\E i \in 1 .. Len(Taken) : Taken[i] = n) \/ n \in lost \/ (n = 1 /\ pc # "wait")
        BY <4>1, Zenon DEF ArrivalInv
      <4>3. \A i \in 1 .. Len(Taken) : i \in 1 .. Len(taken)
        BY <2>3, <2>4
      <4>4. QED
        BY <2>3, <4>2, <4>3, Zenon
    <3>4. QED
      BY <3>2, <3>3
  <2>9. pc = "wait" => IF fifo' = <<>> THEN m = 0 ELSE Head(fifo') = 1
    <3>1. SUFFICES ASSUME pc = "wait" PROVE fifo' # <<>> /\ Head(fifo') = 1
      BY Zenon
    <3>2. IF fifo = <<>> THEN arrived = 0 ELSE Head(fifo) = 1
      BY <3>1, Zenon DEF ArrivalInv
    <3>3. CASE fifo = <<>>
      BY <2>1, <2>4, <3>2, <3>3
    <3>4. CASE fifo # <<>>
      <4>1. Head(Append(fifo, m)) = Head(fifo) /\ Append(fifo, m) # <<>>
        BY <1>2, <3>4
      <4>2. QED
        BY <2>1, <3>2, <3>4, <4>1, Zenon
    <3>5. QED
      BY <3>3, <3>4
  <2>10. QED
    BY <1>1, <2>1, <2>6, <2>7, <2>8, <2>9, Zenon DEF ArrivalInv, taken, m
<1>5. CASE ~(Len(fifo) < RxDepth)
  <2>1. fifo' = fifo /\ lost' = lost \cup {arrived'} /\ Taken' = Taken
    BY <1>1, <1>5, Zenon DEF Taken
  <2>2. \A i \in 1 .. Len(Taken) : Taken[i] <= arrived + 1
    <3>1. \A i \in 1 .. Len(Taken) : Taken[i] <= arrived
      BY Zenon DEF ArrivalInv
    <3>2. QED
      BY <1>2, <3>1
  <2>3. \A n \in 1 .. arrived + 1 : n \in 1 .. arrived \/ n = arrived + 1
    BY <1>2
  <2>4. fifo # <<>>
    <3>1. RxDepth \in Nat \ {0}
      BY SizesAssumption
    <3>2. QED
      BY <1>2, <1>5, <3>1
  <2>5. \A n \in 1 .. arrived + 1 :
           (\E i \in 1 .. Len(Taken) : Taken[i] = n) \/ n \in lost' \/ (n = 1 /\ pc # "wait")
    <3>1. \A n \in 1 .. arrived :
             (\E i \in 1 .. Len(Taken) : Taken[i] = n) \/ n \in lost \/ (n = 1 /\ pc # "wait")
      BY Zenon DEF ArrivalInv
    <3>2. QED
      BY <1>1, <2>1, <2>3, <3>1
  <2>6. QED
    BY <1>1, <2>1, <2>2, <2>4, <2>5, Zenon DEF ArrivalInv
<1>6. QED
  BY <1>4, <1>5

\* The message that ends the wait is the first, and it is not recorded.
LEMMA FirstOrdered ==
    ASSUME LogInv, PhaseInv, ArrivalInv, FirstMessage
    PROVE  ArrivalInv'
<1>1. /\ pc = "wait" /\ fifo # <<>> /\ fifo' = Tail(fifo) /\ pc' = "poll"
      /\ UNCHANGED <<acquired, arrived, lost>>
  BY Zenon DEF FirstMessage, fillVars
<1>2. acquired = <<>>
  BY <1>1, Zenon DEF PhaseInv
<1>3. fifo \in Seq(Messages) /\ Tail(fifo) \in Seq(Messages)
  BY <1>1, TakenType, HeadTailProperties
<1>4. Taken = fifo /\ Taken' = Tail(fifo)
  <2>1. <<>> \o fifo = fifo /\ <<>> \o Tail(fifo) = Tail(fifo)
    BY <1>3, ConcatEmptySeq
  <2>2. QED
    BY <1>1, <1>2, <2>1, Zenon DEF Taken
<1> DEFINE rest == Tail(fifo)
<1>5. /\ Len(fifo) \in Nat \ {0} /\ Len(rest) = Len(fifo) - 1
      /\ \A i \in 1 .. Len(rest) : rest[i] = fifo[i + 1] /\ i + 1 \in 1 .. Len(fifo)
      /\ \A i \in 1 .. Len(fifo) : i = 1 \/ (i - 1 \in 1 .. Len(rest) /\ rest[i - 1] = fifo[i])
  <2>1. Len(fifo) \in Nat \ {0} /\ Len(rest) = Len(fifo) - 1
    BY <1>1, <1>3
  <2>2. \A i \in 1 .. Len(rest) : rest[i] = fifo[i + 1]
    BY <1>1, <1>3
  <2> HIDE DEF rest
  <2>3. \A i \in 1 .. Len(fifo) :
           i = 1 \/ (i - 1 \in 1 .. Len(rest) /\ (i - 1) + 1 = i)
    BY <2>1
  <2>4. \A i \in 1 .. Len(rest) : i + 1 \in 1 .. Len(fifo)
    BY <2>1
  <2>5. QED
    BY <2>1, <2>2, <2>3, <2>4
<1>6. Head(fifo) = 1 /\ fifo[1] = 1
  BY <1>1, <1>3 DEF ArrivalInv
<1> HIDE DEF rest
<1>7. \A i, j \in 1 .. Len(rest) : i < j => rest[i] < rest[j]
  <2>1. \A i, j \in 1 .. Len(fifo) : i < j => fifo[i] < fifo[j]
    BY <1>4, Zenon DEF ArrivalInv
  <2>2. TAKE i, j \in 1 .. Len(rest)
  <2>3. HAVE i < j
  <2>4. i + 1 < j + 1
    BY <1>5, <2>3
  <2>5. QED
    BY <1>5, <2>1, <2>4, Zenon
<1>8. \A i \in 1 .. Len(rest) : rest[i] <= arrived
  BY <1>4, <1>5, Zenon DEF ArrivalInv
<1>9. \A n \in 1 .. arrived :
         (\E i \in 1 .. Len(rest) : rest[i] = n) \/ n \in lost \/ n = 1
  <2>1. TAKE n \in 1 .. arrived
  <2>2. (\E i \in 1 .. Len(fifo) : fifo[i] = n) \/ n \in lost
    BY <1>1, <1>4, Zenon DEF ArrivalInv
  <2>3. QED
    BY <1>5, <1>6, <2>2
<1>10. QED
  BY <1>1, <1>4, <1>7, <1>8, <1>9 DEF ArrivalInv, rest

\* Every step keeps ArrivalInv,
LEMMA ArrivalNext ==
    ASSUME LogInv, PhaseInv, ArrivalInv, [Next]_vars
    PROVE  ArrivalInv'
<1>1. CASE MessageArrives
  BY <1>1, MessageOrdered
<1>2. CASE FirstMessage
  BY <1>2, FirstOrdered
<1>3. CASE FillBlock
  <2>1. UNCHANGED <<arrived, lost>> /\ pc = "fill" /\ pc' = "drain"
    BY <1>3, Zenon DEF FillBlock
  <2>2. Taken' = Taken
    <3>1. CASE fifo = <<>>
      BY <1>3, <3>1, Zenon DEF FillBlock, ReadBus, Taken
    <3>2. CASE fifo # <<>>
      <4>1. fifo \in Seq(Messages) /\ acquired \in Seq(Messages)
        BY TakenType
      <4>2. Head(fifo) \in Messages /\ Tail(fifo) \in Seq(Messages)
            /\ fifo = <<Head(fifo)>> \o Tail(fifo)
        BY <3>2, <4>1, HeadTailProperties
      <4> DEFINE h == <<Head(fifo)>>
                 t == Tail(fifo)
      <4>3. h \in Seq(Messages)
        BY <4>2
      <4>4. Taken' = (acquired \o h) \o t
        <5>1. acquired' = Append(acquired, Head(fifo)) /\ fifo' = t
          BY <1>3, <3>2, Zenon DEF FillBlock, ReadBus
        <5>2. Append(acquired, Head(fifo)) = acquired \o h
          BY <4>1, <4>2, AppendIsConcat
        <5>3. QED
          BY <5>1, <5>2, Zenon DEF Taken
      <4>5. Taken = acquired \o (h \o t)
        BY <4>2, Zenon DEF Taken
      <4> HIDE DEF h, t
      <4>6. t \in Seq(Messages)
        BY <4>2 DEF t
      <4>7. (acquired \o h) \o t = acquired \o (h \o t)
        BY <4>1, <4>3, <4>6, ConcatAgain
      <4>8. QED
        BY <4>4, <4>5, <4>7, Zenon
    <3>3. QED
      BY <3>1, <3>2
  <2>3. QED
    BY <2>1, <2>2, ArrivalKept
<1>4. ASSUME UNCHANGED <<acquired, fifo, arrived, lost, pc>>
      PROVE  ArrivalInv'
  <2>1. Taken' = Taken
    BY <1>4, Zenon DEF Taken
  <2>2. QED
    BY <1>4, <2>1, Zenon DEF ArrivalInv
<1>5. CASE \/ BusGoesQuiet \/ SilenceExpires \/ RequestExpires \/ TypeCharacter
           \/ CardReady \/ SetTimeWhileWaiting \/ UNCHANGED vars
  <2>1. UNCHANGED <<acquired, fifo, arrived, lost, pc>>
    BY <1>5, Zenon
       DEF BusGoesQuiet, SilenceExpires, RequestExpires, TypeCharacter, CardReady,
           SetTimeWhileWaiting, vars, fillVars, portVars
  <2>2. QED
    BY <1>4, <2>1
<1>6. CASE \/ PollSerial \/ FlushCurBlock \/ CountOverrun
           \/ SkipDrain \/ ExitLoop \/ WriteBlock \/ WriteFails \/ CloseLog \/ CloseFails
  <2>1. /\ UNCHANGED <<acquired, fifo, arrived, lost>>
        /\ pc \in {"poll", "fill", "drain", "close"}
        /\ pc' \in {"poll", "fill", "drain", "close", "closed", "writeFailed", "closeFailed"}
    BY <1>6, Zenon
       DEF PollSerial, FlushCurBlock, CountOverrun, SkipDrain,
           ExitLoop, WriteBlock, WriteFails, CloseLog, CloseFails, fillVars, portVars
  <2>2. Taken' = Taken
    BY <2>1, Zenon DEF Taken
  <2>3. UNCHANGED <<arrived, lost>> /\ pc # "wait" /\ pc' # "wait"
    BY <2>1
  <2>4. QED
    BY <2>2, <2>3, ArrivalKept
<1>7. QED
  BY <1>1, <1>2, <1>3, <1>5, <1>6, Zenon DEF Next, LoopStep, Environment, Stopped

\* which holds when the loop begins.
LEMMA ArrivalInit == Init => ArrivalInv
<1> SUFFICES ASSUME Init PROVE ArrivalInv
  OBVIOUS
<1>1. acquired = <<>> /\ fifo = <<>> /\ arrived = 0
  BY Zenon DEF Init
<1>2. Taken = <<>>
  BY <1>1 DEF Taken
<1>3. QED
  BY <1>1, <1>2 DEF ArrivalInv

\* The inductive invariant of the records.
StreamInv == LogInv /\ DataInv /\ PhaseInv /\ SilenceInv /\ ArrivalInv

\* The inductive invariant holds throughout.
LEMMA StreamInvariant == Spec => []StreamInv
<1>1. Init => DataInv /\ ArrivalInv
  BY DataInit, ArrivalInit
<1>2. /\ LogInv /\ PhaseInv /\ SilenceInv /\ DataInv /\ ArrivalInv /\ [Next]_vars
        => DataInv' /\ ArrivalInv'
  BY DataNext, ArrivalNext
<1>3. LogInv /\ PhaseInv /\ SilenceInv /\ DataInv /\ ArrivalInv => StreamInv
  BY DEF StreamInv
<1>4. QED
  BY <1>1, <1>2, <1>3, PhasesHold, PTL DEF Spec

\* A full queue whose head and tail meet is empty: it is never full, as it has a slot
\* more than there are buffers.
LEMMA NothingQueued ==
    ASSUME LogInv, fullHead = fullTail
    PROVE  FullBlocks = <<>>
<1>1. FullBlocks \in Seq(Blocks) /\ Len(FullBlocks) = QueueLen(fullHead, fullTail)
  BY WaitingType
<1>2. QueueLen(fullHead, fullTail) = 0
  <2>1. fullTail \in Slots
    BY Zenon DEF LogInv, TypeOK
  <2>2. fullTail \in Int
    BY <2>1, SizesAssumption DEF Slots, QueueDim
  <2>3. QED
    BY <2>2 DEF QueueLen
<1>3. QED
  BY <1>1, <1>2, EmptySeq

\* At the end of a log whose file has room, nothing is left in a queue.
LEMMA NothingWaits ==
    ASSUME LogInv, DataInv, fullHead = fullTail, curBlock = NoBlock,
           pc # "writeFailed"
    PROVE  acquired = FileRecords
<1>1. FullBlocks = <<>>
  BY NothingQueued
<1>2. CurrentBlocks = <<>>
  BY Zenon DEF CurrentBlocks
<1>3. Waiting = <<>>
  <2>1. <<>> \o <<>> = <<>>
    OBVIOUS
  <2>2. QED
    BY <1>1, <1>2, <2>1, Zenon DEF Waiting
<1>4. acquired = RecordsOfAll(card) \o <<>>
  BY <1>3, RecordsEmpty, Zenon DEF DataInv, InOrder
<1>5. RecordsOfAll(card) \in Seq(Records)
  <2>1. card \in Seq(Blocks)
    BY WaitingType
  <2>2. QED
    BY <2>1, RecordsType
<1>6. RecordsOfAll(card) \o <<>> = RecordsOfAll(card)
  BY <1>5, ConcatEmptySeq
<1>7. FileRecords = RecordsOfAll(card)
  BY DataRead
<1>8. QED
  BY <1>4, <1>6, <1>7, Zenon

\* A message taken was recorded or is still held.
LEMMA TakenFound ==
    ASSUME LogInv, NEW i \in 1 .. Len(Taken)
    PROVE  Taken[i] \in ToSet(acquired) \/ Taken[i] \in ToSet(fifo)
<1> DEFINE s == acquired
           t == fifo
           m == Len(s)
           n == Len(t)
<1>1. s \in Seq(Messages) /\ t \in Seq(Messages) /\ i \in 1 .. m + n
  BY TakenType
<1> HIDE DEF s, t
<1>2. (s \o t)[i] = IF i <= m THEN s[i] ELSE t[i - m]
  BY <1>1, ConcatProperties
<1>3. m \in Nat /\ n \in Nat /\ DOMAIN s = 1 .. m /\ DOMAIN t = 1 .. n
  BY <1>1
<1> HIDE DEF m, n
<1>4. i \in 1 .. m \/ (~(i <= m) /\ i - m \in 1 .. n)
  BY <1>1, <1>3
<1>5. i \in 1 .. m => i <= m
  BY <1>3
<1>6. CASE i \in 1 .. m
  BY <1>2, <1>3, <1>5, <1>6, Zenon DEF ToSet, Taken, s, t
<1>7. CASE ~(i <= m) /\ i - m \in 1 .. n
  BY <1>2, <1>3, <1>7, Zenon DEF ToSet, Taken, s, t
<1>8. QED
  BY <1>4, <1>6, <1>7

\* Every message after the second, it included, is not the first.
LEMMA AfterFirst ==
    \A n \in Nat : \A m \in 2 .. n : m \in 1 .. n /\ m # 1
  OBVIOUS

\* What the invariants say of a log closed by a character.
LEMMA StreamInvComplete == StreamInv => StoppedLogIsComplete
<1> SUFFICES ASSUME StreamInv,
                    pc = "close", Len(card) # FileBlockCount, serialInput # " "
             PROVE  Messages \cap (2 .. arrived)
                      \subseteq ToSet(FileRecords) \cup lost \cup ToSet(fifo)
  BY Zenon DEF StoppedLogIsComplete
<1>1. LogInv /\ DataInv /\ PhaseInv /\ ArrivalInv
  BY Zenon DEF StreamInv
<1>2. fullHead = fullTail /\ curBlock = NoBlock
  BY <1>1, Zenon DEF PhaseInv
<1>3. pc # "writeFailed"
  OBVIOUS
<1>4. acquired = FileRecords
  BY <1>1, <1>2, <1>3, NothingWaits, Zenon
<1>5. ASSUME NEW m \in Messages \cap (2 .. arrived)
      PROVE  m \in ToSet(FileRecords) \cup lost \cup ToSet(fifo)
  <2>1. arrived \in Nat
    BY <1>1, TakenType, Zenon
  <2>2. m \in 1 .. arrived /\ m # 1
    BY <2>1, AfterFirst, Zenon
  <2>3. (\E i \in 1 .. Len(Taken) : Taken[i] = m) \/ m \in lost
    BY <1>1, <2>2, Zenon DEF ArrivalInv
  <2>4. \A i \in 1 .. Len(Taken) : Taken[i] \in ToSet(acquired) \/ Taken[i] \in ToSet(fifo)
    BY <1>1, TakenFound, Zenon
  <2>5. QED
    BY <1>4, <2>3, <2>4, Zenon
<1>6. QED
  BY <1>5, Zenon

\* A log that a character stopped with room left in its file holds every message
\* that reached the controller, but for those the model names, however the traffic,
\* the card and the characters typed interleave.
THEOREM StopLosesNothing == Spec => []StoppedLogIsComplete
  BY StreamInvariant, StreamInvComplete, PTL

-----------------------------------------------------------------------------
(* logData() implements LogStream. *)

\* While the loop runs, its file is not full and nothing has failed.
Running == pc \in {"wait", "poll", "fill", "drain"}

\* The phase of a log in its loop is what closeFile and serialInput make it.
LEMMA PhaseRunning ==
    ASSUME LogInv, PhaseInv, Running
    PROVE  /\ Len(card) # FileBlockCount
           /\ Phase = IF ~closeFile THEN "logging"
                      ELSE IF serialInput = " " THEN "silent" ELSE "stopped"
<1>1. Len(card) # FileBlockCount
  <2> DEFINE n == Len(card)
  <2>1. n < FileBlockCount
    BY Zenon DEF PhaseInv, Running
  <2>2. n \in Nat /\ FileBlockCount \in Nat
    BY WaitingType, SizesAssumption
  <2> HIDE DEF n
  <2>3. n # FileBlockCount
    BY <2>1, <2>2
  <2>4. QED
    BY <2>3, Zenon DEF n
<1>2. pc # "closed" /\ pc \notin {"writeFailed", "closeFailed"}
  BY DEF Running
<1>3. QED
  BY <1>1, <1>2, Zenon DEF Phase

\* Steps that neither take a message, nor write a block, nor end or close the log.
LEMMA StreamStutters ==
    ASSUME UNCHANGED <<closeFile, serialInput, card, acquired>>,
           \/ pc' = pc
           \/ Running /\ pc' \in {"poll", "fill", "drain", "close"}
    PROVE  UNCHANGED <<acquired, FileRecords, Phase>>
<1>1. FileRecords' = FileRecords
  BY Zenon DEF FileRecords
<1>2. CASE pc' = pc
  <2>1. Phase' = Phase
    BY <1>2, Zenon DEF Phase
  <2>2. QED
    BY <1>1, <2>1, Zenon
<1>3. CASE Running /\ pc' \in {"poll", "fill", "drain", "close"}
  <2>1. /\ pc # "closed" /\ pc \notin {"writeFailed", "closeFailed"}
        /\ pc' # "closed" /\ pc' \notin {"writeFailed", "closeFailed"}
    BY <1>3 DEF Running
  <2>2. Phase' = Phase
    BY <2>1, Zenon DEF Phase
  <2>3. QED
    BY <1>1, <2>2, Zenon
<1>4. QED
  BY <1>2, <1>3

\* A character stops the log: the first one, or one after the timer closed it.
LEMMA PollStops ==
    ASSUME LogInv, PhaseInv, PollSerial
    PROVE  Stream!Stop \/ UNCHANGED <<acquired, FileRecords, Phase>>
<1>1. /\ pc = "poll" /\ pc' = "fill" /\ UNCHANGED <<card, acquired>>
      /\ IF serial # <<>> THEN closeFile' = TRUE /\ serialInput' = Head(serial)
         ELSE UNCHANGED <<closeFile, serialInput>>
  BY Zenon DEF PollSerial, fillVars, drainVars
<1>2. Running /\ Running'
  BY <1>1 DEF Running
<1>3. CASE serial = <<>>
  BY <1>1, <1>2, <1>3, StreamStutters, Zenon
<1>4. CASE serial # <<>>
  <2>1. serialInput' # " "
    <3>1. Head(serial) \in Chars
      <4>1. serial \in Seq(Chars)
        BY Zenon DEF LogInv, TypeOK
      <4>2. QED
        BY <1>4, <4>1, HeadTailProperties
    <3>2. QED
      BY <1>1, <1>4, <3>1 DEF Chars
  <2>2. FileRecords' = FileRecords
    BY <1>1, Zenon DEF FileRecords
  <2>3. Len(card) # FileBlockCount /\ Phase \in {"logging", "silent", "stopped"}
    BY <1>2, PhaseRunning, Zenon
  <2>4. Phase' = "stopped"
    <3>1. pc' # "closed" /\ pc' \notin {"writeFailed", "closeFailed"}
      BY <1>1
    <3>2. QED
      BY <1>1, <1>4, <2>1, <2>3, <3>1, Zenon DEF Phase
  <2>5. QED
    BY <1>1, <2>2, <2>3, <2>4, Zenon DEF Stream!Stop
<1>5. QED
  BY <1>3, <1>4

\* The message taken is newer than all those taken before.
LEMMA NewestTaken ==
    ASSUME LogInv, ArrivalInv, fifo # <<>>
    PROVE  Head(fifo) \in Messages /\ \A i \in DOMAIN acquired : acquired[i] < Head(fifo)
<1> DEFINE s == acquired
           t == fifo
           m == Len(s)
           n == Len(t)
<1>1. s \in Seq(Messages) /\ t \in Seq(Messages) /\ Len(Taken) = m + n /\ t # <<>>
  BY TakenType
<1>2. \A i, j \in 1 .. Len(Taken) : i < j => (s \o t)[i] < (s \o t)[j]
  BY Zenon DEF ArrivalInv, Taken
<1> HIDE DEF s, t
<1>3. \A i \in 1 .. m + n : (s \o t)[i] = IF i <= m THEN s[i] ELSE t[i - m]
  BY <1>1, ConcatProperties
<1>4. m \in Nat /\ n \in Nat \ {0} /\ DOMAIN s = 1 .. m /\ Head(t) = t[1]
      /\ Head(t) \in Messages
  BY <1>1, HeadTailProperties
<1> HIDE DEF m, n
<1> DEFINE u == s \o t
           last == m + 1
<1>5. last \in 1 .. m + n /\ ~(last <= m) /\ last - m = 1
      /\ \A i \in 1 .. m : i <= m /\ i < last /\ i \in 1 .. m + n
  BY <1>4
<1> HIDE DEF last
<1>6. u[last] = t[1] /\ \A i \in 1 .. m : u[i] = s[i]
  BY <1>3, <1>5, Zenon
<1>7. \A i \in 1 .. m : u[i] < u[last]
  BY <1>1, <1>2, <1>5, Zenon
<1>8. QED
  BY <1>4, <1>6, <1>7, Zenon DEF s, t

\* A pass of the loop records a message, or notices the silence, or does neither.
LEMMA FillRecordsOne ==
    ASSUME LogInv, PhaseInv, ArrivalInv, FillBlock
    PROVE  Stream!Record \/ Stream!GoSilent \/ UNCHANGED <<acquired, FileRecords, Phase>>
<1>1. /\ pc = "fill" /\ pc' = "drain" /\ ~closeFile /\ closeFile' = silence'
      /\ UNCHANGED <<card, serialInput>>
      /\ IF fifo # <<>> THEN acquired' = Append(acquired, Head(fifo)) /\ silence' = FALSE
         ELSE UNCHANGED <<acquired, silence>>
  BY Zenon DEF FillBlock, ReadBus, CheckSilence, drainVars
<1>2. Running /\ pc' # "closed" /\ pc' \notin {"writeFailed", "closeFailed"}
  BY <1>1 DEF Running
<1>3. Len(card) # FileBlockCount /\ Phase = "logging"
  BY <1>1, <1>2, PhaseRunning, Zenon
<1>4. FileRecords' = FileRecords
  BY <1>1, Zenon DEF FileRecords
<1>5. CASE fifo # <<>>
  <2>1. Phase' = "logging"
    BY <1>1, <1>2, <1>3, <1>5, Zenon DEF Phase
  <2>2. Head(fifo) \in Messages /\ \A i \in DOMAIN acquired : acquired[i] < Head(fifo)
    BY <1>5, NewestTaken
  <2>3. QED
    BY <1>1, <1>3, <1>4, <1>5, <2>1, <2>2, Zenon DEF Stream!Record
<1>6. CASE fifo = <<>> /\ silence
  <2>1. serialInput' = " "
    BY <1>1, Zenon DEF PhaseInv
  <2>2. Phase' = "silent"
    BY <1>1, <1>2, <1>3, <1>6, <2>1, Zenon DEF Phase
  <2>3. QED
    BY <1>1, <1>3, <1>4, <1>6, <2>2, Zenon DEF Stream!GoSilent
<1>7. CASE fifo = <<>> /\ ~silence
  <2>0. ~closeFile'
    BY <1>1, <1>7
  <2>1. Phase' = "logging"
    BY <1>1, <1>2, <1>3, <2>0, Zenon DEF Phase
  <2>2. QED
    BY <1>1, <1>3, <1>4, <1>7, <2>1, Zenon
<1>8. QED
  BY <1>5, <1>6, <1>7

\* A block holds DATA_DIM records at most, and so do blocks on average.
LEMMA FewRecords ==
    ASSUME NEW s \in Seq(Blocks)
    PROVE  Len(RecordsOfAll(s)) <= Len(s) * DataDim
<1> DEFINE m == Len(s)
           Start(n) == SubSeq(s, 1, n)
           T == {n \in Nat : n <= m => Len(RecordsOfAll(Start(n))) <= n * DataDim}
<1>1. m \in Nat /\ DataDim \in Nat
  BY SizesAssumption
<1>2. 0 \in T
  <2>1. Start(0) = <<>>
    BY SubSeqEmpty
  <2>2. Len(RecordsOfAll(Start(0))) = 0
    <3>1. Len(<<>>) = 0
      OBVIOUS
    <3>2. QED
      BY <2>1, <3>1, RecordsEmpty, Zenon
  <2> HIDE DEF Start
  <2>3. QED
    BY <1>1, <2>2
<1>3. ASSUME NEW n \in 0 .. m - 1, n \in T
      PROVE  n + 1 \in T
  <2> DEFINE p == Start(n)
             q == Start(n + 1)
             b == s[n + 1]
  <2>1. n \in Nat /\ n + 1 \in 1 .. m
    BY <1>1
  <2>2. p \in Seq(Blocks) /\ b \in Blocks
    BY <1>1, <2>1, SubSeqProperties
  <2>3. q = p \o <<b>>
    <3>1. Start(n + 1) = Append(Start(n), s[n + 1])
      BY <1>1, <2>1
    <3>2. Append(p, b) = p \o <<b>>
      BY <2>2, AppendIsConcat
    <3>3. QED
      BY <3>1, <3>2, Zenon
  <2> HIDE DEF p, q, b
  <2> DEFINE x == RecordsOfAll(p)
             y == RecordsOf(b)
             z == RecordsOfAll(q)
  <2>4. z = x \o y
    BY <2>2, <2>3, BlockAdds, Zenon DEF Adds
  <2>5. x \in Seq(Records) /\ y \in Seq(Records) /\ Len(y) = b.count
    BY <2>2, RecordsType, RecordsOfType
  <2>6. b.count \in 0 .. DataDim
    BY <2>2 DEF Blocks
  <2> HIDE DEF x, y, z
  <2>7. Len(z) = Len(x) + Len(y) /\ Len(x) \in Nat
    BY <2>4, <2>5, ConcatProperties
  <2>8. Len(x) <= n * DataDim
    <3>1. n <= m
      BY <1>1, <2>1
    <3>2. QED
      BY <1>3, <3>1, Zenon DEF x, p
  <2>9. Len(z) <= (n + 1) * DataDim
    <3> DEFINE lx == Len(x)
               k == n * DataDim
    <3>1. (n + 1) * DataDim = k + DataDim /\ k \in Nat
      BY <1>1, <2>1
    <3>2. lx \in Nat /\ Len(z) = lx + b.count /\ lx <= k
      BY <2>5, <2>7, <2>8
    <3> HIDE DEF lx, k
    <3>3. QED
      BY <1>1, <2>6, <3>1, <3>2
  <2>10. n + 1 \in Nat
    BY <2>1
  <2>11. QED
    BY <2>9, <2>10, Zenon DEF z, q
<1> HIDE DEF T
<1>4. m \in T
  BY <1>1, <1>2, <1>3, SetInductionUpTo
<1>5. Start(m) = s
  OBVIOUS
<1> HIDE DEF m, Start
<1>6. Len(RecordsOfAll(Start(m))) <= m * DataDim
  BY <1>1, <1>4 DEF T
<1>7. QED
  BY <1>5, <1>6, Zenon DEF m

\* The records that still wait for the card, behind those a reader finds.
FoundInv ==
    pc # "writeFailed" =>
        /\ FileRecords = RecordsOfAll(card)
        /\ acquired = FileRecords \o RecordsOfAll(Waiting)
        /\ FileRecords \in Seq(Records) /\ RecordsOfAll(Waiting) \in Seq(Records)

\* The file is the records on the card, and the rest of those taken wait.
LEMMA Found == StreamInv => FoundInv
<1> SUFFICES ASSUME StreamInv, pc # "writeFailed"
             PROVE  /\ FileRecords = RecordsOfAll(card)
                    /\ acquired = FileRecords \o RecordsOfAll(Waiting)
                    /\ FileRecords \in Seq(Records)
                    /\ RecordsOfAll(Waiting) \in Seq(Records)
  BY Zenon DEF FoundInv
<1>1. LogInv /\ DataInv
  BY Zenon DEF StreamInv
<1>2. FileRecords = RecordsOfAll(card)
  BY <1>1, DataRead, Zenon
<1>3. acquired = FileRecords \o RecordsOfAll(Waiting)
  BY <1>1, <1>2, Zenon DEF DataInv, InOrder
<1>4. card \in Seq(Blocks) /\ Waiting \in Seq(Blocks)
  BY <1>1, WaitingType, Zenon
<1>5. QED
  BY <1>2, <1>3, <1>4, RecordsType, Zenon

\* A write adds records already taken to the file, in order, and may fill it.
LEMMA WriteSaves ==
    ASSUME StreamInv, FoundInv, FoundInv', WriteBlock
    PROVE  Stream!Save
<1> DEFINE F == FileRecords
           G == FileRecords'
           b == block[NextToWrite]
           r == RecordsOf(b)
           w == RecordsOfAll(Waiting')
<1>1. LogInv /\ PhaseInv
  BY Zenon DEF StreamInv
<1>2. /\ pc = "drain" /\ pc' # "writeFailed" /\ acquired' = acquired
      /\ card' = Append(card, b) /\ serialInput' = serialInput
      /\ IF Len(card') = FileBlockCount THEN closeFile' = TRUE /\ pc' = "close"
         ELSE pc' = "poll" /\ closeFile' = closeFile
  BY Zenon DEF WriteBlock, fillVars
<1>3. pc # "writeFailed" /\ Running
  BY <1>2 DEF Running
<1>4. F = RecordsOfAll(card) /\ F \in Seq(Records)
  BY <1>3, Zenon DEF FoundInv
<1>5. G = RecordsOfAll(card') /\ acquired = G \o w /\ G \in Seq(Records) /\ w \in Seq(Records)
  BY <1>2, Zenon DEF FoundInv
<1>6. b \in Blocks
  BY <1>1, DrainMoves
<1>7. card \in Seq(Blocks)
  BY <1>1, WaitingType, Zenon
<1>8. G = F \o r
  <2>1. card' = card \o <<b>>
    BY <1>2, <1>7, AppendIsConcat
  <2>2. Adds(card, b, card \o <<b>>)
    BY <1>6, <1>7, BlockAdds
  <2>3. QED
    BY <1>4, <1>5, <2>1, <2>2, Zenon DEF Adds
<1>9. r \in Seq(Records)
  BY <1>6, RecordsOfType
<1> HIDE DEF F, G, r, w, b
<1>10. Len(G) \in Len(F) .. Len(acquired)
  BY <1>4, <1>5, <1>8, <1>9, ConcatProperties
<1>11. G = SubSeq(acquired, 1, Len(G))
  <2>1. SubSeq(G \o w, 1, Len(G)) = G
    BY <1>5, ConcatStarts
  <2>2. QED
    BY <1>5, <2>1, Zenon
<1>12. Phase \in {"logging", "stopped", "silent"} /\ Phase' \in {Phase, "full"}
  <2>1. /\ Len(card) # FileBlockCount
        /\ Phase = IF ~closeFile THEN "logging"
                   ELSE IF serialInput = " " THEN "silent" ELSE "stopped"
    BY <1>1, <1>3, PhaseRunning, Zenon
  <2>2. pc' # "closed" /\ pc' \notin {"writeFailed", "closeFailed"}
    BY <1>2
  <2>3. Phase' \in {Phase, "full"}
    BY <1>2, <2>1, <2>2, Zenon DEF Phase
  <2>4. QED
    BY <2>1, <2>3, Zenon
<1>13. QED
  BY <1>2, <1>10, <1>11, <1>12, Zenon DEF Stream!Save, F, G

\* A failure ends a log that was neither closed nor failed.
LEMMA FailureEnds ==
    ASSUME pc \in {"drain", "close"}, pc' \in {"writeFailed", "closeFailed"},
           UNCHANGED <<card, acquired>>
    PROVE  Stream!Fail
<1>1. Phase' = "failed"
  <2>1. pc' # "closed"
    OBVIOUS
  <2>2. QED
    BY <2>1, Zenon DEF Phase
<1>2. Phase \notin {"closed", "failed"}
  <2>1. pc # "closed" /\ pc \notin {"writeFailed", "closeFailed"}
    OBVIOUS
  <2>2. Phase \in {"full", "logging", "silent", "stopped"}
    BY <2>1, Zenon DEF Phase
  <2>3. QED
    BY <2>2
<1>3. FileRecords' = FileRecords
  BY Zenon DEF FileRecords
<1>4. QED
  BY <1>1, <1>2, <1>3, Zenon DEF Stream!Fail

\* What a log lacks when it is closed: the records that still wait for the card.
LEMMA MissingWaits ==
    ASSUME FoundInv, pc = "close"
    PROVE  /\ Stream!Missing = Len(RecordsOfAll(Waiting))
           /\ Len(RecordsOfAll(Waiting)) \in Nat
<1> DEFINE f == FileRecords
           w == RecordsOfAll(Waiting)
<1>1. acquired = f \o w /\ f \in Seq(Records) /\ w \in Seq(Records)
  <2>1. pc # "writeFailed"
    OBVIOUS
  <2>2. QED
    BY <2>1, Zenon DEF FoundInv
<1> HIDE DEF f, w
<1>2. Len(f \o w) - Len(f) = Len(w) /\ Len(w) \in Nat
  BY <1>1, ConcatProperties
<1>3. QED
  BY <1>1, <1>2, Zenon DEF Stream!Missing, f, w

\* With nothing queued, what waits is the current block, and it is not full.
LEMMA CurrentWaits ==
    ASSUME LogInv, fullHead = fullTail
    PROVE  /\ Len(RecordsOfAll(Waiting)) <= DataDim - 1
           /\ curBlock = NoBlock => Len(RecordsOfAll(Waiting)) = 0
<1>1. FullBlocks = <<>>
  BY NothingQueued
<1>2. DataDim \in Nat \ {0}
  BY SizesAssumption
<1>3. CASE curBlock = NoBlock
  <2>1. Waiting = <<>> \o <<>>
    BY <1>1, <1>3, Zenon DEF Waiting, CurrentBlocks
  <2>2. <<>> \o <<>> = <<>> /\ Len(<<>>) = 0
    OBVIOUS
  <2>3. Len(RecordsOfAll(Waiting)) = 0
    BY <2>1, <2>2, RecordsEmpty, Zenon
  <2>4. QED
    BY <1>2, <2>3
<1>4. CASE curBlock # NoBlock
  <2> DEFINE b == block[curBlock]
  <2>1. b \in Blocks /\ b.count < DataDim
    <3>1. /\ block \in [Buffers -> Blocks] /\ curBlock \in Buffers
          /\ block[curBlock].count < DataDim
      BY <1>4, Zenon DEF LogInv, TypeOK
    <3>2. QED
      BY <3>1, Zenon
  <2>2. Waiting = <<>> \o <<b>>
    BY <1>1, <1>4, Zenon DEF Waiting, CurrentBlocks
  <2> HIDE DEF b
  <2>3. <<>> \o <<b>> = <<b>>
    OBVIOUS
  <2>4. RecordsOfAll(Waiting) = RecordsOf(b)
    BY <2>1, <2>2, <2>3, RecordsSingle, Zenon
  <2>5. Len(RecordsOfAll(Waiting)) = b.count
    BY <2>1, <2>4, RecordsOfType
  <2>6. b.count \in 0 .. DataDim
    BY <2>1 DEF Blocks
  <2> DEFINE n == Len(RecordsOfAll(Waiting))
  <2>7. n = b.count
    BY <2>5
  <2> HIDE DEF n
  <2>8. n <= DataDim - 1
    BY <1>2, <2>1, <2>6, <2>7
  <2>9. QED
    BY <1>4, <2>8, Zenon DEF n
<1>5. QED
  BY <1>3, <1>4

\* While a buffer is empty, the others hold what waits.
LEMMA OthersWait ==
    ASSUME LogInv, pc # "writeFailed", emptyHead # emptyTail
    PROVE  Len(RecordsOfAll(Waiting)) <= BufferBlockCount * DataDim
<1>1. /\ emptyHead \in Slots /\ emptyTail \in Slots
      /\ Held(emptyHead, emptyTail, fullHead, fullTail, curBlock) = BufferBlockCount + 1
  BY Zenon DEF LogInv, OwnershipInv, QueuesNow, QueuesOK, QueuesTyped
<1> DEFINE e == QueueLen(emptyHead, emptyTail)
           f == Len(FullBlocks)
           c == Len(CurrentBlocks)
           n == Len(Waiting)
           r == Len(RecordsOfAll(Waiting))
<1>2. e \in Nat /\ e > 0
  <2>1. QueueDim \in Nat
    BY SizesAssumption DEF QueueDim
  <2>2. e \in 0 .. QueueDim - 1 /\ e > 0
    BY <1>1, QueueLenType
  <2> HIDE DEF e
  <2>3. QED
    BY <2>1, <2>2
<1>3. FullBlocks \in Seq(Blocks) /\ CurrentBlocks \in Seq(Blocks) /\ Waiting \in Seq(Blocks)
      /\ f = QueueLen(fullHead, fullTail)
  BY WaitingType, Zenon
<1>4. c = IF curBlock = NoBlock THEN 0 ELSE 1
  <2>2. CASE curBlock = NoBlock
    <3>1. CurrentBlocks = <<>>
      BY <2>2 DEF CurrentBlocks
    <3>2. QED
      BY <2>2, <3>1
  <2>3. CASE curBlock # NoBlock
    <3>1. CurrentBlocks = <<block[curBlock]>>
      BY <2>3 DEF CurrentBlocks
    <3>2. Len(<<block[curBlock]>>) = 1
      OBVIOUS
    <3>3. QED
      BY <2>3, <3>1, <3>2
  <2>4. QED
    BY <2>2, <2>3
<1>5. e + f + c = BufferBlockCount + 1
  BY <1>1, <1>3, <1>4, Zenon DEF Held
<1>6. n = f + c /\ f \in Nat /\ c \in Nat
  <2> DEFINE s == FullBlocks
             t == CurrentBlocks
  <2>1. s \in Seq(Blocks) /\ t \in Seq(Blocks)
    BY <1>3
  <2> HIDE DEF s, t
  <2>2. Len(s \o t) = Len(s) + Len(t) /\ Len(s) \in Nat /\ Len(t) \in Nat
    BY <2>1, ConcatProperties
  <2>3. QED
    BY <2>2, Zenon DEF Waiting, s, t
<1>7. r <= n * DataDim
  BY <1>3, FewRecords
<1>8. r \in Nat
  <2>1. RecordsOfAll(Waiting) \in Seq(Records)
    BY <1>3, RecordsType
  <2>2. QED
    BY <2>1
<1> HIDE DEF e, f, c, n, r
<1>9. n <= BufferBlockCount /\ n \in Nat
  BY <1>2, <1>5, <1>6, SizesAssumption
<1>10. n * DataDim <= BufferBlockCount * DataDim
  <2>1. BufferBlockCount \in Nat /\ DataDim \in Nat
    BY SizesAssumption
  <2>2. QED
    BY <1>9, <2>1
<1>11. r <= BufferBlockCount * DataDim
  BY <1>7, <1>8, <1>9, <1>10, SizesAssumption
<1>12. QED
  BY <1>11 DEF r

\* A log is closed with no more missing than its phase allows.
LEMMA CloseLoses ==
    ASSUME StreamInv, FoundInv, CloseLog
    PROVE  Stream!Close
<1>1. LogInv /\ PhaseInv
  BY Zenon DEF StreamInv
<1>2. pc = "close" /\ pc' = "closed" /\ UNCHANGED <<card, acquired>>
  BY Zenon DEF CloseLog, fillVars
<1>3. Phase' = "closed" /\ FileRecords' = FileRecords
  BY <1>2, Zenon DEF Phase, FileRecords
<1>4. pc # "closed" /\ pc \notin {"writeFailed", "closeFailed"} /\ pc # "writeFailed"
  BY <1>2
<1>5. Stream!Missing = Len(RecordsOfAll(Waiting))
  BY <1>2, MissingWaits
<1>6. CASE Len(card) = FileBlockCount
  <2>1. Phase = "full"
    BY <1>4, <1>6, Zenon DEF Phase
  <2>2. emptyHead # emptyTail
    BY <1>1, <1>2, <1>6, Zenon DEF PhaseInv
  <2>3. Len(RecordsOfAll(Waiting)) <= BufferBlockCount * DataDim
    BY <1>1, <1>4, <2>2, OthersWait, Zenon
  <2>4. QED
    BY <1>2, <1>3, <1>5, <2>1, <2>3, Zenon DEF Stream!Close
<1>7. CASE Len(card) # FileBlockCount
  <2>1. closeFile /\ fullHead = fullTail /\ (curBlock # NoBlock => serialInput = " ")
    BY <1>1, <1>2, <1>7, Zenon DEF PhaseInv
  <2>2. /\ Len(RecordsOfAll(Waiting)) <= DataDim - 1
        /\ curBlock = NoBlock => Len(RecordsOfAll(Waiting)) = 0
    BY <1>1, <2>1, CurrentWaits, Zenon
  <2>3. CASE serialInput = " "
    <3>1. Phase = "silent"
      BY <1>4, <1>7, <2>1, <2>3, Zenon DEF Phase
    <3>2. QED
      BY <1>2, <1>3, <1>5, <2>2, <3>1, Zenon DEF Stream!Close
  <2>4. CASE serialInput # " "
    <3>1. Phase = "stopped"
      BY <1>4, <1>7, <2>1, <2>4, Zenon DEF Phase
    <3>2. QED
      BY <1>2, <1>3, <1>5, <2>1, <2>2, <2>4, <3>1, Zenon DEF Stream!Close
  <2>5. QED
    BY <2>3, <2>4
<1>8. QED
  BY <1>6, <1>7

\* Every step of the loop is one of LogStream, or none.
LEMMA StreamStep ==
    ASSUME StreamInv, FoundInv, FoundInv', [Next]_vars
    PROVE  Stream!StreamNext \/ UNCHANGED <<acquired, FileRecords, Phase>>
<1>1. LogInv /\ PhaseInv /\ ArrivalInv
  BY Zenon DEF StreamInv
<1>2. ASSUME \/ MessageArrives \/ BusGoesQuiet \/ SilenceExpires \/ RequestExpires
             \/ TypeCharacter \/ CardReady \/ SetTimeWhileWaiting \/ UNCHANGED vars
      PROVE  UNCHANGED <<acquired, FileRecords, Phase>>
  <2>1. UNCHANGED <<closeFile, serialInput, card, acquired>> /\ pc' = pc
    BY <1>2, Zenon
       DEF MessageArrives, BusGoesQuiet, SilenceExpires, RequestExpires, TypeCharacter,
           CardReady, SetTimeWhileWaiting, vars, fillVars, drainVars, portVars
  <2>2. QED
    BY <2>1, StreamStutters, Zenon
<1>3. ASSUME \/ FirstMessage \/ FlushCurBlock \/ CountOverrun \/ SkipDrain \/ ExitLoop
      PROVE  UNCHANGED <<acquired, FileRecords, Phase>>
  <2>1. /\ UNCHANGED <<closeFile, serialInput, card, acquired>>
        /\ pc \in {"wait", "fill", "drain"} /\ pc' \in {"poll", "fill", "drain", "close"}
    BY <1>3, Zenon
       DEF FirstMessage, FlushCurBlock, CountOverrun, SkipDrain, ExitLoop, fillVars,
           drainVars
  <2>2. Running
    BY <2>1 DEF Running
  <2>3. QED
    BY <2>1, <2>2, StreamStutters, Zenon
<1>4. ASSUME WriteFails \/ CloseFails
      PROVE  Stream!Fail
  <2>1. /\ pc \in {"drain", "close"} /\ pc' \in {"writeFailed", "closeFailed"}
        /\ UNCHANGED <<card, acquired>>
    BY <1>4, Zenon DEF WriteFails, CloseFails, fillVars, drainVars
  <2>2. QED
    BY <2>1, FailureEnds
<1>5. PollSerial => Stream!Stop \/ UNCHANGED <<acquired, FileRecords, Phase>>
  BY <1>1, PollStops
<1>6. FillBlock => Stream!Record \/ Stream!GoSilent
                     \/ UNCHANGED <<acquired, FileRecords, Phase>>
  BY <1>1, FillRecordsOne
<1>7. WriteBlock => Stream!Save
  BY WriteSaves
<1>8. CloseLog => Stream!Close
  BY CloseLoses
<1>9. QED
  BY <1>2, <1>3, <1>4, <1>5, <1>6, <1>7, <1>8, Zenon
     DEF Next, LoopStep, Environment, Stopped, Stream!StreamNext

\* The loop begins where LogStream does.
LEMMA StreamStart == Init => Stream!StreamInit
<1> SUFFICES ASSUME Init PROVE Stream!StreamInit
  OBVIOUS
<1>1. acquired = <<>> /\ card = <<>> /\ pc = "wait" /\ ~closeFile
  BY Zenon DEF Init
<1>2. Len(card) # FileBlockCount
  BY <1>1, SizesAssumption
<1>3. Phase = "logging"
  <2>1. pc # "closed" /\ pc \notin {"writeFailed", "closeFailed"}
    BY <1>1
  <2>2. QED
    BY <1>1, <1>2, <2>1, Zenon DEF Phase
<1>4. FileRecords = <<>>
  <2>1. LogInv
    BY InitTyped, InitOwned, Zenon DEF LogInv
  <2>2. pc # "writeFailed"
    BY <1>1
  <2>3. FileRecords = RecordsOfAll(card)
    BY <2>1, <2>2, DataInit, DataRead, Zenon
  <2>4. QED
    BY <1>1, <2>3, RecordsEmpty, Zenon
<1>5. QED
  BY <1>1, <1>3, <1>4, Zenon DEF Stream!StreamInit

\* The loop, with its buffers used again and again, its queues, its counters and its
\* three ways out, implements the stream of records that LogStream describes: the file
\* is always a prefix of the messages taken, and a log closes with no more missing
\* than the way it ended allows.
THEOREM LoopImplementsStream == Spec => ImplementsLogStream
<1>1. Init => Stream!StreamInit
  BY StreamStart
<1>2. StreamInv /\ FoundInv /\ FoundInv' /\ [Next]_vars
        => [Stream!StreamNext]_(Stream!streamVars)
  BY StreamStep, Zenon DEF Stream!streamVars
<1>3. QED
  BY <1>1, <1>2, StreamInvariant, Found, PTL
     DEF Spec, ImplementsLogStream, Stream!StreamSpec
=============================================================================
