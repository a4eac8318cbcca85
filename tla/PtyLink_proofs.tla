--------------------------- MODULE PtyLink_proofs ---------------------------
(***************************************************************************)
(* Theorems about PtyLink for every credit, queue bound, chunk size and    *)
(* number of losses and restarts.  The invariant behind them adds to the   *)
(* properties of PtyLink that the queued chunks follow each other without  *)
(* a gap up to the last byte read, so that the bytes of a prefix of the    *)
(* queue are a difference of two positions in the stream.                  *)
(***************************************************************************)
EXTENDS PtyLink, SequenceTheorems, TLAPS

\* Each chunk starts where the one before it ends, and later than all before.
Gapless(q) ==
  /\ \A i \in 1..Len(q) - 1 : q[i].upto = q[i + 1].from
  /\ \A i, j \in 1..Len(q) : i < j => q[i].upto <= q[j].from

\* What is queued belongs to a running agent and ends with its last byte.
QueueToEnd == queue # <<>> => pty = "running" /\ queue[Len(queue)].upto = read

Flow ==
  /\ CreditConserved /\ AcksCovered /\ StreamIntact /\ PausedForCredit
  /\ Gapless(queue) /\ QueueToEnd

\* The inductive invariant.
LinkInv ==
  /\ TypeOK
  /\ Flow
  /\ link = "up" => failures < MAX_HEALTH_FAILURES

flowVars == <<pty, read, credit, emitted, acked, paused, queue>>

----------------------------------------------------------------------------
(* Facts about the queue *)

\* The bytes of a prefix of the queue: none, or all between two positions.
LEMMA FirstFacts ==
  ASSUME TypeOK, Gapless(queue)
  PROVE  /\ Len(queue) \in Nat
         /\ \A i \in 1..Len(queue) : /\ queue[i] \in Chunks /\ queue[i].from \in 0..MaxRead
                                     /\ queue[i].upto \in 0..MaxRead
                                     /\ queue[i].from < queue[i].upto
         /\ \A k \in 0..Len(queue) : First(k) \in Nat
<1>1. queue \in Seq(Chunks) /\ Len(queue) \in Nat
  BY DEF TypeOK
<1>2. \A i \in 1..Len(queue) : queue[i] \in Chunks
  BY <1>1
<1>3. MaxRead \in Nat
  BY BoundsAssumption
<1>4. \A i \in 1..Len(queue) : /\ queue[i].from \in 0..MaxRead
                               /\ queue[i].upto \in 0..MaxRead
                               /\ queue[i].from < queue[i].upto
  BY <1>2 DEF Chunks
<1>5. ASSUME NEW k \in 0..Len(queue) PROVE First(k) \in Nat
  <2>1. CASE k = 0
    BY <2>1 DEF First
  <2>2. CASE k = 1
    BY <2>2, <1>4, <1>3 DEF First
  <2>3. CASE k > 1
    <3>1. queue[1].upto <= queue[k].from
      BY <2>3, <1>1 DEF Gapless
    <3>2. QED
      BY <3>1, <2>3, <1>1, <1>3, <1>4 DEF First
  <2>4. QED
    BY <2>1, <2>2, <2>3, <1>1
<1>6. QED
  BY <1>1, <1>2, <1>4, <1>5

\* Removing a prefix keeps the queue without gaps and takes its bytes off.
LEMMA DrainFacts ==
  ASSUME TypeOK, Gapless(queue), NEW k \in 0..Len(queue),
         queue' = SubSeq(queue, k + 1, Len(queue))
  PROVE  /\ queue' \in Seq(Chunks) /\ Len(queue') = Len(queue) - k
         /\ \A i \in 1..Len(queue) - k : queue'[i] = queue[k + i]
         /\ Gapless(queue')
         /\ \A i \in 0..Len(queue) - k : First(i)' = First(k + i) - First(k)
<1>1. queue \in Seq(Chunks) /\ Len(queue) \in Nat /\ MaxRead \in Nat
  BY BoundsAssumption DEF TypeOK
<1>2. /\ queue' \in Seq(Chunks) /\ Len(queue') = Len(queue) - k
      /\ \A i \in 1..Len(queue) - k : queue'[i] = queue[k + i]
  BY <1>1
<1>3. Gapless(queue')
  <2>1. ASSUME NEW i \in 1..Len(queue') - 1 PROVE queue'[i].upto = queue'[i + 1].from
    <3>1. queue'[i] = queue[k + i] /\ queue'[i + 1] = queue[k + (i + 1)]
      BY <1>1, <1>2
    <3>2. k + i \in 1..Len(queue) - 1 /\ k + (i + 1) = (k + i) + 1
      BY <1>1, <1>2
    <3>3. QED
      BY <3>1, <3>2 DEF Gapless
  <2>2. ASSUME NEW i \in 1..Len(queue'), NEW j \in 1..Len(queue'), i < j
        PROVE  queue'[i].upto <= queue'[j].from
    <3>1. queue'[i] = queue[k + i] /\ queue'[j] = queue[k + j]
      BY <1>1, <1>2
    <3>2. k + i \in 1..Len(queue) /\ k + j \in 1..Len(queue) /\ k + i < k + j
      BY <1>1, <1>2, <2>2
    <3>3. QED
      BY <3>1, <3>2 DEF Gapless
  <2>3. QED
    BY <2>1, <2>2 DEF Gapless
<1>4. ASSUME NEW i \in 0..Len(queue) - k PROVE First(i)' = First(k + i) - First(k)
  <2>1. CASE i = 0
    <3>1. First(i)' = 0 /\ First(k + i) = First(k)
      BY <2>1 DEF First
    <3>2. First(k) \in Nat
      BY FirstFacts
    <3>3. QED
      BY <3>1, <3>2
  <2>2. CASE i > 0
    <3>1. queue'[i] = queue[k + i] /\ queue'[1] = queue[k + 1]
      BY <1>1, <1>2, <2>2
    <3>2. First(i)' = queue[k + i].upto - queue[k + 1].from
      BY <3>1, <2>2 DEF First
    <3>3. First(k + i) = queue[k + i].upto - queue[1].from
      BY <2>2 DEF First
    <3>4. First(k) = queue[k + 1].from - queue[1].from
      <4>1. CASE k = 0
        BY <4>1, <2>2, <1>1, FirstFacts DEF First
      <4>2. CASE k > 0
        <5>1. k \in 1..Len(queue) - 1
          BY <4>2, <2>2, <1>1
        <5>2. QED
          BY <4>2, <5>1 DEF First, Gapless
      <4>3. QED
        BY <4>1, <4>2
    <3>5. /\ queue[1].from \in Int /\ queue[k + 1].from \in Int
          /\ queue[k + i].upto \in Int
      <4>1. \A m \in 1..Len(queue) : queue[m].from \in Int /\ queue[m].upto \in Int
        BY <1>1, FirstFacts
      <4>2. 1 \in 1..Len(queue) /\ k + 1 \in 1..Len(queue) /\ k + i \in 1..Len(queue)
        BY <2>2, <1>1
      <4>3. QED
        BY <4>1, <4>2
    <3>6. QED
      BY <3>2, <3>3, <3>4, <3>5
  <2>3. QED
    BY <2>1, <2>2, <1>1
<1>5. QED
  BY <1>2, <1>3, <1>4

----------------------------------------------------------------------------
(* The steps of the flow control *)

\* Steps that leave the terminal and its credit alone, and put no bytes on the
\* wire, keep the flow invariant.
LEMMA FlowFrame ==
  ASSUME TypeOK, Flow, UNCHANGED flowVars,
         data' \in Nat, acks' \in Nat, acks' + data' <= acks + data
  PROVE  Flow'
<1>1. /\ CreditConserved' /\ StreamIntact' /\ PausedForCredit'
      /\ Gapless(queue)' /\ QueueToEnd'
  BY DEF Flow, flowVars, CreditConserved, StreamIntact, PausedForCredit, QueueToEnd, First
<1>2. AcksCovered'
  <2>1. /\ acked \in Nat /\ emitted \in Nat /\ acks \in Nat /\ data \in Nat
    BY DEF TypeOK
  <2>2. acked + acks + data <= emitted /\ acked' = acked /\ emitted' = emitted
    BY DEF Flow, flowVars, AcksCovered
  <2>3. ASSUME NEW x \in Nat, NEW y \in Nat, x + y <= acks + data
        PROVE  acked + x + y <= emitted
    BY <2>1, <2>2, <2>3
  <2>4. acked + acks' + data' <= emitted
    BY <2>3
  <2>5. QED
    BY <2>2, <2>4 DEF AcksCovered
<1>3. QED
  BY <1>1, <1>2 DEF Flow

\* The invariant allows a chunk only while the bound of the queue is not reached, so
\* that a chunk that is held goes to the end of the whole queue.
LEMMA HoldFacts ==
  ASSUME TypeOK, Flow, NEW n \in 1..MaxChunk, Read(n), paused \/ credit < n
  PROVE  /\ queue' \in Seq(Chunks)
         /\ Len(queue') = Len(queue) + 1 /\ Len(queue') <= PENDING_QUEUE_BOUND
         /\ Len(queue) \in Nat
         /\ \A i \in 1..Len(queue) : queue'[i] = queue[i]
         /\ queue'[Len(queue) + 1] = [from |-> read, upto |-> read + n]
         /\ Gapless(queue')
<1> DEFINE chunk == [from |-> read, upto |-> read + n]
<1>0. /\ pty = "running" /\ read + n <= MaxRead /\ (paused => Len(queue) <= MaxLate)
      /\ Hold(chunk)
  BY DEF Read
<1>1. /\ queue \in Seq(Chunks) /\ Len(queue) \in Nat /\ read \in Nat /\ MaxRead \in Nat
      /\ n \in Nat /\ n > 0
  BY BoundsAssumption, CreditAssumption DEF TypeOK
<1>2. Len(queue) < PENDING_QUEUE_BOUND
  <2>1. CASE paused
    BY <2>1, <1>0, <1>1, QueueAssumption
  <2>2. CASE ~paused
    <3>1. Len(queue) = 0
      BY <2>2 DEF Flow, PausedForCredit
    <3>2. QED
      BY <3>1, QueueAssumption
  <2>3. QED
    BY <2>1, <2>2
<1>3. chunk \in Chunks
  BY <1>0, <1>1 DEF Chunks
<1>4. queue' = Append(queue, chunk)
  BY <1>0, <1>2, <1>1, QueueAssumption DEF Hold
<1>5. /\ queue' \in Seq(Chunks) /\ Len(queue') = Len(queue) + 1
      /\ \A i \in 1..Len(queue) : queue'[i] = queue[i]
      /\ queue'[Len(queue) + 1] = chunk
  BY <1>1, <1>3, <1>4, AppendProperties
<1>6. Len(queue') <= PENDING_QUEUE_BOUND
  BY <1>1, <1>2, <1>5, QueueAssumption
<1>7. Len(queue) # 0 => queue[Len(queue)].upto = read
  BY <1>1 DEF Flow, QueueToEnd
<1>8. Gapless(queue')
  <2>1. ASSUME NEW i \in 1..Len(queue') - 1 PROVE queue'[i].upto = queue'[i + 1].from
    <3>1. CASE i = Len(queue)
      BY <3>1, <1>1, <1>5, <1>7
    <3>2. CASE i < Len(queue)
      BY <3>2, <1>1, <1>5 DEF Flow, Gapless
    <3>3. QED
      BY <3>1, <3>2, <1>1, <1>5
  <2>2. ASSUME NEW i \in 1..Len(queue'), NEW j \in 1..Len(queue'), i < j
        PROVE  queue'[i].upto <= queue'[j].from
    <3>1. i \in 1..Len(queue) /\ queue'[i] = queue[i]
      BY <1>1, <1>5, <2>2
    <3>2. CASE j <= Len(queue)
      BY <3>1, <3>2, <2>2, <1>1, <1>5 DEF Flow, Gapless
    <3>3. CASE j = Len(queue) + 1
      <4>1. queue'[j].from = read /\ queue[Len(queue)].upto = read
        BY <3>3, <3>1, <1>1, <1>5, <1>7
      <4>2. CASE i = Len(queue)
        BY <4>1, <4>2, <3>1, <1>1
      <4>3. CASE i < Len(queue)
        <5>1. queue[i].upto <= queue[Len(queue)].from
          BY <4>3, <3>1, <1>1 DEF Flow, Gapless
        <5>2. /\ queue[Len(queue)].from < queue[Len(queue)].upto
              /\ queue[Len(queue)].from \in Int /\ queue[Len(queue)].upto \in Int
              /\ queue[i].upto \in Int
          BY <3>1, <1>1, FirstFacts DEF Flow
        <5>3. QED
          BY <4>1, <5>1, <5>2, <3>1, <1>1
      <4>4. QED
        BY <4>2, <4>3, <3>1, <1>1
    <3>4. QED
      BY <3>2, <3>3, <1>1, <1>5
  <2>3. QED
    BY <2>1, <2>2 DEF Gapless
<1>9. QED
  BY <1>1, <1>5, <1>6, <1>8

\* A chunk the terminal delivers is sent within the credit or held after all others.
LEMMA ReadStep ==
  ASSUME TypeOK, Flow, NEW n \in 1..MaxChunk, Read(n)
  PROVE  TypeOK' /\ Flow'
<1>1. /\ n \in Nat /\ n > 0 /\ read \in Nat /\ MaxRead \in Nat /\ credit \in Nat
      /\ emitted \in Nat /\ acked \in Nat /\ data \in Nat /\ acks \in Nat
      /\ queue \in Seq(Chunks) /\ INITIAL_CREDIT \in Nat
  BY BoundsAssumption, CreditAssumption DEF TypeOK
<1>2. /\ pty = "running" /\ read + n <= MaxRead /\ (paused => Len(queue) <= MaxLate)
      /\ read' = read + n
      /\ UNCHANGED <<clientVars, session, pty, acked, kept, acks, exiting, asking, bounds>>
  BY DEF Read
<1>3. CASE paused \/ credit < n
  <2> DEFINE chunk == [from |-> read, upto |-> read + n]
  <2>1. Hold(chunk)
    BY <1>3 DEF Read
  <2>2. /\ queue' \in Seq(Chunks) /\ Len(queue') = Len(queue) + 1
        /\ Len(queue') <= PENDING_QUEUE_BOUND /\ Len(queue) \in Nat
        /\ \A i \in 1..Len(queue) : queue'[i] = queue[i]
        /\ queue'[Len(queue) + 1] = chunk
        /\ Gapless(queue')
    BY <1>3, HoldFacts
  <2>3. paused' = TRUE /\ UNCHANGED <<credit, emitted, data>>
    BY <2>1 DEF Hold
  <2>4. TypeOK'
    BY <1>1, <1>2, <2>2, <2>3 DEF TypeOK, clientVars, bounds
  <2>5. CreditConserved' /\ AcksCovered'
    BY <1>2, <2>3 DEF Flow, CreditConserved, AcksCovered
  <2>6. QueueToEnd'
    BY <1>2, <2>2 DEF QueueToEnd
  <2>7. read = emitted + First(Len(queue)) /\ First(Len(queue)) \in Nat
    BY <1>2, <2>2, FirstFacts DEF Flow, StreamIntact
  <2>8. CASE Len(queue) = 0
    <3>1. queue'[1] = chunk /\ Len(queue') = 1 /\ queue' # <<>> /\ queue = <<>>
      BY <2>8, <2>2, <1>1
    <3>2. First(1)' = n
      BY <3>1, <1>1 DEF First
    <3>3. read = emitted
      BY <2>7, <2>8, <1>1 DEF First
    <3>4. StreamIntact'
      BY <3>1, <3>2, <3>3, <1>2, <2>3, <1>1 DEF StreamIntact
    <3>5. credit < n
      BY <1>3, <3>1, <1>1 DEF Flow, PausedForCredit
    <3>6. PausedForCredit'
      BY <3>1, <3>2, <3>5, <2>3 DEF PausedForCredit
    <3>7. QED
      BY <2>2, <2>4, <2>5, <2>6, <3>4, <3>6 DEF Flow
  <2>9. CASE Len(queue) # 0
    <3>1. /\ queue # <<>> /\ queue' # <<>> /\ queue'[1] = queue[1]
          /\ Len(queue) \in 1..Len(queue) /\ Len(queue) + 1 # 0
      BY <2>9, <2>2, <1>1
    <3>2. /\ First(Len(queue)) = queue[Len(queue)].upto - queue[1].from
          /\ queue[Len(queue)].upto = read /\ queue[1].from \in Int
      BY <3>1, <2>2, FirstFacts DEF First, Flow, QueueToEnd
    <3>3. First(Len(queue))' = (read + n) - queue[1].from
      BY <3>1, <2>2, <2>9 DEF First
    <3>4. StreamIntact'
      <4>1. read' = read + n /\ emitted' = emitted
        BY <1>2, <2>3
      <4>2. read \in Nat /\ emitted \in Nat /\ n \in Nat
        BY <1>1
      <4>3. First(Len(queue))' = First(Len(queue)) + n
        BY <3>2, <3>3, <4>2
      <4>4. read + n = emitted + (First(Len(queue)) + n)
        BY <2>7, <4>2
      <4>5. QED
        BY <4>1, <4>3, <4>4 DEF StreamIntact
    <3>5. PausedForCredit'
      BY <3>1, <2>3, <2>9 DEF Flow, PausedForCredit, First
    <3>6. QED
      BY <2>2, <2>4, <2>5, <2>6, <3>4, <3>5 DEF Flow
  <2>10. QED
    BY <2>8, <2>9
<1>4. CASE ~(paused \/ credit < n)
  <2>1. Emit(n) /\ ~paused /\ n <= credit
    BY <1>4, <1>1 DEF Read
  <2>2. /\ credit' = credit - n /\ emitted' = emitted + n /\ UNCHANGED <<paused, queue>>
        /\ (data' = data \/ data' = data + n)
    BY <2>1 DEF Emit, SendData
  <2>3. queue = <<>>
    BY <2>1 DEF Flow, PausedForCredit
  <2>4. TypeOK'
    BY <1>1, <1>2, <2>1, <2>2 DEF TypeOK, clientVars, bounds
  <2>5. CreditConserved' /\ AcksCovered'
    <3>1. /\ credit + emitted = INITIAL_CREDIT + acked /\ acked + acks + data <= emitted
          /\ acked' = acked /\ acks' = acks
      BY <1>2 DEF Flow, CreditConserved, AcksCovered
    <3>2. credit' + emitted' = INITIAL_CREDIT + acked'
      BY <1>1, <2>2, <3>1
    <3>3. acked' + acks' + data' <= emitted'
      BY <1>1, <2>2, <3>1
    <3>4. QED
      BY <3>2, <3>3 DEF CreditConserved, AcksCovered
  <2>6. /\ Gapless(queue') /\ QueueToEnd' /\ PausedForCredit'
    BY <2>1, <2>2, <2>3 DEF Flow, QueueToEnd, PausedForCredit
  <2>7. StreamIntact'
    BY <1>1, <1>2, <2>2, <2>3 DEF Flow, StreamIntact, First
  <2>8. QED
    BY <2>4, <2>5, <2>6, <2>7 DEF Flow
<1>5. QED
  BY <1>3, <1>4

\* An acknowledgement within the bounds of the protocol: credit comes back, queued
\* chunks leave in order, and the terminal resumes when credit is left over.
LEMMA AckStep ==
  ASSUME TypeOK, Flow, NEW n \in 1..MaxRead, HandleAck(n)
  PROVE  TypeOK' /\ Flow'
<1>1. /\ n \in Nat /\ n > 0 /\ read \in Nat /\ MaxRead \in Nat /\ credit \in Nat
      /\ emitted \in Nat /\ acked \in Nat /\ data \in Nat /\ acks \in Nat
      /\ queue \in Seq(Chunks) /\ INITIAL_CREDIT \in Nat /\ Len(queue) \in Nat
      /\ Len(queue) <= PENDING_QUEUE_BOUND /\ PENDING_QUEUE_BOUND \in Nat
      /\ paused \in BOOLEAN
  BY BoundsAssumption, CreditAssumption, QueueAssumption DEF TypeOK
<1>2. /\ n <= acks
      /\ UNCHANGED <<timer, failures, boot, tracked, session, pty, read, kept, bounds>>
  BY DEF HandleAck
<1>3. acked + n <= emitted
  BY <1>1, <1>2 DEF Flow, AcksCovered
<1>4. /\ acks' = acks - n /\ UNCHANGED <<link, exiting, asking>>
      /\ IF pty = "running" THEN acked' = acked + n /\ Refill(credit + n)
                            ELSE UNCHANGED <<credit, emitted, acked, paused, queue, data>>
  BY <1>1, <1>3 DEF HandleAck
<1>5. CASE pty # "running"
  <2>1. UNCHANGED <<credit, emitted, acked, paused, queue, data>>
    BY <1>4, <1>5
  <2>2. TypeOK'
    BY <1>1, <1>2, <1>4, <2>1 DEF TypeOK, bounds
  <2>3. Flow'
    BY <1>1, <1>2, <1>4, <2>1, FlowFrame DEF flowVars
  <2>4. QED
    BY <2>2, <2>3
<1>6. CASE pty = "running" /\ ~paused
  <2>1. /\ acked' = acked + n /\ credit' = credit + n
        /\ UNCHANGED <<emitted, paused, queue, data>>
    BY <1>4, <1>6 DEF Refill
  <2>2. TypeOK'
    BY <1>1, <1>2, <1>4, <2>1 DEF TypeOK, bounds
  <2>3. CreditConserved' /\ AcksCovered'
    BY <1>1, <1>4, <2>1 DEF Flow, CreditConserved, AcksCovered
  <2>4. PausedForCredit' /\ StreamIntact' /\ Gapless(queue)' /\ QueueToEnd'
    BY <1>2, <1>6, <2>1 DEF Flow, PausedForCredit, StreamIntact, QueueToEnd, First
  <2>5. QED
    BY <2>2, <2>3, <2>4 DEF Flow
<1>7. CASE pty = "running" /\ paused
  <2> DEFINE c == credit + n
  <2>1. PICK k \in 0..Len(queue) : /\ Covers(k, c) /\ Drain(k, c)
                                   /\ paused' = (k < Len(queue) \/ c = First(k))
    BY <1>4, <1>7 DEF Refill
  <2>2. /\ acked' = acked + n /\ credit' = c - First(k) /\ emitted' = emitted + First(k)
        /\ queue' = SubSeq(queue, k + 1, Len(queue))
        /\ (data' = data \/ data' = data + First(k))
        /\ First(k) <= c /\ (k < Len(queue) => c < First(k + 1))
    BY <1>4, <1>7, <2>1 DEF Drain, Covers, SendData
  <2>3. First(k) \in Nat /\ c \in Nat /\ (k < Len(queue) => First(k + 1) \in Nat)
    BY <1>1, FirstFacts DEF Flow
  <2>4. /\ queue' \in Seq(Chunks) /\ Len(queue') = Len(queue) - k
        /\ \A i \in 1..Len(queue) - k : queue'[i] = queue[k + i]
        /\ Gapless(queue')
        /\ \A i \in 0..Len(queue) - k : First(i)' = First(k + i) - First(k)
    BY <2>2, DrainFacts DEF Flow
  <2> HIDE DEF c
  <2>5. paused' \in BOOLEAN
    BY <2>1
  <2>6. TypeOK'
    <3>1. credit' \in Nat /\ emitted' \in Nat /\ acked' \in Nat /\ data' \in Nat /\ acks' \in Nat
      <4>1. credit' \in Nat
        BY <2>2, <2>3
      <4>2. emitted' \in Nat /\ acked' \in Nat /\ data' \in Nat
        <5>1. {emitted, acked, data, n, First(k)} \subseteq Nat
          BY <1>1, <2>3
        <5>2. QED
          BY <2>2, <5>1
      <4>3. acks' \in Nat
        BY <1>1, <1>2, <1>4
      <4>4. QED
        BY <4>1, <4>2, <4>3
    <3>2. queue' \in Seq(Chunks) /\ Len(queue') <= PENDING_QUEUE_BOUND
      BY <1>1, <2>4
    <3>3. QED
      BY <1>2, <1>4, <2>5, <3>1, <3>2 DEF TypeOK, bounds
  <2>7. CreditConserved' /\ AcksCovered'
    <3>1. credit + emitted = INITIAL_CREDIT + acked /\ acked + acks + data <= emitted
      BY DEF Flow, CreditConserved, AcksCovered
    <3>2. credit' + emitted' = INITIAL_CREDIT + acked'
      <4>1. /\ credit \in Int /\ emitted \in Int /\ acked \in Int /\ n \in Int
            /\ INITIAL_CREDIT \in Int
        BY <1>1
      <4>2. PICK f \in Int : /\ credit' = (credit + n) - f /\ emitted' = emitted + f
                             /\ acked' = acked + n
        BY <2>2, <2>3 DEF c
      <4>3. credit' + emitted' = (credit + emitted) + n
        BY <4>1, <4>2
      <4>4. QED
        BY <3>1, <4>1, <4>2, <4>3
    <3>3. acked' + acks' + data' <= emitted'
      <4>1. emitted \in Int /\ acked \in Int /\ data \in Int /\ acks \in Int /\ n \in Int
        BY <1>1
      <4>2. PICK f \in Nat : /\ acked' = acked + n /\ acks' = acks - n /\ emitted' = emitted + f
                             /\ data' = data \/ data' = data + f
        BY <1>4, <2>2, <2>3
      <4>3. acked' + acks' = acked + acks
        BY <4>1, <4>2
      <4>4. QED
        BY <3>1, <4>1, <4>2, <4>3
    <3>4. QED
      BY <3>2, <3>3 DEF CreditConserved, AcksCovered
  <2>8. StreamIntact'
    <3>1. read = emitted + First(Len(queue)) /\ First(Len(queue)) \in Nat
      BY <1>1, <1>7, FirstFacts DEF Flow, StreamIntact
    <3>2. PICK m \in 0..Len(queue) - k : m = Len(queue) - k
      BY <1>1
    <3>3. First(m)' = First(k + m) - First(k) /\ k + m = Len(queue) /\ m = Len(queue')
      BY <1>1, <2>4, <3>2
    <3>4. First(Len(queue))' = First(Len(queue)) - First(k)
      BY <3>3 DEF First
    <3>5. read' = read
      BY <1>2
    <3>6. emitted' = emitted + First(k) /\ emitted \in Int /\ First(k) \in Int
      BY <1>1, <2>2, <2>3
    <3>7. emitted' + (First(Len(queue)) - First(k)) = emitted + First(Len(queue))
      BY <3>1, <3>6
    <3>8. QED
      BY <3>1, <3>4, <3>5, <3>7 DEF StreamIntact
  <2>9. QueueToEnd'
    <3> SUFFICES ASSUME queue' # <<>>
                 PROVE  pty' = "running" /\ queue'[Len(queue')].upto = read'
      BY DEF QueueToEnd
    <3>1. Len(queue) - k > 0
      BY <1>1, <2>4
    <3>2. queue'[Len(queue) - k] = queue[k + (Len(queue) - k)]
      BY <1>1, <2>4, <3>1
    <3>3. k + (Len(queue) - k) = Len(queue) /\ queue # <<>>
      BY <1>1, <3>1
    <3>4. QED
      BY <1>2, <2>4, <3>2, <3>3 DEF Flow, QueueToEnd
  <2>10. PausedForCredit'
    <3>1. CASE k = Len(queue)
      <4>1. Len(queue') = 0 /\ queue' = <<>>
        BY <1>1, <2>4, <3>1
      <4>2. paused' = (c = First(k))
        BY <1>1, <2>1, <3>1
      <4>3. paused' => credit' = 0
        <5>1. CASE c = First(k)
          BY <5>1, <2>2, <2>3
        <5>2. CASE c # First(k)
          BY <5>2, <4>2
        <5>3. QED
          BY <5>1, <5>2
      <4>4. QED
        BY <4>1, <4>3 DEF PausedForCredit
    <3>2. CASE k < Len(queue)
      <4>1. paused' = TRUE
        BY <2>1, <3>2
      <4>2. Len(queue') # 0 /\ queue' # <<>>
        BY <1>1, <2>4, <3>2
      <4>3. First(1)' = First(k + 1) - First(k)
        BY <1>1, <2>4, <3>2
      <4>4. First(1)' > credit'
        BY <2>2, <2>3, <3>2, <4>3
      <4>5. QED
        BY <4>1, <4>2, <4>4 DEF PausedForCredit
    <3>3. QED
      BY <1>1, <3>1, <3>2
  <2>11. QED
    BY <2>4, <2>6, <2>7, <2>8, <2>9, <2>10 DEF Flow
<1>8. QED
  BY <1>5, <1>6, <1>7

----------------------------------------------------------------------------
(* The invariant *)

\* The initial state: a link that is up, nothing printed, all the credit.
LEMMA LinkInit == Init => LinkInv
<1> SUFFICES ASSUME Init PROVE LinkInv
  OBVIOUS
<1> USE CreditAssumption, QueueAssumption, BoundsAssumption
<1>1. TypeOK
  <2>1. queue \in Seq(Chunks) /\ Len(queue) = 0
    BY DEF Init
  <2>2. /\ failures \in 0..MAX_HEALTH_FAILURES /\ read \in 0..MaxRead
        /\ credit \in Nat /\ emitted \in Nat /\ acked \in Nat /\ data \in Nat /\ acks \in Nat
        /\ losses \in 0..MaxLosses /\ restarts \in 0..MaxRestarts
        /\ Len(queue) <= PENDING_QUEUE_BOUND
    BY <2>1 DEF Init
  <2>3. QED
    BY <2>1, <2>2 DEF Init, TypeOK
<1>2. Flow
  BY DEF Init, Flow, CreditConserved, AcksCovered, StreamIntact, PausedForCredit, Gapless,
         QueueToEnd, First
<1>3. QED
  BY <1>1, <1>2 DEF Init, LinkInv

\* Every step keeps the invariant: the steps of the flow control by the lemmas above,
\* the life of the connection and of the server because they only take bytes off the
\* wire.
LEMMA LinkNext == LinkInv /\ [Next]_vars => LinkInv'
<1> SUFFICES ASSUME LinkInv, [Next]_vars PROVE LinkInv'
  OBVIOUS
<1> USE DEF LinkInv
<1> DEFINE UpOK == link = "up" => failures < MAX_HEALTH_FAILURES
<1>0. /\ data \in Nat /\ acks \in Nat /\ MAX_HEALTH_FAILURES \in Nat /\ MAX_HEALTH_FAILURES > 0
      /\ failures \in 0..MAX_HEALTH_FAILURES /\ losses \in 0..MaxLosses
      /\ restarts \in 0..MaxRestarts /\ MaxLosses \in Nat /\ MaxRestarts \in Nat
  BY BoundsAssumption DEF TypeOK
<1>1. ASSUME NEW n \in 1..MaxChunk, Read(n) PROVE LinkInv'
  <2>1. UpOK'
    BY <1>1 DEF Read, clientVars
  <2>2. QED
    BY <1>1, <2>1, ReadStep
<1>2. ASSUME NEW n \in 1..MaxRead, HandleAck(n) PROVE LinkInv'
  <2>1. n <= acks /\ n \in Nat
    BY <1>2, BoundsAssumption DEF HandleAck
  <2>2. acked + n <= emitted
    BY <1>0, <2>1 DEF TypeOK, Flow, AcksCovered
  <2>3. UpOK'
    BY <1>2, <2>2, <1>0, <2>1 DEF HandleAck, TypeOK
  <2>4. QED
    BY <1>2, <2>3, AckStep
<1>3. ASSUME NEW n \in 1..MaxRead, Receive(n) PROVE LinkInv'
  <2>1. /\ n <= data /\ n \in Nat /\ data' = data - n /\ acks' = acks + n
        /\ UNCHANGED <<clientVars, session, pty, creditVars, kept, exiting, asking, bounds>>
    BY <1>3, BoundsAssumption DEF Receive
  <2>2. data' \in Nat /\ acks' \in Nat /\ acks' + data' <= acks + data
    BY <1>0, <2>1
  <2>3. TypeOK' /\ UpOK'
    BY <2>1, <2>2 DEF TypeOK, clientVars, creditVars, bounds
  <2>4. Flow'
    BY <2>1, <2>2, FlowFrame DEF flowVars, creditVars
  <2>5. QED
    BY <2>3, <2>4
<1>4. CASE Exit
  <2>1. /\ pty' = "exited" /\ queue' = <<>> /\ paused' = FALSE
        /\ exiting' \in BOOLEAN /\ kept' \in BOOLEAN
        /\ UNCHANGED <<clientVars, session, read, credit, emitted, acked, data, acks,
                       asking, bounds>>
    BY <1>4 DEF Exit, Reachable
  <2>2. TypeOK' /\ UpOK'
    <3>1. queue' \in Seq(Chunks) /\ Len(queue') <= PENDING_QUEUE_BOUND
      BY <2>1, QueueAssumption
    <3>2. QED
      BY <2>1, <3>1 DEF TypeOK, clientVars, bounds
  <2>3. Flow'
    BY <2>1 DEF Flow, CreditConserved, AcksCovered, StreamIntact, PausedForCredit, Gapless,
                QueueToEnd
  <2>4. QED
    BY <2>2, <2>3
<1> DEFINE Off == /\ UNCHANGED <<pty, creditVars>>
                  /\ data' \in Nat /\ acks' \in Nat /\ acks' + data' <= acks + data
<1>5. Off => Flow'
  BY FlowFrame DEF flowVars, creditVars
<1>6. ASSUME UNCHANGED <<pty, creditVars, wire>> \/ UNCHANGED <<pty, creditVars, data, acks>>
             \/ (UNCHANGED <<pty, creditVars>> /\ DropWire)
      PROVE  Off
  BY <1>0, <1>6 DEF wire, DropWire
<1> HIDE DEF Off
<1> USE DEF TypeOK, clientVars, creditVars, wire, bounds, DropWire, Open
<1>7. CASE ReceiveExit
  <2>1. Flow'
    BY <1>5, <1>6, <1>7 DEF ReceiveExit
  <2>2. QED
    BY <2>1, <1>7 DEF ReceiveExit
<1>8. CASE TimerFires
  <2>1. Flow'
    BY <1>5, <1>6, <1>8 DEF TimerFires
  <2>2. QED
    BY <2>1, <1>8 DEF TimerFires, Tracked
<1>9. CASE WaitForDaemonReady
  <2>1. Flow'
    BY <1>5, <1>6, <1>9 DEF WaitForDaemonReady
  <2>2. QED
    BY <2>1, <1>9 DEF WaitForDaemonReady
<1>10. CASE HandshakeOk
  <2>1. Flow'
    BY <1>5, <1>6, <1>10 DEF HandshakeOk
  <2>2. QED
    BY <2>1, <1>0, <1>10 DEF HandshakeOk, Tracked
<1>11. CASE HandshakeFails
  <2>1. Flow'
    BY <1>5, <1>6, <1>11 DEF HandshakeFails
  <2>2. QED
    BY <2>1, <1>0, <1>11 DEF HandshakeFails
<1>12. CASE SubscribeAll
  <2>1. Flow'
    BY <1>5, <1>6, <1>12 DEF SubscribeAll
  <2>2. QED
    BY <2>1, <1>12 DEF SubscribeAll
<1>13. CASE LinkLost
  <2>1. Flow'
    BY <1>5, <1>6, <1>13 DEF LinkLost
  <2>2. losses' \in 0..MaxLosses
    BY <1>0, <1>13 DEF LinkLost
  <2>3. /\ timer' \in BOOLEAN /\ link' \in {"idle", "closing"}
        /\ boot' \in {"connecting", "listing", "reattaching", "done"}
    BY <1>13 DEF LinkLost
  <2>4. /\ data' \in Nat /\ acks' \in Nat /\ exiting' \in BOOLEAN /\ asking' \in BOOLEAN
    BY <1>13 DEF LinkLost
  <2>5. QED
    BY <2>1, <2>2, <2>3, <2>4, <1>13 DEF LinkLost
<1>14. CASE PingAnswered
  <2>1. Flow'
    BY <1>5, <1>6, <1>14 DEF PingAnswered
  <2>2. QED
    BY <2>1, <1>0, <1>14 DEF PingAnswered
<1>15. CASE PingFails
  <2>1. Flow'
    BY <1>5, <1>6, <1>15 DEF PingFails
  <2>2. CASE failures + 1 < MAX_HEALTH_FAILURES
    <3>1. failures' = failures + 1 /\ UNCHANGED <<link, wire, losses>>
      BY <2>2, <1>15 DEF PingFails
    <3>2. failures' \in 0..MAX_HEALTH_FAILURES /\ UpOK'
      BY <3>1, <2>2, <1>0
    <3>3. QED
      BY <2>1, <3>1, <3>2, <1>15 DEF PingFails
  <2>3. CASE ~(failures + 1 < MAX_HEALTH_FAILURES)
    <3>1. /\ failures' = failures + 1 /\ link' = "closing" /\ losses' = losses + 1
          /\ losses < MaxLosses /\ DropWire /\ failures < MAX_HEALTH_FAILURES
      BY <2>3, <1>15 DEF PingFails
    <3>2. failures' \in 0..MAX_HEALTH_FAILURES /\ losses' \in 0..MaxLosses
      BY <3>1, <1>0
    <3>3. /\ data' \in Nat /\ acks' \in Nat /\ exiting' \in BOOLEAN /\ asking' \in BOOLEAN
      BY <3>1
    <3>4. QED
      BY <2>1, <3>1, <3>2, <3>3, <1>15 DEF PingFails
  <2>4. QED
    BY <2>2, <2>3
<1>16. CASE Closed
  <2>1. Flow'
    BY <1>5, <1>6, <1>16 DEF Closed
  <2>2. QED
    BY <2>1, <1>16 DEF Closed
<1>17. CASE SessionEnds
  <2>1. Flow'
    BY <1>5, <1>6, <1>17 DEF SessionEnds
  <2>2. QED
    BY <2>1, <1>17 DEF SessionEnds
<1>18. CASE ServerRestart
  <2>1. Flow'
    BY <1>5, <1>6, <1>18 DEF ServerRestart
  <2>2. restarts' \in 0..MaxRestarts /\ failures' \in 0..MAX_HEALTH_FAILURES
    BY <1>0, <1>18 DEF ServerRestart
  <2>3. /\ data' \in Nat /\ acks' \in Nat /\ exiting' \in BOOLEAN /\ asking' \in BOOLEAN
    BY <1>18 DEF ServerRestart
  <2>4. QED
    BY <2>1, <2>2, <2>3, <1>18 DEF ServerRestart
<1>19. CASE ListPtys
  <2>1. Flow'
    BY <1>5, <1>6, <1>19 DEF ListPtys
  <2>2. QED
    BY <2>1, <1>19 DEF ListPtys
<1>20. CASE Reattach
  <2>1. Flow'
    BY <1>5, <1>6, <1>20 DEF Reattach
  <2>2. QED
    BY <2>1, <1>20 DEF Reattach
<1>21. CASE UNCHANGED vars
  <2>1. Flow'
    BY <1>5, <1>6, <1>21 DEF vars
  <2>2. QED
    BY <2>1, <1>21 DEF vars
<1>22. QED
  BY <1>1, <1>2, <1>3, <1>4, <1>7, <1>8, <1>9, <1>10, <1>11, <1>12, <1>13, <1>14, <1>15,
     <1>16, <1>17, <1>18, <1>19, <1>20, <1>21 DEF Next

\* The invariant holds in every reachable state.
LEMMA LinkInvariant == Spec => []LinkInv
<1>1. Init => LinkInv
  BY LinkInit
<1>2. LinkInv /\ [Next]_vars => LinkInv'
  BY LinkNext
<1>3. QED
  BY <1>1, <1>2, PTL DEF Spec

----------------------------------------------------------------------------
(* The theorems *)

\* The state of the client, of the session and of the flow control has its type; the
\* credit is never negative, and neither queue nor failures pass their bound.
THEOREM TypeCorrect == Spec => []TypeOK
<1>1. LinkInv => TypeOK
  BY DEF LinkInv
<1>2. QED
  BY <1>1, LinkInvariant, PTL

\* The credit spent is exactly what was sent and not acknowledged.
THEOREM CreditIsConserved == Spec => []CreditConserved
<1>1. LinkInv => CreditConserved
  BY DEF LinkInv, Flow
<1>2. QED
  BY <1>1, LinkInvariant, PTL

\* However connections break, the acknowledgements the daemon can still receive do
\* not exceed what it sent, so it never closes a connection for an overflow.
THEOREM AcksAreCovered == Spec => []AcksCovered
<1>1. LinkInv => AcksCovered
  BY DEF LinkInv, Flow
<1>2. QED
  BY <1>1, LinkInvariant, PTL

\* While the agent runs, each byte it printed was sent or is queued, in order.
THEOREM StreamIsIntact == Spec => []StreamIntact
<1>1. LinkInv => StreamIntact
  BY DEF LinkInv, Flow
<1>2. QED
  BY <1>1, LinkInvariant, PTL

\* The terminal is paused exactly while the next chunk lacks credit.
THEOREM PausesAreForCredit == Spec => []PausedForCredit
<1>1. LinkInv => PausedForCredit
  BY DEF LinkInv, Flow
<1>2. QED
  BY <1>1, LinkInvariant, PTL
=============================================================================
