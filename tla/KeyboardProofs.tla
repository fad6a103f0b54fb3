--------------------------- MODULE KeyboardProofs ---------------------------
(***************************************************************************)
(* Proofs about Keyboard, for every set of codes and every size of ring.   *)
(***************************************************************************)
EXTENDS Keyboard, TLAPS

LEMMA NextSlotInRing ==
  ASSUME NEW s \in 0..(Slots - 1)
  PROVE  NextSlot(s) \in 0..(Slots - 1)
  BY KeyboardAssumption DEF NextSlot

(* What irq1code does to the ring: nothing, or one write to a slot that is *)
(* not the next one to be read.                                            *)
LEMMA EnqueueKeeps ==
  ASSUME TypeOK, NEW code \in Codes, Enqueue(code)
  PROVE  /\ buffer' \in [0..(Slots - 1) -> Codes \cup {0}]
         /\ head' \in 0..(Slots - 1)
         /\ head # tail => head' # tail /\ buffer'[tail] = buffer[tail]
  <1>1. CASE NextSlot(head) = tail
    BY <1>1 DEF Enqueue, TypeOK
  <1>2. CASE NextSlot(head) # tail
    BY <1>2, NextSlotInRing DEF Enqueue, TypeOK
  <1>3. QED
    BY <1>1, <1>2

IInv == TypeOK /\ SlotKept

LEMMA InitInv == Init => IInv
  BY KeyboardAssumption DEF Init, IInv, TypeOK, SlotKept, NoKey, Places

LEMMA StepInv == IInv /\ [Next]_vars => IInv'
  <1> SUFFICES ASSUME IInv, [Next]_vars PROVE IInv'
    OBVIOUS
  <1> USE KeyboardAssumption DEF IInv, Places
  <1>1. ASSUME NEW code \in Codes, irq1code(code) PROVE IInv'
    <2>1. /\ buffer' \in [0..(Slots - 1) -> Codes \cup {0}]
          /\ head' \in 0..(Slots - 1)
          /\ head # tail => head' # tail /\ buffer'[tail] = buffer[tail]
      BY <1>1, EnqueueKeeps DEF irq1code
    <2>2. TypeOK'
      BY <1>1, <2>1 DEF irq1code, Awake, TypeOK
    <2>3. SlotKept'
      BY <1>1, <2>1 DEF irq1code, Awake, TypeOK, SlotKept
    <2>4. QED
      BY <2>2, <2>3
  <1>2. ASSUME NEW code \in Codes, irq1code_up(code) PROVE IInv'
    BY <1>2 DEF irq1code_up, Awake, ring, TypeOK, SlotKept
  <1>3. CASE Timer
    BY <1>3 DEF Timer, Awake, ring, TypeOK, SlotKept
  <1>4. CASE waitget_key
    BY <1>4 DEF waitget_key, Goto, Others, ring, TypeOK, SlotKept
  <1>5. CASE Test
    BY <1>5 DEF Test, Empty, Goto, Others, ring, TypeOK, SlotKept
  <1>6. CASE Hlt
    BY <1>6 DEF Hlt, Goto, Others, ring, TypeOK, SlotKept
  <1>7. CASE Read
    BY <1>7 DEF Read, Goto, Others, ring, TypeOK, SlotKept
  <1>8. CASE Shift \/ Shift2 \/ Caps
    BY <1>8 DEF Shift, Shift2, Caps, Down, Goto, Others, ring, TypeOK, SlotKept
  <1>9. CASE Advance
    <2>1. tail' \in 0..(Slots - 1)
      BY <1>9, NextSlotInRing DEF Advance, TypeOK
    <2>2. QED
      BY <1>9, <2>1 DEF Advance, Goto, NoKey, TypeOK, SlotKept
  <1>10. CASE UNCHANGED vars
    BY <1>10 DEF vars, ring, TypeOK, SlotKept
  <1>11. QED
    BY <1>1, <1>2, <1>3, <1>4, <1>5, <1>6, <1>7, <1>8, <1>9, <1>10 DEF Next, Step

(* irq1code, whenever it comes, leaves alone the slot that waitget_key is  *)
(* reading from.                                                           *)
THEOREM ReaderKeepsSlot == Spec => []SlotKept
  <1>1. IInv => SlotKept
    BY DEF IInv
  <1>2. QED
    BY InitInv, StepInv, <1>1, PTL DEF Spec

-----------------------------------------------------------------------------
(* The ring as a queue. The indices in plain arithmetic:                   *)
Ahead(h, t) == IF t <= h THEN h - t ELSE h - t + Slots
Place(t, n) == IF t + n - 1 < Slots THEN t + n - 1 ELSE t + n - 1 - Slots

LEMMA ModBelow ==
  ASSUME NEW S \in Nat \ {0}, NEW x \in Int, 0 <= x, x < S
  PROVE  x % S = x
  OBVIOUS

LEMMA ModAbove ==
  ASSUME NEW S \in Nat \ {0}, NEW x \in Int, S <= x, x < 2 * S
  PROVE  x % S = x - S
  OBVIOUS

LEMMA ModNegative ==
  ASSUME NEW S \in Nat \ {0}, NEW x \in Int, 0 - S <= x, x < 0
  PROVE  x % S = x + S
  OBVIOUS

LEMMA NextSlotIs ==
  ASSUME NEW s \in 0..(Slots - 1)
  PROVE  NextSlot(s) = IF s + 1 = Slots THEN 0 ELSE s + 1
  <1>1. Slots \in Nat \ {0} /\ Slots > 1 /\ s + 1 \in Int /\ 0 <= s + 1 /\ s + 1 <= Slots
    BY KeyboardAssumption
  <1>2. CASE s + 1 < Slots
    BY <1>1, <1>2, ModBelow DEF NextSlot
  <1>3. CASE s + 1 = Slots
    <2>1. (s + 1) % Slots = s + 1 - Slots
      BY <1>1, <1>3, ModAbove
    <2>2. QED
      BY <1>1, <1>3, <2>1 DEF NextSlot
  <1>4. QED
    BY <1>1, <1>2, <1>3

(* Of any ring b with indices h and t.                                     *)
Indices == 0..(Slots - 1)
QueueOf(b, h, t) == [n \in 1..Ahead(h, t) |-> b[Place(t, n)]]

LEMMA AheadIs ==
  ASSUME NEW h \in Indices, NEW t \in Indices
  PROVE  (h - t) % Slots = Ahead(h, t) /\ Ahead(h, t) \in Indices
  <1>1. /\ Slots \in Nat \ {0} /\ h - t \in Int
        /\ 0 - Slots <= h - t /\ h - t < Slots
        /\ h \in Int /\ t \in Int
    BY KeyboardAssumption DEF Indices
  <1>2. CASE t <= h
    <2>1. (h - t) % Slots = h - t
      BY <1>1, <1>2, ModBelow
    <2>2. QED
      BY <1>1, <1>2, <2>1 DEF Ahead, Indices
  <1>3. CASE h < t
    <2>1. (h - t) % Slots = h - t + Slots
      BY <1>1, <1>3, ModNegative
    <2>2. QED
      BY <1>1, <1>3, <2>1 DEF Ahead, Indices
  <1>4. QED
    BY <1>1, <1>2, <1>3

LEMMA PlaceIs ==
  ASSUME NEW h \in Indices, NEW t \in Indices, NEW n \in 1..Ahead(h, t)
  PROVE  (t + n - 1) % Slots = Place(t, n) /\ Place(t, n) \in Indices
  <1> DEFINE x == t + n - 1
  <1>1. Slots \in Nat \ {0} /\ x \in Int /\ 0 <= x /\ x < 2 * Slots
    BY AheadIs, KeyboardAssumption DEF Indices
  <1>2. Place(t, n) = IF x < Slots THEN x ELSE x - Slots
    BY <1>1, KeyboardAssumption DEF Place, Indices
  <1> HIDE DEF x
  <1>3. CASE x < Slots
    BY <1>1, <1>2, <1>3, ModBelow DEF Indices, x
  <1>4. CASE Slots <= x
    <2>1. x % Slots = x - Slots
      BY <1>1, <1>4, ModAbove
    <2>2. QED
      BY <1>1, <1>2, <1>4, <2>1 DEF Indices, x
  <1>5. QED
    BY <1>1, <1>3, <1>4

LEMMA QueueOfIs ==
  ASSUME NEW h \in Indices, NEW t \in Indices, NEW b \in [Indices -> Codes \cup {0}]
  PROVE  /\ [n \in 1..((h - t) % Slots) |-> b[(t + n - 1) % Slots]] = QueueOf(b, h, t)
         /\ QueueOf(b, h, t) \in Seq(Codes \cup {0})
         /\ Len(QueueOf(b, h, t)) = Ahead(h, t)
  <1>1. (h - t) % Slots = Ahead(h, t) /\ Ahead(h, t) \in Nat
    BY AheadIs, KeyboardAssumption DEF Indices
  <1>2. \A n \in 1..Ahead(h, t) :
            /\ (t + n - 1) % Slots = Place(t, n)
            /\ Place(t, n) \in Indices /\ b[Place(t, n)] \in Codes \cup {0}
    BY PlaceIs
  <1>3. QED
    BY <1>1, <1>2 DEF QueueOf

LEMMA QueueIs ==
  ASSUME TypeOK, TypeOK'
  PROVE  /\ Queue = QueueOf(buffer, head, tail)
         /\ Queue' = QueueOf(buffer', head', tail')
         /\ Queue \in Seq(Codes \cup {0}) /\ Len(Queue) = Ahead(head, tail)
  <1>1. /\ head \in Indices /\ tail \in Indices /\ buffer \in [Indices -> Codes \cup {0}]
        /\ head' \in Indices /\ tail' \in Indices /\ buffer' \in [Indices -> Codes \cup {0}]
    BY DEF TypeOK, Indices
  <1>2. /\ Queue = [n \in 1..((head - tail) % Slots) |-> buffer[(tail + n - 1) % Slots]]
        /\ Queue' = [n \in 1..((head' - tail') % Slots) |-> buffer'[(tail' + n - 1) % Slots]]
    BY DEF Queue, Waiting
  <1>3. /\ Queue = QueueOf(buffer, head, tail)
        /\ QueueOf(buffer, head, tail) \in Seq(Codes \cup {0})
        /\ Len(QueueOf(buffer, head, tail)) = Ahead(head, tail)
    BY <1>1, <1>2, QueueOfIs
  <1>4. Queue' = QueueOf(buffer', head', tail')
    BY <1>1, <1>2, QueueOfIs
  <1>5. QED
    BY <1>3, <1>4

(* A key that finds room is one more place ahead of tail.                  *)
LEMMA PressAppends ==
  ASSUME TypeOK, TypeOK', NEW code \in Codes, irq1code(code), NextSlot(head) # tail
  PROVE  Len(Queue) < Slots - 1 /\ Queue' = Append(Queue, code)
  <1> DEFINE w == Ahead(head, tail)
  <1>1. /\ tail' = tail /\ head' = NextSlot(head)
        /\ buffer' = [buffer EXCEPT ![head] = code]
    BY DEF irq1code, Enqueue
  <1>2. w \in 0..(Slots - 2) /\ Ahead(head', tail') = w + 1
    BY <1>1, NextSlotIs, KeyboardAssumption DEF TypeOK, Ahead
  <1>3. Place(tail, w + 1) = head /\ \A n \in 1..w : Place(tail, n) # head
    BY KeyboardAssumption DEF TypeOK, Ahead, Place
  <1>4. \A n \in 1..w : Place(tail, n) \in Indices
    BY PlaceIs DEF TypeOK, Indices
  <1>5. /\ buffer'[head] = code
        /\ \A n \in 1..w : buffer'[Place(tail, n)] = buffer[Place(tail, n)]
    BY <1>1, <1>3, <1>4 DEF TypeOK, Indices
  <1>6. Queue' = [n \in 1..(w + 1) |-> buffer'[Place(tail, n)]]
    BY <1>1, <1>2, QueueIs DEF QueueOf
  <1>7. Queue = [n \in 1..w |-> buffer[Place(tail, n)]] /\ Len(Queue) = w
        /\ Queue \in Seq(Codes \cup {0})
    BY QueueIs DEF QueueOf
  <1> HIDE DEF w
  <1>8. Append(Queue, code) = [n \in 1..(w + 1) |-> IF n = w + 1 THEN code ELSE Queue[n]]
    BY <1>2, <1>7
  <1>9. \A n \in 1..(w + 1) : buffer'[Place(tail, n)] = IF n = w + 1 THEN code ELSE Queue[n]
    BY <1>2, <1>3, <1>5, <1>7
  <1>10. Queue' = Append(Queue, code)
    <2> DEFINE P(n) == buffer'[Place(tail, n)]
               A(n) == IF n = w + 1 THEN code ELSE Queue[n]
               W == 1..(w + 1)
    <2>1. Queue' = [n \in W |-> P(n)] /\ Append(Queue, code) = [n \in W |-> A(n)]
      BY <1>6, <1>8
    <2>2. \A n \in W : P(n) = A(n)
      BY <1>9
    <2> HIDE DEF P, A, W
    <2>3. QED
      BY <2>1, <2>2
  <1>11. QED
    BY <1>2, <1>7, <1>10, KeyboardAssumption

(* The oldest code leaves when tail moves on.                              *)
LEMMA AdvanceTakes ==
  ASSUME IInv, TypeOK', Advance
  PROVE  Queue # <<>> /\ got' = Head(Queue) /\ Queue' = Tail(Queue)
  <1> USE DEF IInv
  <1> DEFINE w == Ahead(head, tail)
  <1>1. /\ tail' = NextSlot(tail) /\ head' = head /\ buffer' = buffer
        /\ head # tail /\ got' = buffer[tail]
    BY DEF Advance, Goto, SlotKept
  <1>2. w \in 1..(Slots - 1) /\ Ahead(head', tail') = w - 1
    BY <1>1, NextSlotIs, KeyboardAssumption DEF TypeOK, Ahead
  <1>3. Place(tail, 1) = tail
    BY KeyboardAssumption DEF TypeOK, Place
  <1>4. \A n \in 1..(w - 1) : Place(tail', n) = Place(tail, n + 1)
    <2>1. tail \in 0..(Slots - 1) /\ Slots \in Nat
      BY KeyboardAssumption DEF TypeOK
    <2>2. tail' = IF tail + 1 = Slots THEN 0 ELSE tail + 1
      BY <1>1, <2>1, NextSlotIs
    <2>3. w \in 1..(Slots - 1)
      BY <1>2
    <2> HIDE DEF w
    <2>4. QED
      BY <2>1, <2>2, <2>3 DEF Place
  <1>5. Queue = [n \in 1..w |-> buffer[Place(tail, n)]] /\ Len(Queue) = w
        /\ Queue \in Seq(Codes \cup {0})
    BY QueueIs DEF QueueOf
  <1>6. Queue' = [n \in 1..(w - 1) |-> buffer[Place(tail', n)]]
    BY <1>1, <1>2, QueueIs DEF QueueOf
  <1> HIDE DEF w
  <1>7. Tail(Queue) = [n \in 1..(w - 1) |-> Queue[n + 1]]
    BY <1>2, <1>5
  <1>8. \A n \in 1..(w - 1) : Queue[n + 1] = buffer[Place(tail, n + 1)]
    BY <1>2, <1>5
  <1>9. Queue' = Tail(Queue)
    BY <1>4, <1>6, <1>7, <1>8
  <1>10. Queue # <<>> /\ Head(Queue) = buffer[tail]
    BY <1>2, <1>3, <1>5
  <1>11. QED
    BY <1>1, <1>9, <1>10

(* Every other step leaves the ring as it is.                              *)
LEMMA RingStep ==
  ASSUME [Next]_vars
  PROVE  \/ \E code \in Codes : irq1code(code)
         \/ Advance
         \/ UNCHANGED ring /\ got' = got
  BY DEF Next, Step, vars, irq1code_up, Timer, waitget_key, Test, Hlt, Read, Shift, Shift2,
         Caps, Others

LEMMA RingKept ==
  ASSUME UNCHANGED ring
  PROVE  Queue' = Queue
  BY DEF ring, Queue, Waiting

(* The driver, whatever keys are pressed and whenever, is a bounded queue  *)
(* that keeps their order.                                                 *)
THEOREM Refinement == Spec => Implements
  <1>1. Init => Fifo!FifoInit
    <2> SUFFICES ASSUME Init PROVE Queue = <<>> /\ got = 0
      BY DEF Fifo!FifoInit
    <2>1. head \in Indices /\ tail \in Indices /\ buffer \in [Indices -> Codes \cup {0}]
          /\ Ahead(head, tail) = 0 /\ got = 0
      BY KeyboardAssumption DEF Init, Ahead, Indices
    <2>2. Queue = QueueOf(buffer, head, tail)
      BY <2>1, QueueOfIs DEF Queue, Waiting
    <2>3. QED
      BY <2>1, <2>2 DEF QueueOf
  <1>2. IInv /\ IInv' /\ [Next]_vars => [Fifo!FifoNext]_<<Queue, got>>
    <2> SUFFICES ASSUME IInv, IInv', [Next]_vars
                 PROVE  Fifo!FifoNext \/ UNCHANGED <<Queue, got>>
      OBVIOUS
    <2>1. ASSUME NEW code \in Codes, irq1code(code)
          PROVE  Fifo!FifoNext \/ UNCHANGED <<Queue, got>>
      <3>1. CASE NextSlot(head) = tail
        BY <2>1, <3>1, RingKept DEF irq1code, Enqueue, ring
      <3>2. CASE NextSlot(head) # tail
        <4>1. Len(Queue) < Slots - 1 /\ Queue' = Append(Queue, code) /\ got' = got
          BY <2>1, <3>2, PressAppends DEF IInv, irq1code
        <4>2. QED
          BY <4>1 DEF Fifo!FifoNext, Fifo!Press
      <3>3. QED
        BY <3>1, <3>2
    <2>2. CASE Advance
      BY <2>2, AdvanceTakes DEF IInv, Fifo!FifoNext, Fifo!Take
    <2>3. CASE UNCHANGED ring /\ got' = got
      BY <2>3, RingKept
    <2>4. QED
      BY <2>1, <2>2, <2>3, RingStep
  <1>3. QED
    BY InitInv, StepInv, <1>1, <1>2, PTL DEF Spec, Implements, Fifo!FifoSpec, Fifo!fifoVars
=============================================================================
