------------------------------ MODULE Keyboard ------------------------------
(***************************************************************************)
(* The keyboard driver, src/drivers/keyboard.c: irq1code puts scan codes   *)
(* into a ring, waitget_key takes them out. irq1code is called by the      *)
(* interrupt handler, so it comes between any two steps of waitget_key;    *)
(* there is no lock, each side writes one of head and tail.                *)
(*                                                                         *)
(* The character of a key is a function of its code, of shift and of caps  *)
(* lock; waitget_key reads the last two when it returns the key. Scroll    *)
(* and num lock are left out: nothing reads them.                          *)
(***************************************************************************)
EXTENDS Integers, Sequences

CONSTANTS
    Codes,      \* scan codes of keys
    LeftShift,  \* 0x2A
    RightShift, \* 0x36
    CapsKey,    \* 0x3A
    Slots       \* 128: the size of the ring

ASSUME KeyboardAssumption ==
    /\ Codes \subseteq Nat \ {0}
    /\ {LeftShift, RightShift, CapsKey} \subseteq Codes
    /\ Slots \in Nat \ {0, 1}

VARIABLES
    buffer, head, tail,     \* keyb_buffer
    key_state,              \* the keys that are down
    caps,                   \* bit 1 of special_states
    pc,                     \* where waitget_key is
    key,                    \* the key it will return
    got                     \* history: the code it returned last

ring == <<buffer, head, tail>>
vars == <<ring, key_state, caps, pc, key, got>>

NextSlot(slot) == (slot + 1) % Slots

NoKey == [scancode |-> 0, shift |-> 0, caps |-> 0]
Places == {"away", "test", "hlt", "halted", "read", "shift", "shift2",
           "caps", "advance"}

(* Both indices stay in the ring; the codes in it are codes of keys.       *)
TypeOK ==
    /\ buffer \in [0..(Slots - 1) -> Codes \cup {0}]
    /\ head \in 0..(Slots - 1) /\ tail \in 0..(Slots - 1)
    /\ key_state \subseteq Codes
    /\ caps \in 0..1
    /\ pc \in Places
    /\ key \in [scancode : Codes \cup {0}, shift : 0..1, caps : 0..1]
    /\ got \in Codes \cup {0}

Init ==
    /\ buffer = [s \in 0..(Slots - 1) |-> 0]
    /\ head = 0 /\ tail = 0
    /\ key_state = {} /\ caps = 0
    /\ pc = "away" /\ key = NoKey /\ got = 0

-----------------------------------------------------------------------------
(* An interrupt ends a hlt.                                                *)
Awake == pc' = IF pc = "halted" THEN "test" ELSE pc

(* Mutant of Enqueue: the ring is never full.                              *)
EnqueueAlways(code) ==
    /\ buffer' = [buffer EXCEPT ![head] = code]
    /\ head' = NextSlot(head)

(* A code for which there is no room is dropped. One slot stays free.      *)
Enqueue(code) ==
    IF NextSlot(head) = tail THEN UNCHANGED <<buffer, head>>
    ELSE /\ buffer' = [buffer EXCEPT ![head] = code]
         /\ head' = NextSlot(head)

(* irq1code, for a key that goes down (or repeats) ...                     *)
irq1code(code) ==
    /\ key_state' = key_state \cup {code}
    /\ caps' = IF code = CapsKey THEN 1 - caps ELSE caps
    /\ Enqueue(code)
    /\ Awake
    /\ UNCHANGED <<tail, key, got>>

(* ... and for one that comes up, whose code has bit 7.                    *)
irq1code_up(code) ==
    /\ code \in key_state
    /\ key_state' = key_state \ {code}
    /\ Awake
    /\ UNCHANGED <<ring, caps, key, got>>

(* The timer's interrupt.                                                  *)
Timer == pc = "halted" /\ Awake /\ UNCHANGED <<ring, key_state, caps, key, got>>

-----------------------------------------------------------------------------
Goto(from, to) == pc = from /\ pc' = to
Others == UNCHANGED <<ring, key_state, caps, got>>

waitget_key == Goto("away", "test") /\ UNCHANGED key /\ Others

(* Mutant of Empty: the indices are compared by order.                     *)
EmptyByOrder == head <= tail

(* The condition of the wait.                                              *)
Empty == head = tail

Test ==
    /\ \/ Empty /\ Goto("test", "hlt")
       \/ ~Empty /\ Goto("test", "read")
    /\ UNCHANGED key
    /\ Others

Hlt == Goto("hlt", "halted") /\ UNCHANGED key /\ Others

Read ==
    /\ Goto("read", "shift")
    /\ key' = [key EXCEPT !.scancode = buffer[tail]]
    /\ Others

Down(code) == IF code \in key_state THEN 1 ELSE 0

(* The two shift keys are looked at one after the other; the right one     *)
(* only when the left one is up.                                           *)
Shift ==
    /\ \/ LeftShift \in key_state /\ Goto("shift", "caps")
       \/ LeftShift \notin key_state /\ Goto("shift", "shift2")
    /\ key' = [key EXCEPT !.shift = Down(LeftShift)]
    /\ Others

Shift2 ==
    /\ Goto("shift2", "caps")
    /\ key' = [key EXCEPT !.shift = Down(RightShift)]
    /\ Others

Caps ==
    /\ Goto("caps", "advance")
    /\ key' = [key EXCEPT !.caps = caps]
    /\ Others

Advance ==
    /\ Goto("advance", "away")
    /\ tail' = NextSlot(tail)
    /\ got' = key.scancode
    /\ key' = NoKey
    /\ UNCHANGED <<buffer, head, key_state, caps>>

Step == Test \/ Hlt \/ Read \/ Shift \/ Shift2 \/ Caps \/ Advance

Next ==
    \/ \E code \in Codes : irq1code(code) \/ irq1code_up(code)
    \/ Timer \/ waitget_key \/ Step

(* The CPU runs, and the timer interrupts; the user need not press a key.  *)
Spec == Init /\ [][Next]_vars
FairSpec == Spec /\ WF_vars(Step) /\ WF_vars(Timer)

-----------------------------------------------------------------------------
Waiting == (head - tail) % Slots
Queue == [n \in 1..Waiting |-> buffer[(tail + n - 1) % Slots]]

(* The slot waitget_key reads from is not written until it is done with    *)
(* it, although irq1code may come at any point and knows nothing of it.    *)
SlotKept ==
    /\ pc \in {"read", "shift", "shift2", "caps", "advance"} => head # tail
    /\ pc \in {"shift", "shift2", "caps", "advance"} => key.scancode = buffer[tail]

(* The ring is the bounded queue of KeyFifo.                               *)
Fifo == INSTANCE KeyFifo WITH Capacity <- Slots - 1, queue <- Queue
Implements == Fifo!FifoSpec

(* A call with a code in the ring returns it: even if the key came between *)
(* the test and the hlt and no other key follows.                          *)
KeyReturned == (pc \in {"test", "hlt", "halted"} /\ head # tail) ~> (pc = "away")
=============================================================================
