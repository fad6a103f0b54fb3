-------------------------- MODULE BitmapScanProofs --------------------------
(***************************************************************************)
(* The searches of src/lib/bitmap.c keep the promise of BitPool, on a      *)
(* bitmap of any size and for any request.                                 *)
(***************************************************************************)
EXTENDS BitmapScan, TLAPS

(* Two first fits of one request are the same.                             *)
LEMMA FirstFitUnique ==
  ASSUME NEW S, NEW n \in Nat, NEW lim \in Nat,
         NEW a \in 0..lim, IsFirstFit(S, n, lim, a)
  PROVE  FirstFit(S, n, lim) = a
  <1> DEFINE f == FirstFit(S, n, lim)
  <1>1. f \in 0..lim /\ IsFirstFit(S, n, lim, f)
    BY DEF FirstFit
  <1> HIDE DEF f
  <1>2. ~(f < a) /\ ~(a < f)
    BY <1>1 DEF IsFirstFit
  <1>3. f = a
    BY <1>1, <1>2
  <1>4. QED
    BY <1>3 DEF f

IInv == TypeOK /\ ScanInv

LEMMA InitInv == Init => IInv
  <1> SUFFICES ASSUME Init PROVE IInv
    OBVIOUS
  <1>1. used \subseteq 0..(Bits - 1) /\ ret \in [first : 0..Limit \cup {Fail}, size : Nat]
    BY PoolAssumption DEF Init, PoolInit
  <1>2. TypeOK
    BY <1>1, PoolAssumption DEF Init, TypeOK
  <1>3. ScanInv
    BY DEF Init, ScanInv, BmpInv, WebmpInv
  <1>4. QED
    BY <1>2, <1>3 DEF IInv

(* One step of either function keeps what it has established about the     *)
(* bits before i.                                                          *)
LEMMA StepInv == IInv /\ [Next]_vars => IInv'
  <1> SUFFICES ASSUME IInv, [Next]_vars PROVE IInv'
    OBVIOUS
  <1> USE PoolAssumption DEF IInv, TypeOK, ScanInv
  <1>1. ASSUME NEW f \in {"bmp", "webmp"}, NEW n \in Sizes, Call(f, n) PROVE IInv'
    <2>1. /\ UNCHANGED <<used, ret>>
          /\ size' = n /\ i' = 0 /\ counter' = 0 /\ result' = 0
          /\ pc' \in {"bmp", "webmp"}
      BY <1>1 DEF Call, poolVars
    <2>2. TypeOK'
      BY <1>1, <2>1 DEF Call
    <2>3. 0..(0 - 1) = {} /\ 0..(0 - 0 - 1) = {} /\ (0 - 0)..(0 - 1) = {}
      OBVIOUS
    <2>4. ScanInv'
      BY <2>1, <2>3 DEF BmpInv, WebmpInv
    <2>5. QED
      BY <2>2, <2>4
  <1>2. CASE BmpStep
    <2>1. TypeOK'
      BY <1>2 DEF BmpStep, Looping, CountZero, poolVars
    <2>2. WebmpInv'
      BY <1>2 DEF BmpStep, WebmpInv
    <2>3. CASE CountZero
      <3>1. (i - counter)..(i - 1) \cap used = {} /\ i \notin used
        BY <1>2, <2>3 DEF BmpStep, CountZero, BmpInv
      <3>2. (i' - counter')..(i' - 1) \cap used' = {}
        BY <1>2, <2>3, <3>1 DEF BmpStep, CountZero, poolVars
      <3>3. i' - counter' = i - counter
        BY <2>3 DEF CountZero
      <3>4. QED
        BY <1>2, <2>1, <2>2, <2>3, <3>2, <3>3 DEF BmpStep, Looping, CountZero, BmpInv, poolVars
    <2>4. CASE i \in used /\ counter' = 0 /\ i' = i + 1 /\ UNCHANGED result
      <3>1. \A b \in 0..i : Run(b, size) \cap used # {}
        <4> SUFFICES ASSUME NEW b \in 0..i PROVE Run(b, size) \cap used # {}
          OBVIOUS
        <4>1. CASE b < i - counter
          BY <1>2, <4>1 DEF BmpStep, BmpInv
        <4>2. CASE b >= i - counter
          <5>1. i \in Run(b, size)
            BY <1>2, <4>2 DEF BmpStep, Looping, Run
          <5>2. QED
            BY <5>1, <2>4
        <4>3. QED
          BY <4>1, <4>2
      <3>2. BmpInv'
        BY <1>2, <2>4, <3>1 DEF BmpStep, Looping, BmpInv, poolVars
      <3>3. QED
        BY <2>1, <2>2, <3>2
    <2>5. QED
      BY <1>2, <2>3, <2>4 DEF BmpStep
  <1>3. CASE WebmpStep
    <2>1. TypeOK'
      <3>1. UNCHANGED <<used, ret, size>> /\ i < Limit /\ counter < size
        BY <1>3 DEF WebmpStep, Looping, poolVars
      <3>2. i' \in 0..Limit /\ counter' \in 0..size /\ result' \in 0..Limit /\ pc' \in {"webmp", "break"}
        BY <1>3, <3>1 DEF WebmpStep, CountZero
      <3>3. QED
        BY <3>1, <3>2
    <2>2. BmpInv'
      BY <1>3 DEF WebmpStep, BmpInv
    <2>3. WebmpInv'
      <3>1. CASE CountZero
        <4>1. (i - counter)..(i - 1) \cap used = {} /\ i \notin used
          BY <1>3, <3>1 DEF WebmpStep, CountZero, WebmpInv
        <4>2. (i' - counter')..(i' - 1) \cap used' = {}
          BY <1>3, <3>1, <4>1 DEF WebmpStep, CountZero, poolVars
        <4>3. QED
          BY <1>3, <3>1, <4>2 DEF WebmpStep, Looping, CountZero, WebmpInv, poolVars
      <3>2. CASE i \in used /\ counter = 0 /\ i' = i + 1 /\ UNCHANGED <<counter, result, pc>>
        BY <1>3, <3>2 DEF WebmpStep, Looping, WebmpInv, poolVars
      <3>3. CASE i \in used /\ counter > 0 /\ pc' = "break" /\ UNCHANGED <<i, counter, result>>
        BY <1>3, <3>3 DEF WebmpStep, Looping, WebmpInv, poolVars
      <3>4. QED
        BY <1>3, <3>1, <3>2, <3>3 DEF WebmpStep
    <2>4. QED
      BY <2>1, <2>2, <2>3
  <1>4. CASE BmpReturn
    <2>1. pc' = "idle" /\ UNCHANGED <<size, i, counter, result>>
      BY <1>4 DEF BmpReturn, Leave
    <2>2. used' = used \/ used' = used \cup result..(result + counter - 1)
      BY <1>4 DEF BmpReturn, mark_true, Run
    <2>3. counter > 0 => result + counter <= Limit
      BY <1>4 DEF BmpReturn, BmpInv
    <2>4. used' \subseteq 0..(Bits - 1)
      <3>1. result..(result + counter - 1) \subseteq 0..(Bits - 1)
        BY <2>3
      <3>2. QED
        BY <2>2, <3>1
    <2>5. ret' \in [first : 0..Limit \cup {Fail}, size : Nat]
      BY <1>4 DEF BmpReturn
    <2>6. QED
      BY <2>1, <2>4, <2>5 DEF BmpInv, WebmpInv
  <1>5. CASE WebmpReturn
    <2>1. pc' = "idle" /\ UNCHANGED <<size, i, counter, result>>
      BY <1>5 DEF WebmpReturn, Leave
    <2>2. used' = used \cup result..(result + counter - 1)
      BY <1>5 DEF WebmpReturn, mark_true, Run
    <2>3. counter > 0 => result + counter <= Limit
      BY <1>5 DEF WebmpReturn, WebmpInv
    <2>4. used' \subseteq 0..(Bits - 1)
      BY <2>2, <2>3
    <2>5. ret' \in [first : 0..Limit \cup {Fail}, size : Nat]
      BY <1>5 DEF WebmpReturn
    <2>6. QED
      BY <2>1, <2>4, <2>5 DEF BmpInv, WebmpInv
  <1>6. CASE UNCHANGED vars
    BY <1>6 DEF vars, poolVars, scan, BmpInv, WebmpInv
  <1>7. QED
    BY <1>1, <1>2, <1>3, <1>4, <1>5, <1>6 DEF Next

(* What the searches know of the bits they passed, in every state.         *)
THEOREM ScanInvariant == Spec => []ScanInv
  <1>1. IInv => ScanInv
    BY DEF IInv
  <1>2. QED
    BY InitInv, StepInv, <1>1, PTL DEF Spec

-----------------------------------------------------------------------------
(* bmp_alloc returns as Alloc of its request does.                         *)
LEMMA BmpReturnAllocs == ASSUME IInv, BmpReturn PROVE Alloc(size)
  <1> USE PoolAssumption DEF IInv, TypeOK, ScanInv
  <1> DEFINE start == i - counter
  <1>1. /\ counter <= i
        /\ start..(i - 1) \cap used = {}
        /\ \A b \in 0..(start - 1) : Run(b, size) \cap used # {}
    BY DEF BmpReturn, BmpInv
  <1>2. \A b \in 0..(start - 1) : ~ZeroRun(used, b, size, Limit)
    BY <1>1 DEF ZeroRun
  <1>3. CASE counter # size
    <2>1. i = Limit /\ counter < size
      BY <1>3 DEF BmpReturn, Looping
    <2>2. \A b \in 0..Limit : b >= start => b + size > Limit
      BY <2>1
    <2>3. ~HasZeroRun(used, size, Limit)
      BY <1>2, <2>2 DEF HasZeroRun, ZeroRun
    <2>4. QED
      BY <1>3, <2>3 DEF BmpReturn, Alloc
  <1>4. CASE counter = size
    <2>1. CASE size = 0
      <3>1. result = 0
        BY <1>4, <2>1 DEF BmpReturn, BmpInv
      <3>2. IsFirstFit(used, size, Limit, 0)
        BY <2>1 DEF IsFirstFit, ZeroRun, Run
      <3>3. QED
        BY <1>4, <3>1, <3>2, FirstFitUnique DEF BmpReturn, Alloc, HasZeroRun, IsFirstFit
    <2>2. CASE size > 0
      <3>1. result = start /\ result + size = i
        BY <1>4, <2>2 DEF BmpReturn, BmpInv
      <3>2. ZeroRun(used, result, size, Limit)
        BY <1>1, <3>1 DEF ZeroRun, Run
      <3>3. IsFirstFit(used, size, Limit, result)
        BY <1>2, <3>1, <3>2 DEF IsFirstFit
      <3>4. FirstFit(used, size, Limit) = result
        BY <3>3, FirstFitUnique
      <3>5. HasZeroRun(used, size, Limit)
        BY <3>2 DEF HasZeroRun
      <3>6. QED
        BY <1>4, <3>4, <3>5 DEF BmpReturn, Alloc
    <2>3. QED
      BY <2>1, <2>2
  <1>5. QED
    BY <1>3, <1>4

(* webmp_alloc returns as WeakAlloc of its request does.                   *)
LEMMA WebmpReturnAllocs == ASSUME IInv, WebmpReturn PROVE WeakAlloc(size)
  <1> USE PoolAssumption DEF IInv, TypeOK, ScanInv
  <1>1. /\ counter <= i
        /\ counter = 0 => result = 0 /\ 0..(i - 1) \subseteq used
        /\ counter > 0 => result = i - counter /\ 0..(result - 1) \subseteq used
        /\ (i - counter)..(i - 1) \cap used = {}
        /\ pc = "break" => counter > 0 /\ i \in used
    BY DEF WebmpReturn, WebmpInv
  <1>2. pc = "break" \/ i = Limit \/ counter = size
    BY DEF WebmpReturn, Looping
  <1>3. IsWeakFit(used, size, Limit, result, counter)
    <2>1. CASE counter = 0
      <3>1. result = 0 /\ (size = 0 \/ i = Limit)
        BY <1>1, <1>2, <2>1
      <3>2. size = 0 \/ 0..(Limit - 1) \subseteq used
        BY <1>1, <2>1, <3>1
      <3>3. ZeroRun(used, result, counter, Limit)
        BY <2>1, <3>1 DEF ZeroRun, Run
      <3>4. QED
        BY <2>1, <3>1, <3>2, <3>3 DEF IsWeakFit
    <2>2. CASE counter > 0
      <3>1. result + counter = i /\ 0..(result - 1) \subseteq used
        BY <1>1, <2>2
      <3>2. ZeroRun(used, result, counter, Limit)
        BY <1>1, <3>1 DEF ZeroRun, Run
      <3>3. counter < size => (result + counter = Limit \/ result + counter \in used)
        BY <1>1, <1>2, <3>1
      <3>4. QED
        BY <2>2, <3>1, <3>2, <3>3 DEF IsWeakFit
    <2>3. QED
      BY <2>1, <2>2
  <1>4. QED
    BY <1>3 DEF WebmpReturn, WeakAlloc

(* Every behaviour of the loops is one of BitPool: a caller may take       *)
(* bmp_alloc for a step that marks the first run that fits, and nothing    *)
(* else changes the bitmap.                                                *)
THEOREM Refinement == Spec => Implements
  <1>1. Init => PoolInit
    BY DEF Init
  <1>2. IInv /\ [Next]_vars => [PoolNext]_poolVars
    <2> SUFFICES ASSUME IInv, [Next]_vars PROVE [PoolNext]_poolVars
      OBVIOUS
    <2>1. pc # "idle" => size \in Sizes
      BY DEF IInv, TypeOK
    <2>2. CASE BmpReturn
      BY <2>1, <2>2, BmpReturnAllocs DEF PoolNext, BmpReturn
    <2>3. CASE WebmpReturn
      BY <2>1, <2>3, WebmpReturnAllocs DEF PoolNext, WebmpReturn
    <2>4. CASE BmpStep \/ WebmpStep
      BY <2>4 DEF BmpStep, WebmpStep
    <2>5. CASE \E f \in {"bmp", "webmp"}, n \in Sizes : Call(f, n)
      BY <2>5 DEF Call
    <2>6. CASE UNCHANGED vars
      BY <2>6 DEF vars
    <2>7. QED
      BY <2>2, <2>3, <2>4, <2>5, <2>6 DEF Next
  <1>3. QED
    BY InitInv, StepInv, <1>1, <1>2, PTL DEF Spec, Implements, PoolSpec
=============================================================================
