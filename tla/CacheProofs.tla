---------------------------- MODULE CacheProofs ----------------------------
(***************************************************************************)
(* Theorems about Cache, for any number of calls, keys and writers.        *)
(***************************************************************************)
EXTENDS Cache, TLAPS

LEMMA InitTypeOK == Init => TypeOK
  BY DEF Init, TypeOK, NoSlot, Slot

\* A call made now answers from a slot of some call.
LEMMA BeginTypeOK ==
    ASSUME TypeOK, NEW c \in Calls, NEW k \in Keys, NEW s \in Calls,
           NEW next \in {"fill", "wait"}, Begin(c, k, s, next)
    PROVE  /\ pc' \in [Calls -> {"start", "fill", "close", "forget", "wait", "done", "panicked"}]
           /\ key' \in [Calls -> Keys \union {NoKey}]
           /\ on' \in [Calls -> Calls \union {NoCall}]
           /\ since' \in [Calls -> Nat]
           /\ \A d \in Calls : pc'[d] # "start" => key'[d] \in Keys /\ on'[d] \in Calls
  BY DEF Begin, TypeOK

LEMMA StepTypeOK == TypeOK /\ [Next]_vars => TypeOK'
<1> SUFFICES ASSUME TypeOK, [Next]_vars PROVE TypeOK'
  OBVIOUS
<1> USE DEF data, call
<1>1. ASSUME NEW c \in Calls, NEW k \in Keys, Hit(c, k) PROVE TypeOK'
  <2>1. vals[k] \in Calls
    BY <1>1 DEF Hit, Has, TypeOK
  <2> QED
    BY <1>1, <2>1, BeginTypeOK DEF Hit, TypeOK
<1>2. ASSUME NEW c \in Calls, NEW k \in Keys, Miss(c, k) PROVE TypeOK'
  <2>1. [NoSlot EXCEPT !.gen = gen] \in Slot
    BY DEF NoSlot, Slot, TypeOK
  <2> QED
    BY <1>2, <2>1, BeginTypeOK DEF Miss, TypeOK
<1>3. ASSUME NEW c \in Calls, FillRead(c) PROVE TypeOK'
  BY <1>3 DEF FillRead, Slot, TypeOK
<1>4. ASSUME NEW c \in Calls, FillError(c) PROVE TypeOK'
  BY <1>4 DEF FillError, Slot, TypeOK
<1>5. ASSUME NEW c \in Calls, FillPanic(c) PROVE TypeOK'
  BY <1>5 DEF FillPanic, TypeOK
<1>6. ASSUME NEW c \in Calls, Close(c) PROVE TypeOK'
  BY <1>6 DEF Close, Slot, TypeOK
<1>7. ASSUME NEW c \in Calls, Forget(c) PROVE TypeOK'
  BY <1>7 DEF Forget, TypeOK
<1>8. ASSUME NEW c \in Calls, Wake(c) PROVE TypeOK'
  BY <1>8 DEF Wake, TypeOK
<1>9. ASSUME NEW w \in Writers, Write(w) PROVE TypeOK'
  BY <1>9 DEF Write, TypeOK
<1>10. ASSUME NEW w \in Writers, Flush(w) PROVE TypeOK'
  BY <1>10 DEF Flush, TypeOK
<1>11. CASE UNCHANGED vars
  BY <1>11 DEF vars, TypeOK
<1> QED
  BY <1>1, <1>2, <1>3, <1>4, <1>5, <1>6, <1>7, <1>8, <1>9, <1>10, <1>11
  DEF Next, Get, Fill, Finish

\* Every reachable state is well typed.
THEOREM TypeCorrect == Spec => []TypeOK
  BY InitTypeOK, StepTypeOK, PTL DEF Spec

(***************************************************************************)
(* Slots.                                                                  *)
(***************************************************************************)

\* A slot in the map belongs to this generation and to a call that asked for
\* that key: Flush empties the map as it starts a generation.
KeptSlots ==
    \A k \in Keys : vals[k] # NoCall =>
        pc[vals[k]] # "start" /\ key[vals[k]] = k /\ on[vals[k]] = vals[k]
          /\ slot[vals[k]].gen = gen

\* Whoever a call answers from made a slot, for the same key.
SlotOwners ==
    \A c \in Calls : pc[c] # "start" =>
        /\ pc[on[c]] \notin {"start", "wait"}
        /\ on[on[c]] = on[c]
        /\ key[on[c]] = key[c]
        /\ slot[on[c]].gen \in 1 .. gen
        /\ pc[c] \in {"fill", "close", "forget", "panicked"} => on[c] = c
        /\ pc[c] = "wait" => on[c] # c

\* The life of a slot.
SlotStates ==
    \A c \in Calls :
        /\ pc[c] \in {"fill", "panicked"} => ~slot[c].ready /\ ~slot[c].err
        /\ pc[c] = "close" => ~slot[c].ready
        /\ pc[c] = "forget" => slot[c].err /\ slot[c].ready
        /\ pc[c] = "done" => slot[on[c]].ready

\* A slot of this generation stays in the map until it is filled.
FillersKept ==
    \A c \in Calls :
        pc[c] \in {"fill", "close", "panicked"} /\ slot[c].gen = gen => vals[key[c]] = c

\* ... and after that too, unless the fill failed.
ReadersKept ==
    \A c \in Readers : slot[c].gen = gen => vals[key[c]] = c

\* Nobody fills a key that has its reading in that generation.
OneReading ==
    \A c \in Calls, d \in Readers :
        pc[c] \in {"fill", "close", "panicked"} /\ key[c] = key[d] /\ slot[c].gen = slot[d].gen
        => c = d

\* A reading is no older than any flush before a call that may answer from it.
FreshInv ==
    /\ floor <= ver
    /\ \A c \in Calls : since[c] <= floor
    /\ \A s \in Calls : on[s] = s /\ pc[s] \in {"close", "done"} /\ ~slot[s].err =>
          /\ slot[s].gen = gen => slot[s].val >= floor
          /\ \A c \in Calls : on[c] = s => slot[s].val >= since[c]

SlotInv ==
    /\ KeptSlots
    /\ SlotOwners
    /\ SlotStates
    /\ FillersKept
    /\ OneFiller
    /\ FailureNotKept
    /\ ReadersKept
    /\ OneReading
    /\ FreshInv

LEMMA InitSlotInv == Init => SlotInv
  BY DEF Init, NoSlot, SlotInv, KeptSlots, SlotOwners, SlotStates, FillersKept, OneFiller,
         FailureNotKept, ReadersKept, OneReading, Readers, FreshInv

LEMMA StepSlotInv == TypeOK /\ TypeOK' /\ SlotInv /\ [Next]_vars => SlotInv'
<1> SUFFICES ASSUME TypeOK, TypeOK', SlotInv, [Next]_vars PROVE SlotInv'
  OBVIOUS
<1> USE DEF data, call, TypeOK, Slot
<1> KeptSlots /\ SlotOwners /\ SlotStates /\ FillersKept /\ OneFiller /\ FailureNotKept
    /\ ReadersKept /\ OneReading /\ FreshInv
  BY DEF SlotInv
<1>1. ASSUME NEW c \in Calls, NEW k \in Keys, Hit(c, k) PROVE SlotInv'
  <2>1. KeptSlots'
    BY <1>1 DEF Hit, Has, Begin, KeptSlots
  <2>2. SlotOwners'
    BY <1>1 DEF Hit, Has, Begin, SlotOwners, KeptSlots
  <2>3. SlotStates'
    BY <1>1 DEF Hit, Has, Begin, SlotStates, SlotOwners
  <2>4. FillersKept'
    BY <1>1 DEF Hit, Has, Begin, FillersKept, KeptSlots, SlotOwners
  <2>5. OneFiller'
    BY <1>1 DEF Hit, Has, Begin, OneFiller, FillersKept, KeptSlots, SlotOwners
  <2>6. FailureNotKept'
    BY <1>1 DEF Hit, Has, Begin, FailureNotKept, KeptSlots, SlotOwners, SlotStates
  <2>7. ReadersKept'
    BY <1>1 DEF Hit, Has, Begin, Readers, ReadersKept, FillersKept, KeptSlots, SlotOwners, SlotStates
  <2>8. OneReading'
    BY <1>1 DEF Hit, Has, Begin, Readers, OneReading, OneFiller, ReadersKept, SlotOwners, SlotStates
  <2>9. FreshInv'
    BY <1>1 DEF Hit, Has, Begin, FreshInv, KeptSlots, SlotOwners, SlotStates
  <2> QED
    BY <2>1, <2>2, <2>3, <2>4, <2>5, <2>6, <2>7, <2>8, <2>9 DEF SlotInv
<1>2. ASSUME NEW c \in Calls, NEW k \in Keys, Miss(c, k) PROVE SlotInv'
  <2>1. KeptSlots'
    BY <1>2, CacheAssumption DEF Miss, Has, Begin, NoSlot, KeptSlots
  <2>2. SlotOwners'
    BY <1>2, CacheAssumption DEF Miss, Has, Begin, NoSlot, SlotOwners, KeptSlots
  <2>3. SlotStates'
    BY <1>2, CacheAssumption DEF Miss, Has, Begin, NoSlot, SlotStates, SlotOwners
  <2>4. FillersKept'
    BY <1>2, CacheAssumption DEF Miss, Has, Begin, NoSlot, FillersKept, KeptSlots, SlotOwners
  <2>5. OneFiller'
    BY <1>2, CacheAssumption DEF Miss, Has, Begin, NoSlot, OneFiller, FillersKept, KeptSlots, SlotOwners
  <2>6. FailureNotKept'
    BY <1>2, CacheAssumption DEF Miss, Has, Begin, NoSlot, FailureNotKept, KeptSlots, SlotOwners, SlotStates
  <2>7. ReadersKept'
    BY <1>2, CacheAssumption DEF Miss, Has, Begin, NoSlot, Readers, ReadersKept, FillersKept, KeptSlots, SlotOwners, SlotStates
  <2>8. OneReading'
    BY <1>2, CacheAssumption DEF Miss, Has, Begin, NoSlot, Readers, OneReading, OneFiller, ReadersKept, SlotOwners, SlotStates
  <2>9. FreshInv'
    BY <1>2, CacheAssumption DEF Miss, Has, Begin, NoSlot, FreshInv, KeptSlots, SlotOwners, SlotStates
  <2> QED
    BY <2>1, <2>2, <2>3, <2>4, <2>5, <2>6, <2>7, <2>8, <2>9 DEF SlotInv
<1>3. ASSUME NEW c \in Calls, FillRead(c) PROVE SlotInv'
  <2>1. KeptSlots'
    BY <1>3 DEF FillRead, KeptSlots
  <2>2. SlotOwners'
    BY <1>3 DEF FillRead, SlotOwners, KeptSlots
  <2>3. SlotStates'
    BY <1>3 DEF FillRead, SlotStates, SlotOwners
  <2>4. FillersKept'
    BY <1>3 DEF FillRead, FillersKept, KeptSlots, SlotOwners
  <2>5. OneFiller'
    BY <1>3 DEF FillRead, OneFiller, FillersKept, KeptSlots, SlotOwners
  <2>6. FailureNotKept'
    BY <1>3 DEF FillRead, FailureNotKept, KeptSlots, SlotOwners, SlotStates
  <2>7. ReadersKept'
    BY <1>3 DEF FillRead, Readers, ReadersKept, FillersKept, KeptSlots, SlotOwners, SlotStates
  <2>8. OneReading'
    BY <1>3 DEF FillRead, Readers, OneReading, OneFiller, ReadersKept, SlotOwners, SlotStates
  <2>9. FreshInv'
    BY <1>3 DEF FillRead, FreshInv, KeptSlots, SlotOwners, SlotStates
  <2> QED
    BY <2>1, <2>2, <2>3, <2>4, <2>5, <2>6, <2>7, <2>8, <2>9 DEF SlotInv
<1>4. ASSUME NEW c \in Calls, FillError(c) PROVE SlotInv'
  <2>1. KeptSlots'
    BY <1>4 DEF FillError, KeptSlots
  <2>2. SlotOwners'
    BY <1>4 DEF FillError, SlotOwners, KeptSlots
  <2>3. SlotStates'
    BY <1>4 DEF FillError, SlotStates, SlotOwners
  <2>4. FillersKept'
    BY <1>4 DEF FillError, FillersKept, KeptSlots, SlotOwners
  <2>5. OneFiller'
    BY <1>4 DEF FillError, OneFiller, FillersKept, KeptSlots, SlotOwners
  <2>6. FailureNotKept'
    BY <1>4 DEF FillError, FailureNotKept, KeptSlots, SlotOwners, SlotStates
  <2>7. ReadersKept'
    BY <1>4 DEF FillError, Readers, ReadersKept, FillersKept, KeptSlots, SlotOwners, SlotStates
  <2>8. OneReading'
    BY <1>4 DEF FillError, Readers, OneReading, OneFiller, ReadersKept, SlotOwners, SlotStates
  <2>9. FreshInv'
    BY <1>4 DEF FillError, FreshInv, KeptSlots, SlotOwners, SlotStates
  <2> QED
    BY <2>1, <2>2, <2>3, <2>4, <2>5, <2>6, <2>7, <2>8, <2>9 DEF SlotInv
<1>5. ASSUME NEW c \in Calls, FillPanic(c) PROVE SlotInv'
  <2>1. KeptSlots'
    BY <1>5 DEF FillPanic, KeptSlots
  <2>2. SlotOwners'
    BY <1>5 DEF FillPanic, SlotOwners, KeptSlots
  <2>3. SlotStates'
    BY <1>5 DEF FillPanic, SlotStates, SlotOwners
  <2>4. FillersKept'
    BY <1>5 DEF FillPanic, FillersKept, KeptSlots, SlotOwners
  <2>5. OneFiller'
    BY <1>5 DEF FillPanic, OneFiller, FillersKept, KeptSlots, SlotOwners
  <2>6. FailureNotKept'
    BY <1>5 DEF FillPanic, FailureNotKept, KeptSlots, SlotOwners, SlotStates
  <2>7. ReadersKept'
    BY <1>5 DEF FillPanic, Readers, ReadersKept, FillersKept, KeptSlots, SlotOwners, SlotStates
  <2>8. OneReading'
    BY <1>5 DEF FillPanic, Readers, OneReading, OneFiller, ReadersKept, SlotOwners, SlotStates
  <2>9. FreshInv'
    BY <1>5 DEF FillPanic, FreshInv, KeptSlots, SlotOwners, SlotStates
  <2> QED
    BY <2>1, <2>2, <2>3, <2>4, <2>5, <2>6, <2>7, <2>8, <2>9 DEF SlotInv
<1>6. ASSUME NEW c \in Calls, Close(c) PROVE SlotInv'
  <2>1. KeptSlots'
    BY <1>6 DEF Close, KeptSlots
  <2>2. SlotOwners'
    BY <1>6 DEF Close, SlotOwners, KeptSlots
  <2>3. SlotStates'
    BY <1>6 DEF Close, SlotStates, SlotOwners
  <2>4. FillersKept'
    BY <1>6 DEF Close, FillersKept, KeptSlots, SlotOwners
  <2>5. OneFiller'
    BY <1>6 DEF Close, OneFiller, FillersKept, KeptSlots, SlotOwners
  <2>6. FailureNotKept'
    BY <1>6 DEF Close, FailureNotKept, KeptSlots, SlotOwners, SlotStates
  <2>7. ReadersKept'
    BY <1>6 DEF Close, Readers, ReadersKept, FillersKept, KeptSlots, SlotOwners, SlotStates
  <2>8. OneReading'
    BY <1>6 DEF Close, Readers, OneReading, OneFiller, ReadersKept, SlotOwners, SlotStates
  <2>9. FreshInv'
    BY <1>6 DEF Close, FreshInv, KeptSlots, SlotOwners, SlotStates
  <2> QED
    BY <2>1, <2>2, <2>3, <2>4, <2>5, <2>6, <2>7, <2>8, <2>9 DEF SlotInv
<1>7. ASSUME NEW c \in Calls, Forget(c) PROVE SlotInv'
  <2>1. KeptSlots'
    BY <1>7 DEF Forget, KeptSlots
  <2>2. SlotOwners'
    BY <1>7 DEF Forget, SlotOwners, KeptSlots
  <2>3. SlotStates'
    BY <1>7 DEF Forget, SlotStates, SlotOwners
  <2>4. FillersKept'
    BY <1>7 DEF Forget, FillersKept, KeptSlots, SlotOwners
  <2>5. OneFiller'
    BY <1>7 DEF Forget, OneFiller, FillersKept, KeptSlots, SlotOwners
  <2>6. FailureNotKept'
    BY <1>7 DEF Forget, FailureNotKept, KeptSlots, SlotOwners, SlotStates
  <2>7. ReadersKept'
    BY <1>7 DEF Forget, Readers, ReadersKept, FillersKept, KeptSlots, SlotOwners, SlotStates
  <2>8. OneReading'
    BY <1>7 DEF Forget, Readers, OneReading, OneFiller, ReadersKept, SlotOwners, SlotStates
  <2>9. FreshInv'
    BY <1>7 DEF Forget, FreshInv, KeptSlots, SlotOwners, SlotStates
  <2> QED
    BY <2>1, <2>2, <2>3, <2>4, <2>5, <2>6, <2>7, <2>8, <2>9 DEF SlotInv
<1>8. ASSUME NEW c \in Calls, Wake(c) PROVE SlotInv'
  <2>1. KeptSlots'
    BY <1>8 DEF Wake, KeptSlots
  <2>2. SlotOwners'
    BY <1>8 DEF Wake, SlotOwners, KeptSlots
  <2>3. SlotStates'
    BY <1>8 DEF Wake, SlotStates, SlotOwners
  <2>4. FillersKept'
    BY <1>8 DEF Wake, FillersKept, KeptSlots, SlotOwners
  <2>5. OneFiller'
    BY <1>8 DEF Wake, OneFiller, FillersKept, KeptSlots, SlotOwners
  <2>6. FailureNotKept'
    BY <1>8 DEF Wake, FailureNotKept, KeptSlots, SlotOwners, SlotStates
  <2>7. ReadersKept'
    BY <1>8 DEF Wake, Readers, ReadersKept, FillersKept, KeptSlots, SlotOwners, SlotStates
  <2>8. OneReading'
    BY <1>8 DEF Wake, Readers, OneReading, OneFiller, ReadersKept, SlotOwners, SlotStates
  <2>9. FreshInv'
    BY <1>8 DEF Wake, FreshInv, KeptSlots, SlotOwners, SlotStates
  <2> QED
    BY <2>1, <2>2, <2>3, <2>4, <2>5, <2>6, <2>7, <2>8, <2>9 DEF SlotInv
<1>9. ASSUME NEW w \in Writers, Write(w) PROVE SlotInv'
  <2>1. KeptSlots'
    BY <1>9 DEF Write, KeptSlots
  <2>2. SlotOwners'
    BY <1>9 DEF Write, SlotOwners, KeptSlots
  <2>3. SlotStates'
    BY <1>9 DEF Write, SlotStates, SlotOwners
  <2>4. FillersKept'
    BY <1>9 DEF Write, FillersKept, KeptSlots, SlotOwners
  <2>5. OneFiller'
    BY <1>9 DEF Write, OneFiller, FillersKept, KeptSlots, SlotOwners
  <2>6. FailureNotKept'
    BY <1>9 DEF Write, FailureNotKept, KeptSlots, SlotOwners, SlotStates
  <2>7. ReadersKept'
    BY <1>9 DEF Write, Readers, ReadersKept, FillersKept, KeptSlots, SlotOwners, SlotStates
  <2>8. OneReading'
    BY <1>9 DEF Write, Readers, OneReading, OneFiller, ReadersKept, SlotOwners, SlotStates
  <2>9. FreshInv'
    BY <1>9 DEF Write, FreshInv, KeptSlots, SlotOwners, SlotStates
  <2> QED
    BY <2>1, <2>2, <2>3, <2>4, <2>5, <2>6, <2>7, <2>8, <2>9 DEF SlotInv
<1>10. ASSUME NEW w \in Writers, Flush(w) PROVE SlotInv'
  <2>1. KeptSlots'
    BY <1>10 DEF Flush, KeptSlots
  <2>2. SlotOwners'
    BY <1>10 DEF Flush, SlotOwners, KeptSlots
  <2>3. SlotStates'
    BY <1>10 DEF Flush, SlotStates, SlotOwners
  <2>4. FillersKept'
    BY <1>10 DEF Flush, FillersKept, KeptSlots, SlotOwners
  <2>5. OneFiller'
    BY <1>10 DEF Flush, OneFiller, FillersKept, KeptSlots, SlotOwners
  <2>6. FailureNotKept'
    BY <1>10 DEF Flush, FailureNotKept, KeptSlots, SlotOwners, SlotStates
  <2>7. ReadersKept'
    BY <1>10 DEF Flush, Readers, ReadersKept, FillersKept, KeptSlots, SlotOwners, SlotStates
  <2>8. OneReading'
    BY <1>10 DEF Flush, Readers, OneReading, OneFiller, ReadersKept, SlotOwners, SlotStates
  <2>9. FreshInv'
    BY <1>10 DEF Flush, FreshInv, KeptSlots, SlotOwners, SlotStates
  <2> QED
    BY <2>1, <2>2, <2>3, <2>4, <2>5, <2>6, <2>7, <2>8, <2>9 DEF SlotInv
<1>11. CASE UNCHANGED vars
  BY <1>11 DEF vars, SlotInv, KeptSlots, SlotOwners, SlotStates, FillersKept, OneFiller,
             FailureNotKept, Readers, ReadersKept, OneReading, FreshInv
<1> QED
  BY <1>1, <1>2, <1>3, <1>4, <1>5, <1>6, <1>7, <1>8, <1>9, <1>10, <1>11
  DEF Next, Get, Fill, Finish

\* The invariant every theorem below rests on.
LEMMA SlotsCorrect == Spec => [](TypeOK /\ SlotInv)
<1>1. TypeOK /\ SlotInv /\ [Next]_vars => TypeOK' /\ SlotInv'
  BY StepTypeOK, StepSlotInv
<1> QED
  BY <1>1, InitTypeOK, InitSlotInv, PTL DEF Spec

\* No call made after a flush is answered with what was read before it.
THEOREM FlushIsFinal == Spec => []NeverFromBeforeFlush
<1>1. ASSUME TypeOK, SlotInv PROVE NeverFromBeforeFlush
  <2>1. SUFFICES ASSUME NEW c \in Calls, Answered(c) PROVE slot[on[c]].val >= since[c]
    BY DEF NeverFromBeforeFlush
  <2>2. on[c] \in Calls /\ on[on[c]] = on[c] /\ pc[on[c]] \in {"close", "done"}
    BY <1>1, <2>1 DEF Answered, TypeOK, SlotInv, SlotOwners, SlotStates
  <2> QED
    BY <1>1, <2>1, <2>2 DEF Answered, SlotInv, FreshInv
<1> QED
  BY <1>1, SlotsCorrect, PTL

\* One fill at a time for each key and generation.
THEOREM FillsAreSingle == Spec => []OneFiller
  BY SlotsCorrect, PTL DEF SlotInv

\* A failed fill is not left in the cache.
THEOREM FailuresAreForgotten == Spec => []FailureNotKept
  BY SlotsCorrect, PTL DEF SlotInv

(***************************************************************************)
(* The cache implements Memo.                                              *)
(***************************************************************************)

LEMMA InitRefines == Init => M!Init
  BY DEF Init, M!Init, State, Asked, Answered, Readers, Readings, Val, NoSlot

\* What a call does not touch: calls that answer from another slot look the same
\* to Memo.
LEMMA SlotInvParts ==
    SlotInv => KeptSlots /\ SlotOwners /\ SlotStates /\ FillersKept /\ OneFiller
               /\ OneReading /\ FreshInv
  BY DEF SlotInv

\* A call is made.
LEMMA BeginRefines ==
    ASSUME TypeOK, TypeOK', SlotInv, NEW c \in Calls, NEW k \in Keys, Hit(c, k) \/ Miss(c, k)
    PROVE  M!Ask(c, k)
<1> USE SlotInvParts, CacheAssumption DEF data, call, TypeOK, Slot
<1>1. pc[c] = "start" /\ pc'[c] \in {"fill", "wait"} /\ key'[c] = k
  BY DEF Hit, Miss, Begin
<1>2. \A d \in Calls \ {c} : pc'[d] = pc[d] /\ key'[d] = key[d] /\ on'[d] = on[d]
  BY DEF Hit, Miss, Begin
<1>3. \A d \in Calls : d # c \/ on'[c] # c => slot'[d] = slot[d]
  BY DEF Hit, Miss, Begin
<1>4. slot'[on'[c]].gen = gen /\ gen' = gen /\ ver' = ver
  BY DEF Hit, Miss, Begin, Has, NoSlot, KeptSlots
<1>5. \A d \in Calls \ {c} : pc[d] # "start" => on[d] \in Calls \ {c}
  BY <1>1 DEF SlotOwners
<1>6. \A d \in Calls \ {c} : State(d)' = State(d) /\ Asked(d)' = Asked(d) /\ Val(d)' = Val(d)
  BY <1>2, <1>3, <1>5 DEF State, Asked, Val, Answered
<1>7. State(c) = "unasked" /\ State(c)' = "pending" /\ Val(c) = 0 /\ Val(c)' = 0
      /\ Asked(c)' = [key |-> k, epoch |-> gen - 1]
  BY <1>1, <1>4 DEF State, Val, Asked, Answered
<1>8. Readings' = Readings
  <2>1. Readers' = Readers
    BY <1>1, <1>2, <1>3 DEF Readers
  <2>2. \A d \in Readers : Asked(d)' = Asked(d) /\ slot'[d] = slot[d]
    BY <1>1, <1>3, <1>6 DEF Readers
  <2> QED
    BY <2>1, <2>2 DEF Readings
<1>9. [d \in Calls |-> State(d)]' = [[d \in Calls |-> State(d)] EXCEPT ![c] = "pending"]
  BY <1>6, <1>7
<1>10. [d \in Calls |-> Asked(d)]' =
          [[d \in Calls |-> Asked(d)] EXCEPT ![c] = [key |-> k, epoch |-> gen - 1]]
  BY <1>6, <1>7
<1>11. [d \in Calls |-> Val(d)]' = [d \in Calls |-> Val(d)]
  BY <1>6, <1>7
<1> QED
  BY <1>4, <1>7, <1>8, <1>9, <1>10, <1>11 DEF M!Ask

\* A fill reads the database.
LEMMA ReadRefines ==
    ASSUME TypeOK, TypeOK', SlotInv, NEW c \in Calls, FillRead(c)
    PROVE  M!Read(c)
<1> USE SlotInvParts, CacheAssumption DEF data, call, TypeOK, Slot
<1>1. on[c] = c /\ pc[c] = "fill" /\ pc'[c] = "close" /\ ~slot[c].err /\ ~slot'[c].err
      /\ slot'[c].val = ver /\ slot'[c].gen = slot[c].gen
  BY DEF FillRead, SlotOwners, SlotStates
<1>2. \A d \in Calls \ {c} : pc'[d] = pc[d] /\ slot'[d] = slot[d]
  BY DEF FillRead
<1>3. \A d \in Calls : pc[d] = "done" => on[d] # c
  BY <1>1 DEF SlotStates
<1>4. \A d \in Calls : State(d)' = State(d) /\ Asked(d)' = Asked(d) /\ Val(d)' = Val(d)
  BY <1>1, <1>2, <1>3 DEF FillRead, State, Asked, Val, Answered, SlotOwners
<1>5. Readings' = Readings \union {[of |-> Asked(c), val |-> ver]}
  <2>1. Readers' = Readers \union {c}
    BY <1>1, <1>2 DEF FillRead, Readers
  <2>2. c \notin Readers
    BY <1>1 DEF Readers
  <2> QED
    <3>1. \A d \in Readers : Asked(d)' = Asked(d) /\ slot'[d] = slot[d]
      BY <1>2, <1>4, <2>2 DEF Readers
    <3> QED
      BY <1>1, <1>4, <2>1, <3>1 DEF Readings
<1>6. \A m \in Readings : m.of # Asked(c)
  <2>1. SUFFICES ASSUME NEW d \in Readers, Asked(d) = Asked(c) PROVE FALSE
    BY DEF Readings
  <2>2. key[d] = key[c] /\ slot[d].gen - 1 = slot[c].gen - 1
    BY <1>1, <2>1 DEF Asked, Readers
  <2>3. slot[d].gen = slot[c].gen
    <3>1. slot[d].gen \in Nat /\ slot[c].gen \in Nat
      BY <2>1 DEF Readers
    <3>2. \A m, n \in Nat : m - 1 = n - 1 => m = n
      OBVIOUS
    <3> QED
      BY <2>2, <3>1, <3>2, Zenon
  <2> QED
    BY <1>1, <2>1, <2>2, <2>3 DEF Readers, OneReading
<1>7. State(c) = "pending"
  BY <1>1 DEF State, Answered
<1> QED
  <2>1. [d \in Calls |-> State(d)]' = [d \in Calls |-> State(d)]
    BY <1>4
  <2>2. [d \in Calls |-> Asked(d)]' = [d \in Calls |-> Asked(d)]
    BY <1>4
  <2>3. [d \in Calls |-> Val(d)]' = [d \in Calls |-> Val(d)]
    BY <1>4
  <2> QED
    BY <1>5, <1>6, <1>7, <2>1, <2>2, <2>3 DEF FillRead, M!Read

\* A call goes on and the slots keep what Memo can see of them: other calls look
\* the same to Memo, and so does this one's question.
LEMMA OneCallMoves ==
    ASSUME TypeOK, NEW c \in Calls, pc[c] # "start", pc'[c] # "start",
           \A d \in Calls \ {c} : pc'[d] = pc[d],
           \A d \in Calls : /\ slot'[d].gen = slot[d].gen
                            /\ slot'[d].val = slot[d].val
                            /\ slot'[d].err = slot[d].err,
           UNCHANGED call
    PROVE  /\ \A d \in Calls \ {c} : State(d)' = State(d) /\ Asked(d)' = Asked(d) /\ Val(d)' = Val(d)
           /\ \A d \in Calls : Asked(d)' = Asked(d)
           /\ on[c] \in Calls
           /\ Answered(c)' = (pc'[c] = "done" /\ ~slot[on[c]].err)
           /\ Val(c)' = IF Answered(c)' THEN slot[on[c]].val ELSE 0
<1>1. key' = key /\ on' = on
  BY DEF call
<1>2. \A d \in Calls : pc[d] # "start" => on[d] \in Calls
  BY DEF TypeOK
<1>3. \A d \in Calls \ {c} : State(d)' = State(d) /\ Asked(d)' = Asked(d) /\ Val(d)' = Val(d)
  BY <1>1, <1>2 DEF State, Asked, Val, Answered
<1> QED
  BY <1>1, <1>2, <1>3 DEF Asked, Val, Answered

\* The readings are those of the same calls as before: they stay as they are.
LEMMA ReadingsStay ==
    ASSUME Readers' = Readers,
           \A d \in Calls : Asked(d)' = Asked(d) /\ slot'[d].val = slot[d].val
    PROVE  Readings' = Readings
<1>1. Readers \subseteq Calls
  BY DEF Readers
<1> QED
  BY <1>1 DEF Readings

LEMMA FillErrorRefines ==
    ASSUME TypeOK, TypeOK', SlotInv, NEW c \in Calls, FillError(c)
    PROVE  UNCHANGED M!vars
<1> USE SlotInvParts DEF data, call, TypeOK, Slot
<1>1. on[c] = c /\ pc[c] = "fill" /\ pc'[c] = "close" /\ slot'[c].err
      /\ slot'[c].val = slot[c].val /\ slot'[c].gen = slot[c].gen
  BY DEF FillError, SlotOwners
<1>2. \A d \in Calls \ {c} : pc'[d] = pc[d] /\ slot'[d] = slot[d]
  BY DEF FillError
<1>3. \A d \in Calls : pc[d] = "done" => on[d] # c
  BY <1>1 DEF SlotStates
<1>4. \A d \in Calls : State(d)' = State(d) /\ Asked(d)' = Asked(d) /\ Val(d)' = Val(d)
  BY <1>1, <1>2, <1>3 DEF FillError, State, Asked, Val, Answered, SlotOwners
<1>5. Readers' = Readers
  BY <1>1, <1>2 DEF FillError, Readers
<1>6. Readings' = Readings
  BY <1>1, <1>2, <1>4, <1>5, ReadingsStay
<1>7. /\ [d \in Calls |-> State(d)]' = [d \in Calls |-> State(d)]
      /\ [d \in Calls |-> Asked(d)]' = [d \in Calls |-> Asked(d)]
      /\ [d \in Calls |-> Val(d)]' = [d \in Calls |-> Val(d)]
  BY <1>4
<1> QED
  BY <1>6, <1>7 DEF FillError, M!vars

\* How a call ends: with an error ...
LEMMA EndFails ==
    ASSUME NEW c \in Calls, State(c) = "pending", State(c)' = "failed", Val(c)' = Val(c),
           \A d \in Calls \ {c} : State(d)' = State(d) /\ Asked(d)' = Asked(d) /\ Val(d)' = Val(d),
           \A d \in Calls : Asked(d)' = Asked(d),
           Readings' = Readings, UNCHANGED <<ver, gen>>
    PROVE  M!Fail(c)
<1>1. [d \in Calls |-> State(d)]' = [[d \in Calls |-> State(d)] EXCEPT ![c] = "failed"]
  OBVIOUS
<1>2. /\ [d \in Calls |-> Asked(d)]' = [d \in Calls |-> Asked(d)]
      /\ [d \in Calls |-> Val(d)]' = [d \in Calls |-> Val(d)]
  OBVIOUS
<1> QED
  BY <1>1, <1>2 DEF M!Fail

\* ... or with the reading of what it asked for.
LEMMA EndAnswers ==
    ASSUME NEW c \in Calls, State(c) = "pending", State(c)' = "answered",
           NEW s \in Readers, Asked(s) = Asked(c), Val(c)' = slot[s].val,
           \A d \in Calls \ {c} : State(d)' = State(d) /\ Asked(d)' = Asked(d) /\ Val(d)' = Val(d),
           \A d \in Calls : Asked(d)' = Asked(d),
           Readings' = Readings, UNCHANGED <<ver, gen>>
    PROVE  M!Answer(c)
<1>1. [d \in Calls |-> State(d)]' = [[d \in Calls |-> State(d)] EXCEPT ![c] = "answered"]
  OBVIOUS
<1>2. [d \in Calls |-> Asked(d)]' = [d \in Calls |-> Asked(d)]
  OBVIOUS
<1>3. [d \in Calls |-> Val(d)]' = [[d \in Calls |-> Val(d)] EXCEPT ![c] = slot[s].val]
  OBVIOUS
<1>4. [of |-> Asked(s), val |-> slot[s].val] \in Readings
  BY DEF Readings
<1> QED
  BY <1>1, <1>2, <1>3, <1>4 DEF M!Answer

LEMMA PanicRefines ==
    ASSUME TypeOK, TypeOK', SlotInv, NEW c \in Calls, FillPanic(c)
    PROVE  M!Fail(c)
<1> USE SlotInvParts DEF data, TypeOK
<1>1. pc[c] = "fill" /\ pc' = [pc EXCEPT ![c] = "panicked"] /\ slot' = slot
  BY DEF FillPanic
<1>2. UNCHANGED call /\ UNCHANGED <<ver, gen>>
  BY DEF FillPanic
<1>3. Readers' = Readers
  BY <1>1, <1>2 DEF call, Readers
<1>4. State(c) = "pending" /\ State(c)' = "failed" /\ Val(c)' = Val(c)
  BY <1>1 DEF State, Answered, Val
<1>5. pc'[c] = "panicked" /\ \A d \in Calls \ {c} : pc'[d] = pc[d]
  BY <1>1
<1> QED
  BY <1>1, <1>2, <1>3, <1>4, <1>5, OneCallMoves, ReadingsStay, EndFails

LEMMA CloseRefines ==
    ASSUME TypeOK, TypeOK', SlotInv, NEW c \in Calls, Close(c)
    PROVE  [M!Next]_(M!vars)
<1> USE SlotInvParts DEF data, TypeOK, Slot
<1>1. /\ on[c] = c /\ pc[c] = "close"
      /\ pc'[c] = IF slot[c].err THEN "forget" ELSE "done"
      /\ \A d \in Calls \ {c} : pc'[d] = pc[d]
  BY DEF Close, SlotOwners
<1>2. \A d \in Calls : /\ slot'[d].gen = slot[d].gen
                       /\ slot'[d].val = slot[d].val
                       /\ slot'[d].err = slot[d].err
  BY DEF Close
<1>3. UNCHANGED call /\ UNCHANGED <<ver, gen>>
  BY DEF Close
<1>4. Readers' = Readers
  BY <1>1, <1>2, <1>3 DEF call, Readers
<1>5. /\ \A d \in Calls \ {c} : State(d)' = State(d) /\ Asked(d)' = Asked(d) /\ Val(d)' = Val(d)
      /\ \A d \in Calls : Asked(d)' = Asked(d)
      /\ Answered(c)' = (pc'[c] = "done" /\ ~slot[c].err)
      /\ Val(c)' = IF Answered(c)' THEN slot[c].val ELSE 0
      /\ Readings' = Readings
  BY <1>1, <1>2, <1>3, <1>4, OneCallMoves, ReadingsStay
<1>6. State(c) = "pending" /\ Val(c) = 0
  BY <1>1 DEF State, Val, Answered
<1>7. CASE slot[c].err
  <2>1. State(c)' = State(c) /\ Val(c)' = Val(c)
    BY <1>1, <1>5, <1>6, <1>7 DEF State
  <2>2. /\ [d \in Calls |-> State(d)]' = [d \in Calls |-> State(d)]
        /\ [d \in Calls |-> Asked(d)]' = [d \in Calls |-> Asked(d)]
        /\ [d \in Calls |-> Val(d)]' = [d \in Calls |-> Val(d)]
    BY <1>5, <2>1
  <2> QED
    BY <1>3, <1>5, <2>2 DEF M!vars
<1>8. CASE ~slot[c].err
  <2>1. c \in Readers
    BY <1>1, <1>8 DEF Readers
  <2>2. State(c)' = "answered" /\ Val(c)' = slot[c].val
    BY <1>1, <1>5, <1>8 DEF State, Answered
  <2>3. M!Answer(c)
    BY <1>3, <1>5, <1>6, <2>1, <2>2, EndAnswers
  <2> QED
    BY <2>3 DEF M!Next
<1> QED
  BY <1>7, <1>8

LEMMA ForgetRefines ==
    ASSUME TypeOK, TypeOK', SlotInv, NEW c \in Calls, Forget(c)
    PROVE  M!Fail(c)
<1> USE SlotInvParts DEF data, TypeOK
<1>1. /\ on[c] = c /\ pc[c] = "forget" /\ pc'[c] = "done" /\ slot[c].err /\ slot' = slot
      /\ \A d \in Calls \ {c} : pc'[d] = pc[d]
  BY DEF Forget, SlotOwners, SlotStates
<1>2. UNCHANGED call /\ UNCHANGED <<ver, gen>>
  BY DEF Forget
<1>3. Readers' = Readers
  BY <1>1, <1>2 DEF call, Readers
<1>4. State(c) = "pending" /\ State(c)' = "failed" /\ Val(c)' = Val(c)
  BY <1>1, <1>2 DEF call, State, Answered, Val
<1> QED
  BY <1>1, <1>2, <1>3, <1>4, OneCallMoves, ReadingsStay, EndFails

LEMMA WakeRefines ==
    ASSUME TypeOK, TypeOK', SlotInv, NEW c \in Calls, Wake(c)
    PROVE  M!Fail(c) \/ M!Answer(c)
<1> USE SlotInvParts DEF data, TypeOK
<1>1. /\ on[c] # c /\ pc[c] = "wait" /\ pc'[c] = "done" /\ slot' = slot
      /\ \A d \in Calls \ {c} : pc'[d] = pc[d]
  BY DEF Wake, SlotOwners
<1>2. UNCHANGED call /\ UNCHANGED <<ver, gen>>
  BY DEF Wake
<1>3. Readers' = Readers
  BY <1>1, <1>2 DEF call, Readers
<1>4. /\ \A d \in Calls \ {c} : State(d)' = State(d) /\ Asked(d)' = Asked(d) /\ Val(d)' = Val(d)
      /\ \A d \in Calls : Asked(d)' = Asked(d)
      /\ on[c] \in Calls
      /\ Answered(c)' = (pc'[c] = "done" /\ ~slot[on[c]].err)
      /\ Val(c)' = IF Answered(c)' THEN slot[on[c]].val ELSE 0
      /\ Readings' = Readings
  BY <1>1, <1>2, <1>3, OneCallMoves, ReadingsStay
<1>5. State(c) = "pending" /\ Val(c) = 0
  BY <1>1 DEF State, Val, Answered
<1>6. CASE slot[on[c]].err
  <2>1. State(c)' = "failed" /\ Val(c)' = Val(c)
    BY <1>1, <1>2, <1>4, <1>5, <1>6 DEF State, call
  <2> QED
    BY <1>2, <1>4, <1>5, <2>1, EndFails
<1>7. CASE ~slot[on[c]].err
  <2>1. State(c)' = "answered" /\ Val(c)' = slot[on[c]].val
    BY <1>1, <1>4, <1>7 DEF State, Answered
  <2>2. on[c] \in Readers
    BY <1>1, <1>4, <1>7 DEF Wake, Readers, SlotOwners, SlotStates
  <2>3. Asked(on[c]) = Asked(c)
    BY <1>1, <1>4 DEF Asked, SlotOwners
  <2> QED
    BY <1>2, <1>4, <1>5, <2>1, <2>2, <2>3, EndAnswers
<1> QED
  BY <1>6, <1>7

\* The handlers that write, and stuttering.
LEMMA OthersRefine ==
    ASSUME TypeOK, UNCHANGED <<slot, pc, call>>
    PROVE  /\ Readings' = Readings
           /\ [d \in Calls |-> State(d)]' = [d \in Calls |-> State(d)]
           /\ [d \in Calls |-> Asked(d)]' = [d \in Calls |-> Asked(d)]
           /\ [d \in Calls |-> Val(d)]' = [d \in Calls |-> Val(d)]
  BY DEF call, Readings, Readers, State, Asked, Val, Answered

LEMMA StepRefines ==
    TypeOK /\ TypeOK' /\ SlotInv /\ [Next]_vars => [M!Next]_(M!vars)
<1> SUFFICES ASSUME TypeOK, TypeOK', SlotInv, [Next]_vars PROVE [M!Next]_(M!vars)
  OBVIOUS
<1>1. ASSUME NEW c \in Calls, NEW k \in Keys, Hit(c, k) \/ Miss(c, k) PROVE M!Next
  BY <1>1, BeginRefines DEF M!Next
<1>2. ASSUME NEW c \in Calls, Fill(c) PROVE [M!Next]_(M!vars)
  BY <1>2, ReadRefines, FillErrorRefines, PanicRefines DEF Fill, M!Next
<1>3. ASSUME NEW c \in Calls, Finish(c) PROVE [M!Next]_(M!vars)
  BY <1>3, CloseRefines, ForgetRefines, WakeRefines DEF Finish, M!Next
<1>4. ASSUME NEW w \in Writers, Write(w) PROVE M!Write
  BY <1>4, OthersRefine DEF Write, M!Write
<1>5. ASSUME NEW w \in Writers, Flush(w) PROVE M!Flush
  <2>1. gen' - 1 = (gen - 1) + 1 /\ ver' = ver
    BY <1>5 DEF Flush, TypeOK
  <2> QED
    BY <1>5, <2>1, OthersRefine DEF Flush, M!Flush
<1>6. CASE UNCHANGED vars
  <2>1. UNCHANGED <<slot, pc, call, ver, gen>>
    BY <1>6 DEF vars, data
  <2> QED
    BY <2>1, OthersRefine DEF M!vars
<1> QED
  BY <1>1, <1>2, <1>3, <1>4, <1>5, <1>6 DEF Next, Get, M!Next

\* The cache keeps Memo's promise.
THEOREM CacheIsMemo == Spec => ImplementsMemo
<1>1. TypeOK /\ SlotInv /\ [Next]_vars => TypeOK' /\ SlotInv'
  BY StepTypeOK, StepSlotInv
<1> QED
  BY <1>1, InitTypeOK, InitSlotInv, InitRefines, StepRefines, PTL
  DEF Spec, ImplementsMemo, M!Spec
=============================================================================
