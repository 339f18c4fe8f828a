---------------------------- MODULE IoWaitsProofs ----------------------------
(***************************************************************************)
(* The waits of include/usn/io keep their budgets, hear the cancel flag    *)
(* and hand over what they consume, for every timeout, poll interval,      *)
(* batch size and number of arrivals.                                      *)
(***************************************************************************)
EXTENDS IoWaits, SequenceTheorems, TLAPS

\* The second part of a concatenation.
LEMMA ConcatTail ==
    ASSUME NEW S, NEW s \in Seq(S), NEW t \in Seq(S), NEW k \in 1..Len(t)
    PROVE  (s \o t)[Len(s) + k] = t[k]
<1>1. Len(s) + k \in 1..(Len(s) + Len(t)) /\ ~(Len(s) + k <= Len(s))
  OBVIOUS
<1>2. (s \o t)[Len(s) + k] = t[Len(s) + k - Len(s)]
  BY <1>1, ConcatProperties
<1> QED
  BY <1>2

\* What a call's options are.
LEMMA OptsFacts ==
    ASSUME opts \in Options
    PROVE  /\ opts.backend \in {"epoll", "batch", "uring", "busy"}
           /\ opts.timeout \in Int /\ opts.interval \in Int
           /\ opts.cancellable \in BOOLEAN /\ opts.usable \in BOOLEAN
           /\ opts.min \in Nat /\ opts.max \in Nat \ {0}
           /\ Interval \in Nat \ {0}
           /\ opts.interval <= Interval
           /\ opts.timeout < MaxClock
           /\ opts.timeout + Interval <= MaxClock
  BY OptionsAssumption, ClockAssumption DEF Interval

\* A slice is a positive part of what remains, no longer than the poll interval.
LEMMA SliceFacts ==
    ASSUME opts \in Options, remaining \in Int, opts.timeout <= 0 \/ remaining > 0
    PROVE  /\ Slice \in Nat \ {0} /\ Slice <= Interval
           /\ opts.timeout > 0 => Slice <= remaining
  BY OptsFacts DEF Slice, Least

\* The things a call hands over follow the ones handed over before.
LEMMA DeliverExtends ==
    ASSUME NEW n \in Nat, handed \in Seq(Nat), head \in Nat,
           handed' = handed \o [i \in 1..n |-> head + i]
    PROVE  /\ handed' \in Seq(Nat)
           /\ Len(handed') = Len(handed) + n
           /\ head = Len(handed) /\ (\A i \in 1..Len(handed) : handed[i] = i)
                 => \A i \in 1..Len(handed') : handed'[i] = i
<1> DEFINE more == [i \in 1..n |-> head + i]
<1>1. more \in Seq(Nat) /\ Len(more) = n /\ \A i \in 1..n : more[i] = head + i
  OBVIOUS
<1> HIDE DEF more
<1>2. handed' = handed \o more
  BY DEF more
<1>3. handed' \in Seq(Nat) /\ Len(handed') = Len(handed) + n
  BY <1>1, <1>2, ConcatProperties
<1>4. ASSUME head = Len(handed), \A i \in 1..Len(handed) : handed[i] = i,
             NEW i \in 1..(Len(handed) + n)
      PROVE  handed'[i] = i
  <2>1. CASE i <= Len(handed)
    BY <1>1, <1>2, <1>4, <2>1
  <2>2. CASE i > Len(handed)
    <3>1. i - Len(handed) \in 1..n /\ Len(handed) + (i - Len(handed)) = i
      BY <2>2
    <3>2. (handed \o more)[Len(handed) + (i - Len(handed))] = more[i - Len(handed)]
      BY <1>1, <3>1, ConcatTail
    <3> QED
      BY <1>1, <1>2, <1>4, <3>1, <3>2
  <2> QED
    BY <2>1, <2>2
<1> QED
  BY <1>3, <1>4

-----------------------------------------------------------------------------
(***************************************************************************)
(* The steps that several backends share keep the types.                   *)
(***************************************************************************)
\* Return changes where the worker is and the status.
LEMMA ReturnTypes ==
    ASSUME TypeOK, NEW s \in Statuses, Return(s)
    PROVE  TypeOK'
  BY DEF TypeOK, Return, kernel, clocks

\* GoTo changes where the worker is.
LEMMA GoToTypes ==
    ASSUME TypeOK, GoTo(pc'),
           pc' \in {"idle", "top", "expired", "zero", "seen", "poll", "cancelled",
                    "stopped"}
    PROVE  TypeOK'
  BY DEF TypeOK, GoTo, kernel, clocks

\* Sleep changes the nap and what remains of the budget.
LEMMA SleepTypes ==
    ASSUME TypeOK, NEW ms \in Nat \cup {Forever}, Sleep(ms)
    PROVE  TypeOK'
  BY OptsFacts DEF TypeOK, Sleep, kernel, clocks, Forever

\* Deliver hands over the next things that are ready.
LEMMA DeliverTypes ==
    ASSUME TypeOK, NEW n \in Nat, Deliver(n)
    PROVE  TypeOK'
<1>1. handed' \in Seq(Nat)
  BY DeliverExtends DEF TypeOK, Deliver
<1> QED
  BY <1>1 DEF TypeOK, Deliver, clocks, Statuses

\* Collect adds to the completions of the call.
LEMMA CollectTypes ==
    ASSUME TypeOK, Collect
    PROVE  TypeOK'
<1>1. cqes' \in Seq(Nat) /\ pc' \in {"seen", "top"}
  BY DEF TypeOK, Collect
<1> QED
  BY <1>1 DEF TypeOK, Collect, kernel, clocks

\* The poller returns with running_ cleared.
LEMMA PollerReturnsTypes ==
    ASSUME TypeOK, NEW s \in Statuses, PollerReturns(s)
    PROVE  TypeOK'
  BY DEF TypeOK, PollerReturns, kernel, clocks

\* Every step keeps the variables within their types.
LEMMA TypeStep ==
    ASSUME IndInv, [Next]_vars
    PROVE  TypeOK'
<1> USE OptsFacts, ClockAssumption
<1>1. CASE Call
  <2>1. running' \in BOOLEAN
    BY <1>1, Zenon DEF Call, Backend
  <2>2. pc' \in {"zero", "cancelled", "top"}
    BY <1>1, Zenon DEF Call
  <2>3. /\ remaining' = opts.timeout /\ cqes' = <<>> /\ disturbed' = FALSE
        /\ since' = 0 /\ elapsed' = 0
        /\ UNCHANGED <<opts, nap, status, arrived, head, handed, cancel, late>>
    BY <1>1 DEF Call, kernel
  <2>4. 0 \in 0..MaxClock
    OBVIOUS
  <2>5. remaining' \in Int /\ cqes' \in Seq(Nat)
    BY <2>3 DEF IndInv, TypeOK
  <2>6. pc' \in {"idle", "top", "sleep", "idle_sleep", "expired", "interrupted",
                 "zero", "seen", "poll", "cancelled", "returned", "stopped"}
    BY <2>2
  <2> QED
    BY <2>1, <2>3, <2>4, <2>5, <2>6, Zenon DEF IndInv, TypeOK
<1>2. CASE CallUnusable
  BY <1>2, ReturnTypes DEF IndInv, CallUnusable, Statuses
<1>3. CASE ReturnCancelled
  BY <1>3, ReturnTypes DEF IndInv, ReturnCancelled, Statuses
<1>4. CASE Retry
  BY <1>4, GoToTypes DEF IndInv, Retry, GoTo
<1>5. CASE NextCall
  BY <1>5, GoToTypes DEF IndInv, NextCall, GoTo
<1>6. CASE EpollTop
  BY <1>6, ReturnTypes, SleepTypes, SliceFacts DEF IndInv, TypeOK, EpollTop, Statuses
<1>7. CASE EpollReady
  <2>1. Least(opts.max, arrived - head) \in Nat
    BY <1>7, OptsFacts DEF IndInv, TypeOK, HandedInv, EpollReady, Backend, Least
  <2> QED
    BY <1>7, <2>1, DeliverTypes DEF IndInv, EpollReady
<1>8. CASE EpollExpired
  BY <1>8, ReturnTypes, GoToTypes DEF IndInv, EpollExpired, GoTo, Statuses
<1>9. CASE BatchMoves
  <2>1. PICK n \in 1..Least(opts.max, arrived - head) : Deliver(n)
    BY <1>9 DEF BatchMoves
  <2> QED
    BY <2>1, DeliverTypes DEF IndInv
<1>10. CASE BatchBlocked
  BY <1>10, GoToTypes, SleepTypes, SliceFacts, OptsFacts
     DEF IndInv, TypeOK, BatchBlocked, GoTo
<1>11. CASE BatchZero
  BY <1>11, ReturnTypes DEF IndInv, BatchZero, Statuses
<1>12. CASE BatchWakes
  BY <1>12, GoToTypes DEF IndInv, BatchWakes, GoTo
<1>13. CASE UringTop
  BY <1>13, CollectTypes, GoToTypes, ReturnTypes, SleepTypes, SliceFacts
     DEF IndInv, TypeOK, UringTop, Peek, GoTo, Statuses
<1>14. CASE UringReady
  BY <1>14, CollectTypes DEF IndInv, UringReady
<1>15. CASE UringExpired
  BY <1>15, ReturnTypes, GoToTypes DEF IndInv, UringExpired, GoTo, Statuses
<1>16. CASE UringSeen
  BY <1>16 DEF IndInv, TypeOK, kernel, clocks, Statuses, Least, UringSeen
<1>17. CASE BusyTop
  BY <1>17, PollerReturnsTypes, GoToTypes DEF IndInv, BusyTop, GoTo, Statuses
<1>18. CASE BusyData
  BY <1>18 DEF IndInv, TypeOK, kernel, clocks, Statuses, Least, BusyData,
               Pending
<1>19. CASE BusyIdle
  BY <1>19 DEF IndInv, TypeOK, kernel, clocks, Statuses, Least, BusyIdle
<1>20. CASE BusyWakes
  BY <1>20 DEF IndInv, TypeOK, kernel, clocks, Statuses, Least, BusyWakes
<1>21. CASE Expire
  BY <1>21, GoToTypes DEF IndInv, Expire, GoTo
<1>22. CASE Tick
  BY <1>22 DEF IndInv, TypeOK, kernel, clocks, Statuses, Least, Tick, Later
<1>23. CASE Interrupt
  BY <1>23 DEF IndInv, TypeOK, kernel, clocks, Statuses, Least, Interrupt
<1>24. CASE Fail
  BY <1>24, ReturnTypes DEF IndInv, Fail, Statuses
<1>25. CASE Arrive
  BY <1>25 DEF IndInv, TypeOK, kernel, clocks, Statuses, Least, Arrive, Pending
<1>26. CASE SetCancel
  BY <1>26 DEF IndInv, TypeOK, kernel, clocks, Statuses, Least, SetCancel,
               Cancelled
<1>27. CASE Stop
  BY <1>27, Zenon DEF IndInv, TypeOK, kernel, clocks, Stop
<1>28. CASE UNCHANGED vars
  BY <1>28 DEF IndInv, TypeOK, kernel, clocks, Statuses, Least, vars
<1> QED
  BY <1>1, <1>2, <1>3, <1>4, <1>5, <1>6, <1>7, <1>8, <1>9, <1>10, <1>11, <1>12,
     <1>13, <1>14, <1>15, <1>16, <1>17, <1>18, <1>19, <1>20, <1>21, <1>22,
     <1>23, <1>24, <1>25, <1>26, <1>27, <1>28
     DEF Next, WorkerStep

-----------------------------------------------------------------------------
(***************************************************************************)
(* The budget.                                                             *)
(***************************************************************************)

\* A slice is taken out of what remains.
LEMMA SleepKeepsBudget ==
    ASSUME IndInv, ~Backend("busy"), pc = "top", ~(Backend("batch") /\ Pending),
           NEW ms \in Nat, Sleep(ms), opts.timeout > 0, ms <= remaining
    PROVE  BudgetInv'
<1>1. SlicedBudget
  BY DEF IndInv, BudgetInv
<1>2. /\ pc' = "sleep" /\ nap' = ms /\ remaining' = remaining - ms
      /\ UNCHANGED <<opts, elapsed, disturbed, status>>
  BY DEF Sleep, clocks
<1>3. SlicedBudget'
  BY <1>1, <1>2, OptsFacts, ClockAssumption
     DEF IndInv, TypeOK, SlicedBudget, Backend, Asleep, TimedOut
<1> QED
  BY <1>2, <1>3 DEF BudgetInv, Backend

\* A wait may return Timeout when its budget is spent, and anything else any time.
LEMMA ReturnKeepsBudget ==
    ASSUME IndInv, ~Backend("busy"), NEW s \in Statuses, Return(s),
           s = "Timeout" /\ ~disturbed /\ ~Backend("uring") /\ opts.timeout > 0
              => elapsed = opts.timeout
    PROVE  BudgetInv'
<1> SUFFICES ASSUME opts.timeout > 0
             PROVE  SlicedBudget'
  BY DEF BudgetInv, Return, Backend
<1>1. SlicedBudget
  BY DEF IndInv, BudgetInv
<1>2. /\ pc' = "returned" /\ status' = s
      /\ UNCHANGED <<opts, elapsed, disturbed, remaining, nap>>
  BY DEF Return, clocks
<1> QED
  BY <1>1, <1>2, OptsFacts, ClockAssumption
     DEF IndInv, TypeOK, SlicedBudget, Backend, Asleep, TimedOut

\* Every step keeps the account of what was slept and what may still be slept.
LEMMA BudgetStep ==
    ASSUME IndInv, [Next]_vars
    PROVE  BudgetInv'
<1> USE OptsFacts, ClockAssumption
    DEF kernel, clocks, Backend, Least, HandedInv, Interval, Pending, Cancelled
<1>1. CASE Call
  BY <1>1 DEF IndInv, TypeOK, BudgetInv, SlicedBudget, PollerBudget, Asleep,
              TimedOut, Call, Cancelled
<1>2. CASE CallUnusable
  BY <1>2 DEF IndInv, TypeOK, BudgetInv, SlicedBudget, PollerBudget, Asleep,
              TimedOut, CallUnusable, Return
<1>3. CASE ReturnCancelled
  BY <1>3 DEF IndInv, TypeOK, BudgetInv, SlicedBudget, PollerBudget, Asleep,
              TimedOut, ReturnCancelled, Return
<1>4. CASE Retry
  BY <1>4 DEF IndInv, TypeOK, BudgetInv, SlicedBudget, PollerBudget, Asleep,
              TimedOut, Retry, GoTo, Cancelled
<1>5. CASE NextCall
  BY <1>5 DEF IndInv, TypeOK, BudgetInv, SlicedBudget, PollerBudget, Asleep,
              TimedOut, NextCall, GoTo
<1>6. CASE EpollTop
  <2>1. CASE opts.timeout > 0 /\ remaining <= 0 /\ Return("Timeout")
    <3>1. ~disturbed => elapsed = opts.timeout
      BY <1>6, <2>1 DEF IndInv, TypeOK, BudgetInv, SlicedBudget, EpollTop
    <3> QED
      BY <1>6, <2>1, <3>1, ReturnKeepsBudget DEF EpollTop, Statuses
  <2>2. CASE opts.timeout > 0 /\ remaining > 0 /\ Sleep(Slice)
    BY <1>6, <2>2, SliceFacts, SleepKeepsBudget DEF IndInv, TypeOK, EpollTop
  <2>3. CASE opts.timeout <= 0 /\ opts' = opts
    BY <2>3 DEF IndInv, TypeOK, BudgetInv
  <2> QED
    BY <1>6, <2>1, <2>2, <2>3 DEF IndInv, TypeOK, EpollTop, Sleep
<1>7. CASE EpollReady
  BY <1>7 DEF IndInv, TypeOK, BudgetInv, SlicedBudget, PollerBudget, Asleep,
              TimedOut, EpollReady, Deliver, Pending
<1>8. CASE EpollExpired
  <2>1. CASE Return("Timeout") /\ opts.timeout > 0 /\ remaining <= 0
    <3>1. ~disturbed => elapsed = opts.timeout
      BY <1>8, <2>1 DEF IndInv, TypeOK, BudgetInv, SlicedBudget, EpollExpired
    <3> QED
      BY <1>8, <2>1, <3>1, ReturnKeepsBudget DEF EpollExpired, Statuses
  <2>2. CASE Return("Cancelled")
    BY <1>8, <2>2, ReturnKeepsBudget DEF EpollExpired, Statuses
  <2>3. CASE GoTo("top") /\ opts.timeout > 0
    BY <1>8, <2>3 DEF IndInv, TypeOK, BudgetInv, SlicedBudget, Asleep, TimedOut,
                      EpollExpired, GoTo
  <2>4. CASE opts.timeout <= 0 /\ opts' = opts
    BY <2>4 DEF IndInv, TypeOK, BudgetInv
  <2> QED
    BY <1>8, <2>1, <2>2, <2>3, <2>4 DEF IndInv, TypeOK, EpollExpired, GoTo, Return
<1>9. CASE BatchMoves
  BY <1>9 DEF IndInv, TypeOK, BudgetInv, SlicedBudget, PollerBudget, Asleep,
              TimedOut, BatchMoves, Deliver, Pending
<1>10. CASE BatchBlocked
  <2>1. CASE Sleep(Slice) /\ opts.timeout > 0 /\ remaining > 0
    BY <1>10, <2>1, SliceFacts, SleepKeepsBudget DEF IndInv, TypeOK, BatchBlocked
  <2>2. CASE GoTo("zero") /\ opts.timeout > 0 /\ (Cancelled \/ remaining <= 0)
    BY <1>10, <2>2 DEF IndInv, TypeOK, BudgetInv, SlicedBudget, Asleep, TimedOut,
                       BatchBlocked, GoTo
  <2>3. CASE opts.timeout <= 0 /\ opts' = opts
    BY <2>3 DEF IndInv, TypeOK, BudgetInv
  <2> QED
    BY <1>10, <2>1, <2>2, <2>3 DEF IndInv, TypeOK, BatchBlocked, GoTo, Sleep
<1>11. CASE BatchZero
  BY <1>11 DEF IndInv, TypeOK, BudgetInv, SlicedBudget, PollerBudget, Asleep,
               TimedOut, BatchZero, Return, Cancelled
<1>12. CASE BatchWakes
  BY <1>12 DEF IndInv, TypeOK, BudgetInv, SlicedBudget, PollerBudget, Asleep,
               TimedOut, BatchWakes, GoTo, Pending
<1>13. CASE UringTop
  <2>1. CASE opts.timeout <= 0 /\ opts' = opts
    BY <2>1 DEF IndInv, TypeOK, BudgetInv
  <2>2. CASE Sleep(Slice) /\ opts.timeout > 0 /\ remaining > 0
    BY <1>13, <2>2, SliceFacts, SleepKeepsBudget DEF IndInv, TypeOK, UringTop
  <2>3. CASE Return("Timeout")
    BY <1>13, <2>3, ReturnKeepsBudget DEF UringTop, Statuses
  <2>4. CASE Peek /\ opts.timeout > 0
    BY <1>13, <2>4 DEF IndInv, TypeOK, BudgetInv, SlicedBudget, Asleep, UringTop,
                       Peek, Collect, GoTo
  <2> QED
    BY <1>13, <2>1, <2>2, <2>3, <2>4
       DEF IndInv, TypeOK, UringTop, Peek, Collect, GoTo, Sleep
<1>14. CASE UringReady
  BY <1>14 DEF IndInv, TypeOK, BudgetInv, SlicedBudget, PollerBudget, Asleep,
               TimedOut, UringReady, Collect, Pending, Cancelled
<1>15. CASE UringExpired
  BY <1>15 DEF IndInv, TypeOK, BudgetInv, SlicedBudget, PollerBudget, Asleep,
               TimedOut, UringExpired, Return, GoTo
<1>16. CASE UringSeen
  BY <1>16 DEF IndInv, TypeOK, BudgetInv, SlicedBudget, PollerBudget, Asleep,
               TimedOut, UringSeen
<1>17. CASE BusyTop
  <2>1. /\ Backend("busy") /\ pc = "top" /\ UNCHANGED <<opts, since, elapsed>>
        /\ \/ pc' = "returned" /\ (status' = "Timeout" => since >= opts.timeout)
           \/ pc' = "poll" /\ (opts.timeout < 0 \/ since < opts.timeout)
    BY <1>17 DEF BusyTop, PollerReturns, GoTo
  <2>2. CASE opts.timeout > 0
    <3>1. PollerBudget /\ since \in Int /\ elapsed \in Int /\ opts.timeout \in Int
      BY <2>1, <2>2 DEF IndInv, TypeOK, BudgetInv
    <3>2. PollerBudget'
      BY <2>1, <2>2, <3>1 DEF PollerBudget, TimedOut
    <3> QED
      BY <2>1, <3>2 DEF BudgetInv
  <2>3. CASE ~(opts.timeout > 0)
    BY <2>1, <2>3 DEF BudgetInv
  <2> QED
    BY <2>2, <2>3
<1>18. CASE BusyData
  BY <1>18 DEF IndInv, TypeOK, BudgetInv, SlicedBudget, PollerBudget, Asleep,
               TimedOut, BusyData, Pending
<1>19. CASE BusyIdle
  BY <1>19 DEF IndInv, TypeOK, BudgetInv, SlicedBudget, PollerBudget, Asleep,
               TimedOut, BusyIdle
<1>20. CASE BusyWakes
  BY <1>20 DEF IndInv, TypeOK, BudgetInv, SlicedBudget, PollerBudget, Asleep,
               TimedOut, BusyWakes
<1>21. CASE Expire
  BY <1>21 DEF IndInv, TypeOK, BudgetInv, SlicedBudget, PollerBudget, Asleep,
               TimedOut, Expire, GoTo, Pending
<1>22. CASE Tick
  <2>1. /\ pc \in {"sleep", "idle_sleep"} /\ nap > 0 /\ nap' = nap - 1
        /\ Backend("busy") \/ ~Pending
        /\ since' = Later(since) /\ elapsed' = Later(elapsed)
        /\ UNCHANGED <<opts, pc, remaining, status, disturbed>>
    BY <1>22 DEF Tick
  <2>2. /\ since \in 0..MaxClock /\ elapsed \in 0..MaxClock /\ nap \in Int
        /\ remaining \in Int /\ opts.timeout \in Int /\ Interval \in Nat
        /\ opts.timeout < MaxClock /\ opts \in Options
    BY DEF IndInv, TypeOK
  <2>3. CASE opts.timeout > 0 /\ Backend("busy")
    <3>1. PollerBudget
      BY <2>3 DEF IndInv, BudgetInv
    <3>2. PollerBudget'
      BY <2>1, <2>2, <2>3, <3>1 DEF PollerBudget, TimedOut, Later
    <3> QED
      BY <2>1, <2>3, <3>2 DEF BudgetInv
  <2>4. CASE opts.timeout > 0 /\ ~Backend("busy")
    <3>1. SlicedBudget
      BY <2>4 DEF IndInv, BudgetInv
    <3>2. SlicedBudget'
      BY <2>1, <2>2, <2>4, <3>1 DEF SlicedBudget, Asleep, TimedOut, Later
    <3> QED
      BY <2>1, <2>4, <3>2 DEF BudgetInv
  <2>5. CASE ~(opts.timeout > 0)
    BY <2>1, <2>5 DEF BudgetInv
  <2> QED
    BY <2>3, <2>4, <2>5
<1>23. CASE Interrupt
  BY <1>23 DEF IndInv, TypeOK, BudgetInv, SlicedBudget, PollerBudget, Asleep,
               TimedOut, Interrupt
<1>24. CASE Fail
  BY <1>24 DEF IndInv, TypeOK, BudgetInv, SlicedBudget, PollerBudget, Asleep,
               TimedOut, Fail, Return
<1>25. CASE Arrive
  BY <1>25 DEF IndInv, TypeOK, BudgetInv, SlicedBudget, PollerBudget, Asleep,
               TimedOut, Arrive, Pending
<1>26. CASE SetCancel
  BY <1>26 DEF IndInv, TypeOK, BudgetInv, SlicedBudget, PollerBudget, Asleep,
               TimedOut, SetCancel, Cancelled
<1>27. CASE Stop
  BY <1>27 DEF IndInv, TypeOK, BudgetInv, SlicedBudget, PollerBudget, Asleep,
               TimedOut, Stop
<1>28. CASE UNCHANGED vars
  BY <1>28 DEF IndInv, TypeOK, BudgetInv, SlicedBudget, PollerBudget, Asleep,
               TimedOut, vars, Pending, Cancelled
<1> QED
  BY <1>1, <1>2, <1>3, <1>4, <1>5, <1>6, <1>7, <1>8, <1>9, <1>10, <1>11, <1>12,
     <1>13, <1>14, <1>15, <1>16, <1>17, <1>18, <1>19, <1>20, <1>21, <1>22,
     <1>23, <1>24, <1>25, <1>26, <1>27, <1>28
     DEF Next, WorkerStep

-----------------------------------------------------------------------------
\* No step begins a sleep once the worker has slept with the flag set.
LEMMA PromptStep ==
    ASSUME IndInv, [Next]_vars
    PROVE  PromptInv'
<1> USE OptsFacts, ClockAssumption
    DEF kernel, clocks, Backend, Least
<1>1. CASE Call
  BY <1>1 DEF IndInv, TypeOK, PromptInv, HearsCancel, Asleep, Interval, Call,
              Cancelled
<1>2. CASE CallUnusable
  BY <1>2 DEF IndInv, TypeOK, PromptInv, HearsCancel, Asleep, Interval,
              CallUnusable, Return
<1>3. CASE ReturnCancelled
  BY <1>3 DEF IndInv, TypeOK, PromptInv, HearsCancel, Asleep, Interval,
              ReturnCancelled, Return
<1>4. CASE Retry
  BY <1>4 DEF IndInv, TypeOK, PromptInv, HearsCancel, Asleep, Interval, Retry,
              GoTo, Cancelled
<1>5. CASE NextCall
  BY <1>5 DEF IndInv, TypeOK, PromptInv, HearsCancel, Asleep, Interval,
              NextCall, GoTo
<1>6. CASE EpollTop
  <2>1. ASSUME NEW ms \in Nat, Sleep(ms), ms <= Interval
        PROVE  PromptInv'
    BY <1>6, <2>1 DEF IndInv, TypeOK, PromptInv, HearsCancel, Asleep, Interval,
                      EpollTop, Sleep
  <2>2. CASE Return("Timeout")
    BY <1>6, <2>2 DEF IndInv, PromptInv, HearsCancel, Asleep, Interval, Return
  <2> QED
    BY <1>6, <2>1, <2>2, SliceFacts DEF IndInv, TypeOK, EpollTop
<1>7. CASE EpollReady
  BY <1>7 DEF IndInv, TypeOK, PromptInv, HearsCancel, Asleep, Interval,
              EpollReady, Deliver, Pending
<1>8. CASE EpollExpired
  <2>1. /\ UNCHANGED <<opts, nap, late, cancel>>
        /\ pc' = "returned" \/ (pc' = "top" /\ ~Cancelled)
    BY <1>8 DEF EpollExpired, Return, GoTo, clocks
  <2> QED
    BY <2>1 DEF IndInv, TypeOK, PromptInv, HearsCancel, Asleep, Interval, Cancelled
<1>9. CASE BatchMoves
  BY <1>9 DEF IndInv, TypeOK, PromptInv, HearsCancel, Asleep, Interval,
              BatchMoves, Deliver, Pending
<1>10. CASE BatchBlocked
  <2>1. CASE Sleep(Slice) /\ ~Cancelled /\ (opts.timeout < 0 \/ remaining > 0)
    <3>1. Slice \in Nat /\ Slice <= Interval
      BY <2>1, SliceFacts DEF IndInv, TypeOK
    <3> QED
      BY <2>1, <3>1 DEF IndInv, TypeOK, PromptInv, HearsCancel, Asleep, Interval,
                        Cancelled, Sleep
  <2>2. CASE GoTo("zero")
    BY <2>2 DEF IndInv, PromptInv, HearsCancel, Asleep, Interval, GoTo
  <2> QED
    BY <1>10, <2>1, <2>2 DEF BatchBlocked
<1>11. CASE BatchZero
  BY <1>11 DEF IndInv, TypeOK, PromptInv, HearsCancel, Asleep, Interval,
               BatchZero, Return, Cancelled
<1>12. CASE BatchWakes
  BY <1>12 DEF IndInv, TypeOK, PromptInv, HearsCancel, Asleep, Interval,
               BatchWakes, GoTo, Pending
<1>13. CASE UringTop
  <2> USE DEF UringTop
  <2>1. CASE Peek
    BY <1>13, <2>1 DEF IndInv, TypeOK, PromptInv, HearsCancel, Asleep, Interval,
                      Peek, Collect, GoTo
  <2>2. CASE Return("Timeout")
    BY <2>2 DEF IndInv, PromptInv, HearsCancel, Asleep, Interval, Return
  <2>3. CASE Sleep(Slice) /\ opts.timeout > 0 /\ remaining > 0
    <3>1. Slice \in Nat /\ Slice <= Interval
      BY <2>3, SliceFacts DEF IndInv, TypeOK
    <3> QED
      BY <1>13, <2>3, <3>1 DEF IndInv, TypeOK, PromptInv, HearsCancel, Asleep,
                              Interval, Sleep
  <2>4. CASE Sleep(Forever) /\ opts.timeout < 0
    BY <1>13, <2>4 DEF IndInv, PromptInv, HearsCancel, Sleep
  <2> QED
    BY <1>13, <2>1, <2>2, <2>3, <2>4
<1>14. CASE UringReady
  BY <1>14 DEF IndInv, TypeOK, PromptInv, HearsCancel, Asleep, Interval,
               UringReady, Collect, Pending, Cancelled
<1>15. CASE UringExpired
  BY <1>15 DEF IndInv, TypeOK, PromptInv, HearsCancel, Asleep, Interval,
               UringExpired, Return, GoTo
<1>16. CASE UringSeen
  BY <1>16 DEF IndInv, TypeOK, PromptInv, HearsCancel, Asleep, Interval,
               UringSeen
<1>17. CASE BusyTop
  <2>1. /\ Backend("busy") /\ UNCHANGED <<opts, nap, late, cancel>>
        /\ pc' = "returned" \/ (pc' = "poll" /\ ~Cancelled)
    BY <1>17 DEF BusyTop, PollerReturns, GoTo, clocks
  <2> QED
    BY <2>1 DEF IndInv, TypeOK, PromptInv, HearsCancel, Asleep, Interval, Cancelled,
                Backend
<1>18. CASE BusyData
  BY <1>18 DEF IndInv, TypeOK, PromptInv, HearsCancel, Asleep, Interval,
               BusyData, Pending
<1>19. CASE BusyIdle
  BY <1>19 DEF IndInv, TypeOK, PromptInv, HearsCancel, Asleep, Interval,
               BusyIdle
<1>20. CASE BusyWakes
  BY <1>20 DEF IndInv, TypeOK, PromptInv, HearsCancel, Asleep, Interval,
               BusyWakes
<1>21. CASE Expire
  BY <1>21 DEF IndInv, TypeOK, PromptInv, HearsCancel, Asleep, Interval,
               Expire, GoTo, Pending
<1>22. CASE Tick
  BY <1>22 DEF IndInv, TypeOK, PromptInv, HearsCancel, Asleep, Interval, Tick,
               Later
<1>23. CASE Interrupt
  BY <1>23 DEF IndInv, TypeOK, PromptInv, HearsCancel, Asleep, Interval,
               Interrupt
<1>24. CASE Fail
  BY <1>24 DEF IndInv, TypeOK, PromptInv, HearsCancel, Asleep, Interval, Fail,
               Return
<1>25. CASE Arrive
  BY <1>25 DEF IndInv, TypeOK, PromptInv, HearsCancel, Asleep, Interval,
               Arrive, Pending
<1>26. CASE SetCancel
  BY <1>26 DEF IndInv, TypeOK, PromptInv, HearsCancel, Asleep, Interval,
               SetCancel, Cancelled
<1>27. CASE Stop
  BY <1>27 DEF IndInv, TypeOK, PromptInv, HearsCancel, Asleep, Interval, Stop
<1>28. CASE UNCHANGED vars
  BY <1>28 DEF IndInv, TypeOK, PromptInv, HearsCancel, Asleep, Interval, vars,
               Pending, Cancelled
<1> QED
  BY <1>1, <1>2, <1>3, <1>4, <1>5, <1>6, <1>7, <1>8, <1>9, <1>10, <1>11, <1>12,
     <1>13, <1>14, <1>15, <1>16, <1>17, <1>18, <1>19, <1>20, <1>21, <1>22,
     <1>23, <1>24, <1>25, <1>26, <1>27, <1>28
     DEF Next, WorkerStep

-----------------------------------------------------------------------------
(***************************************************************************)
(* Handing over.                                                           *)
(***************************************************************************)

\* Delivering the next n things that are ready extends what was handed over.
LEMMA DeliverKeepsHanded ==
    ASSUME IndInv, NEW n \in Nat, head + n <= arrived, Deliver(n)
    PROVE  HandedInv'
<1> SUFFICES ASSUME Backend("uring") => opts.max = 1
             PROVE  HandedInv'
  BY DEF HandedInv, Deliver, Backend
<1>1. /\ handed' = handed \o [i \in 1..n |-> head + i] /\ head' = head + n
      /\ arrived' = arrived /\ pc' = "returned"
  BY DEF Deliver
<1>2. /\ handed \in Seq(Nat) /\ head = Len(handed) /\ head \in Nat
      /\ \A i \in 1..Len(handed) : handed[i] = i
  BY DEF IndInv, TypeOK, HandedInv
<1>3. /\ Len(handed') = Len(handed) + n
      /\ \A i \in 1..Len(handed') : handed'[i] = i
  BY <1>1, <1>2, DeliverExtends
<1> QED
  BY <1>1, <1>2, <1>3 DEF HandedInv

\* A ring asked for one completion at a time stops collecting after the first.
LEMMA CollectKeepsHanded ==
    ASSUME IndInv, Collect, Backend("uring"), pc \in {"top", "sleep"}
    PROVE  HandedInv'
<1> SUFFICES ASSUME opts.max = 1
             PROVE  HandedInv'
  BY DEF HandedInv, Collect, Backend
<1>1. /\ cqes = <<>> /\ head < arrived
      /\ cqes' = Append(cqes, head + 1)
      /\ UNCHANGED <<opts, arrived, head, handed>>
  BY DEF IndInv, TypeOK, HandedInv, Collect, Pending, kernel
<1>2. cqes' = <<head + 1>> /\ Len(cqes') = 1
  BY <1>1
<1> QED
  BY <1>1, <1>2 DEF IndInv, TypeOK, HandedInv, Collect, Backend

\* Every step hands over what it consumes, and nothing else.
LEMMA HandedStep ==
    ASSUME IndInv, [Next]_vars
    PROVE  HandedInv'
<1> USE OptsFacts
    DEF kernel, clocks, Backend
<1>1. CASE Call
  BY <1>1 DEF IndInv, TypeOK, HandedInv, Call, Cancelled
<1>2. CASE CallUnusable
  BY <1>2 DEF IndInv, TypeOK, HandedInv, CallUnusable, Return
<1>3. CASE ReturnCancelled
  BY <1>3 DEF IndInv, TypeOK, HandedInv, ReturnCancelled, Return
<1>4. CASE Retry
  BY <1>4 DEF IndInv, TypeOK, HandedInv, Retry, GoTo, Cancelled
<1>5. CASE NextCall
  BY <1>5 DEF IndInv, TypeOK, HandedInv, NextCall, GoTo
<1>6. CASE EpollTop
  BY <1>6 DEF IndInv, TypeOK, HandedInv, EpollTop, Return, Sleep
<1>7. CASE EpollReady
  <2> DEFINE n == Least(opts.max, arrived - head)
  <2>1. n \in Nat /\ head + n <= arrived /\ Deliver(n) /\ opts' = opts
    BY <1>7 DEF IndInv, TypeOK, HandedInv, EpollReady, Least, Deliver
  <2> HIDE DEF n
  <2> QED
    BY <1>7, <2>1, DeliverKeepsHanded DEF EpollReady
<1>8. CASE EpollExpired
  BY <1>8 DEF IndInv, TypeOK, HandedInv, EpollExpired, Return, GoTo, Cancelled
<1>9. CASE BatchMoves
  <2>1. PICK n \in 1..Least(opts.max, arrived - head) : Deliver(n)
    BY <1>9 DEF BatchMoves
  <2>2. n \in Nat /\ head + n <= arrived
    BY <1>9 DEF IndInv, TypeOK, HandedInv, BatchMoves, Least
  <2> QED
    BY <2>1, <2>2, DeliverKeepsHanded
<1>10. CASE BatchBlocked
  BY <1>10 DEF IndInv, TypeOK, HandedInv, BatchBlocked, GoTo, Sleep, Cancelled,
               Pending
<1>11. CASE BatchZero
  BY <1>11 DEF IndInv, TypeOK, HandedInv, BatchZero, Return, Cancelled
<1>12. CASE BatchWakes
  BY <1>12 DEF IndInv, TypeOK, HandedInv, BatchWakes, GoTo, Pending
<1>13. CASE UringTop
  <2>1. CASE Collect
    BY <1>13, <2>1, CollectKeepsHanded DEF UringTop
  <2>2. CASE ~Collect
    BY <1>13, <2>2 DEF IndInv, TypeOK, HandedInv, UringTop, Peek, GoTo, Return, Sleep
  <2> QED
    BY <2>1, <2>2
<1>14. CASE UringReady
  BY <1>14, CollectKeepsHanded DEF UringReady
<1>15. CASE UringExpired
  BY <1>15 DEF IndInv, TypeOK, HandedInv, UringExpired, Return, GoTo
<1>16. CASE UringSeen
  <2> SUFFICES ASSUME opts.max = 1
               PROVE  HandedInv'
    BY <1>16 DEF HandedInv, UringSeen
  <2>1. /\ cqes = <<head + 1>> /\ head < arrived /\ head = Len(handed)
        /\ head \in Nat /\ arrived \in 0..MaxArrivals
        /\ handed \in Seq(Nat) /\ \A i \in 1..Len(handed) : handed[i] = i
    BY <1>16 DEF IndInv, TypeOK, HandedInv, UringSeen
  <2>2. head' = head + 1 /\ handed' = Append(handed, head + 1)
    BY <1>16, <2>1, ClockAssumption DEF UringSeen, Least
  <2>3. pc' = "returned" /\ arrived' = arrived
    BY <1>16 DEF UringSeen
  <2> QED
    BY <2>1, <2>2, <2>3 DEF HandedInv
<1>17. CASE BusyTop
  BY <1>17 DEF IndInv, TypeOK, HandedInv, BusyTop, PollerReturns, GoTo,
               Cancelled
<1>18. CASE BusyData
  BY <1>18 DEF IndInv, TypeOK, HandedInv, BusyData, Pending
<1>19. CASE BusyIdle
  BY <1>19 DEF IndInv, TypeOK, HandedInv, BusyIdle
<1>20. CASE BusyWakes
  BY <1>20 DEF IndInv, TypeOK, HandedInv, BusyWakes
<1>21. CASE Expire
  BY <1>21 DEF IndInv, TypeOK, HandedInv, Expire, GoTo, Pending
<1>22. CASE Tick
  BY <1>22 DEF IndInv, TypeOK, HandedInv, Tick, Later
<1>23. CASE Interrupt
  BY <1>23 DEF IndInv, TypeOK, HandedInv, Interrupt
<1>24. CASE Fail
  BY <1>24 DEF IndInv, TypeOK, HandedInv, Fail, Return
<1>25. CASE Arrive
  BY <1>25 DEF IndInv, TypeOK, HandedInv, Arrive, Pending
<1>26. CASE SetCancel
  BY <1>26 DEF IndInv, TypeOK, HandedInv, SetCancel, Cancelled
<1>27. CASE Stop
  BY <1>27 DEF IndInv, TypeOK, HandedInv, Stop
<1>28. CASE UNCHANGED vars
  BY <1>28 DEF IndInv, TypeOK, HandedInv, vars, Pending, Cancelled
<1> QED
  BY <1>1, <1>2, <1>3, <1>4, <1>5, <1>6, <1>7, <1>8, <1>9, <1>10, <1>11, <1>12,
     <1>13, <1>14, <1>15, <1>16, <1>17, <1>18, <1>19, <1>20, <1>21, <1>22,
     <1>23, <1>24, <1>25, <1>26, <1>27, <1>28
     DEF Next, WorkerStep

-----------------------------------------------------------------------------
(***************************************************************************)
(* The theorems.                                                           *)
(***************************************************************************)

\* Before the first call nothing has been slept, cancelled or handed over.
LEMMA InitIndInv == Init => IndInv
<1> SUFFICES ASSUME Init
             PROVE  IndInv
  OBVIOUS
<1> USE OptsFacts, ClockAssumption DEF Init
<1>1. TypeOK
  <2>1. 0 \in 0..MaxClock /\ 0 \in 0..MaxArrivals /\ 0 \in Nat /\ 0 \in Int
    OBVIOUS
  <2>2. cqes \in Seq(Nat) /\ handed \in Seq(Nat)
    OBVIOUS
  <2> QED
    BY <2>1, <2>2, Zenon DEF TypeOK, Statuses
<1>2. BudgetInv
  BY DEF BudgetInv, SlicedBudget, PollerBudget, Asleep, TimedOut
<1>3. PromptInv
  BY DEF PromptInv, Asleep
<1>4. HandedInv
  BY DEF HandedInv
<1> QED
  BY <1>1, <1>2, <1>3, <1>4 DEF IndInv

\* Every step of the worker, the kernel and the other threads keeps the invariant.
LEMMA NextIndInv == IndInv /\ [Next]_vars => IndInv'
  BY TypeStep, BudgetStep, PromptStep, HandedStep DEF IndInv

\* In every behaviour of every backend, whatever the options, the account of the
\* budget, the reaction to the cancel flag and the hand-over are as IndInv says.
THEOREM WaitsInvariant == Spec => []IndInv
  BY InitIndInv, NextIndInv, PTL DEF Spec

\* No wait sleeps beyond its budget (the poller by less than one interval beyond),
\* and Timeout is returned only when the budget is spent: wait_with_options,
\* recv_batch, send_batch, wait_completions_with_options, start_with_control.
THEOREM WaitsBudgetIsKept == Spec => []BudgetIsKept
<1>1. IndInv => BudgetIsKept
  <2> SUFFICES ASSUME IndInv, opts.timeout > 0
               PROVE  BudgetIsKept
    BY DEF BudgetIsKept
  <2>1. CASE Backend("busy")
    <3>1. PollerBudget
      BY <2>1 DEF IndInv, BudgetInv
    <3> QED
      BY <2>1, <3>1 DEF PollerBudget, TimedOut, BudgetIsKept
  <2>2. CASE ~Backend("busy")
    <3>1. SlicedBudget
      BY <2>2 DEF IndInv, BudgetInv
    <3>2. elapsed <= opts.timeout
      BY <3>1, OptsFacts, ClockAssumption DEF IndInv, TypeOK, SlicedBudget
    <3>3. TimedOut /\ ~disturbed /\ ~Backend("uring") => elapsed >= opts.timeout
      BY <3>1, OptsFacts, ClockAssumption DEF IndInv, TypeOK, SlicedBudget
    <3> QED
      BY <2>2, <3>2, <3>3 DEF TimedOut, BudgetIsKept
  <2> QED
    BY <2>1, <2>2
<1> QED
  BY <1>1, WaitsInvariant, PTL

\* A worker told to stop through the cancel flag sleeps for one more poll interval
\* at most, over all its calls.
THEOREM WaitsCancelIsPrompt == Spec => []CancelIsPrompt
<1>1. IndInv => CancelIsPrompt
  BY DEF IndInv, PromptInv, CancelIsPrompt
<1> QED
  BY <1>1, WaitsInvariant, PTL

\* What becomes ready is handed over once, in order and never ahead of its arrival.
THEOREM WaitsHandedOnce == Spec => []HandedOnce
<1>1. IndInv => HandedOnce
  BY DEF IndInv, HandedInv, HandedOnce
<1> QED
  BY <1>1, WaitsInvariant, PTL
=============================================================================
