------------------------------- MODULE IoWaits -------------------------------
(***************************************************************************)
(* The waiting calls of include/usn/io, and the loop that drives them by   *)
(* the unified status of io_status.hpp.  One worker thread calls one       *)
(* backend with fixed options again and again:                             *)
(*   epoll   EpollWrapper::wait_with_options                               *)
(*   batch   recv_batch and send_batch, over recvmmsg_with_policy and      *)
(*           sendmmsg_with_policy                                          *)
(*   uring   IoUringWrapper::wait_completions_with_options                 *)
(*   busy    BusyPoller::start_with_control                                *)
(* while other threads set the cancel flag or call stop(), and the kernel  *)
(* (external) makes things ready, interrupts a sleep, or fails a call.     *)
(*                                                                         *)
(* Time is counted in milliseconds and passes only while the worker        *)
(* sleeps; a worker that has something to read does not sleep on.          *)
(***************************************************************************)
EXTENDS Integers, Sequences

CONSTANTS
    Options,        \* the calls considered, as records
    MaxIdle,        \* BusyPollConfig::max_idle_time
    MaxArrivals,    \* bound on what becomes ready in one behaviour
    MaxClock        \* where the clocks stop counting

\* UnifiedIOStatus
Statuses == {"Ok", "Timeout", "Cancelled", "WouldBlock", "NotInitialized",
             "Stopped", "SysError"}

\* timeout < 0 waits without limit; cancellable: cancel_flag is not null;
\* min, max: min_completions and max_completions, max_events or the batch size;
\* usable: initialized_, for io_uring.
ASSUME OptionsAssumption ==
    Options \subseteq [backend : {"epoll", "batch", "uring", "busy"},
                       timeout : Int, interval : Int, cancellable : BOOLEAN,
                       min : Nat, max : Nat \ {0}, usable : BOOLEAN]
ASSUME ClockAssumption ==
    /\ MaxIdle \in Nat /\ MaxArrivals \in Nat /\ MaxClock \in Nat
    /\ \A o \in Options : o.timeout < MaxClock /\ o.timeout + o.interval < MaxClock

VARIABLES
    opts,       \* the options of every call
    pc,         \* where the worker is
    remaining,  \* remaining_ms
    nap,        \* what is left of the current sleep
    cqes,       \* the completions collected by the current call
    status,     \* the unified status of the last call
    arrived,    \* how many things have become ready
    head,       \* the first of them not yet consumed, from 0
    handed,     \* history: what the calls handed to the worker
    cancel,     \* the cancel flag
    running,    \* running_ of the poller
    since,      \* time since the poller's start_time
    elapsed,    \* time since the call began
    late,       \* time slept with the cancel flag set
    disturbed   \* a sleep of this call ended early for nothing

clocks == <<since, elapsed, late, disturbed>>
kernel == <<arrived, head, handed>>
vars == <<opts, pc, remaining, nap, cqes, status, kernel, cancel, running, clocks>>

Forever == -1

\* poll_interval_ms > 0 ? poll_interval_ms : 1
Interval == IF opts.interval > 0 THEN opts.interval ELSE 1

Least(a, b) == IF a < b THEN a ELSE b

\* cancel_flag != nullptr && cancel_flag->load()
Cancelled == opts.cancellable /\ cancel

\* Something is ready.  For io_uring: the head of the completion queue is not
\* at its tail.
Pending == head # arrived

Backend(b) == opts.backend = b

Init ==
    /\ opts \in Options
    /\ pc = "idle" /\ remaining = 0 /\ nap = 0 /\ cqes = <<>> /\ status = "Ok"
    /\ arrived = 0 /\ head = 0 /\ handed = <<>>
    /\ cancel = FALSE /\ running = FALSE
    /\ since = 0 /\ elapsed = 0 /\ late = 0 /\ disturbed = FALSE

-----------------------------------------------------------------------------
(***************************************************************************)
(* Steps shared by the backends.                                           *)
(***************************************************************************)

\* The call returns s; nothing more is consumed.
Return(s) ==
    /\ pc' = "returned"
    /\ status' = s
    /\ UNCHANGED <<opts, remaining, nap, cqes, kernel, cancel, running, clocks>>

GoTo(label) ==
    /\ pc' = label
    /\ UNCHANGED <<opts, remaining, nap, cqes, status, kernel, cancel, running,
                   clocks>>

\* The call returns Ok with the next n things that are ready.
Deliver(n) ==
    /\ pc' = "returned"
    /\ status' = "Ok"
    /\ head' = head + n
    /\ handed' = handed \o [i \in 1..n |-> head + i]
    /\ UNCHANGED <<opts, remaining, nap, cqes, arrived, cancel, running, clocks>>

\* A wait that forgets what it has slept already.
SleepUnpaid(ms) ==
    /\ pc' = "sleep"
    /\ nap' = ms
    /\ UNCHANGED <<opts, remaining, cqes, status, kernel, cancel, running, clocks>>

\* The worker sleeps; a bounded wait pays for the whole sleep in advance.
Sleep(ms) ==
    /\ pc' = "sleep"
    /\ nap' = ms
    /\ remaining' = IF opts.timeout > 0 THEN remaining - ms ELSE remaining
    /\ UNCHANGED <<opts, cqes, status, kernel, cancel, running, clocks>>

\* The next slice of a bounded or unbounded wait.
Slice == IF opts.timeout > 0 THEN Least(Interval, remaining) ELSE Interval

\* The call begins, with a look at the flag in every backend but the poller,
\* which sets running_.
Call ==
    /\ pc = "idle"
    /\ opts.usable
    /\ pc' = IF Cancelled /\ ~Backend("busy")
             THEN IF Backend("batch") THEN "zero" ELSE "cancelled"
             ELSE "top"
    /\ remaining' = opts.timeout
    /\ cqes' = <<>>
    /\ running' = Backend("busy")
    /\ since' = 0 /\ elapsed' = 0 /\ disturbed' = FALSE
    /\ UNCHANGED <<opts, nap, status, kernel, cancel, late>>

\* The call of an io_uring that could not be set up.
CallUnusable ==
    /\ pc = "idle"
    /\ ~opts.usable
    /\ Return("NotInitialized")

\* The flag was set when a call looked at it.
ReturnCancelled ==
    /\ pc = "cancelled"
    /\ Return("Cancelled")

-----------------------------------------------------------------------------
(***************************************************************************)
(* EpollWrapper::wait_with_options                                         *)
(***************************************************************************)

\* The top of the loop: an exhausted budget (left by an interrupted sleep), or
\* epoll_wait for the next slice; with timeout 0 it does not sleep.
EpollTop ==
    /\ Backend("epoll") /\ pc = "top"
    /\ \/ opts.timeout > 0 /\ remaining <= 0 /\ Return("Timeout")
       \/ opts.timeout > 0 /\ remaining > 0 /\ Sleep(Slice)
       \/ opts.timeout = 0 /\ Sleep(0)
       \/ opts.timeout < 0 /\ Sleep(Slice)

\* Events cleared on the way out.
EpollReadyCleared ==
    /\ Backend("epoll") /\ pc = "sleep" /\ Pending
    /\ pc' = "returned" /\ status' = "Ok"
    /\ head' = head + Least(opts.max, arrived - head)
    /\ UNCHANGED <<opts, remaining, nap, cqes, arrived, handed, cancel, running,
                   clocks>>

\* epoll_wait returns events.
EpollReady ==
    /\ Backend("epoll") /\ pc = "sleep" /\ Pending
    /\ Deliver(Least(opts.max, arrived - head))

\* A wait that hears the flag only when it is called.
EpollExpiredDeaf ==
    /\ Backend("epoll") /\ pc = "expired"
    /\ \/ opts.timeout >= 0 /\ remaining <= 0 /\ Return("Timeout")
       \/ (opts.timeout < 0 \/ remaining > 0) /\ GoTo("top")

\* epoll_wait returned 0: the flag first, then the budget.
EpollExpired ==
    /\ Backend("epoll") /\ pc = "expired"
    /\ \/ Cancelled /\ Return("Cancelled")
       \/ ~Cancelled /\ opts.timeout >= 0 /\ remaining <= 0 /\ Return("Timeout")
       \/ ~Cancelled /\ (opts.timeout < 0 \/ remaining > 0) /\ GoTo("top")

\* A signal taken for nothing.
RetryDeaf ==
    /\ pc = "interrupted"
    /\ GoTo("top")

\* epoll_wait or io_uring_wait_cqe was interrupted: the flag, else once more.
Retry ==
    /\ pc = "interrupted"
    /\ GoTo(IF Cancelled THEN "cancelled" ELSE "top")

-----------------------------------------------------------------------------
(***************************************************************************)
(* BatchRecv::recv_batch and BatchSend::send_batch                         *)
(***************************************************************************)

\* recvmmsg or sendmmsg with MSG_DONTWAIT moves what it can, up to the batch.
BatchMoves ==
    /\ Backend("batch") /\ pc = "top" /\ Pending
    /\ \E n \in 1..Least(opts.max, arrived - head) : Deliver(n)

\* It would block: give up at once, on the flag, or at the end of the budget,
\* else poll for the next slice.
BatchBlocked ==
    /\ Backend("batch") /\ pc = "top" /\ ~Pending
    /\ \/ /\ opts.timeout = 0 \/ Cancelled \/ (opts.timeout > 0 /\ remaining <= 0)
          /\ GoTo("zero")
       \/ /\ opts.timeout # 0 /\ ~Cancelled /\ (opts.timeout < 0 \/ remaining > 0)
          /\ Sleep(Slice)

\* The policy returned 0; recv_batch and send_batch read the flag once more to
\* tell why.
BatchZero ==
    /\ Backend("batch") /\ pc = "zero"
    /\ Return(IF Cancelled THEN "Cancelled"
              ELSE IF opts.timeout > 0 THEN "Timeout" ELSE "WouldBlock")

\* poll returned, for whatever reason: the loop tries again.
BatchWakes ==
    /\ Backend("batch") /\ pc = "sleep" /\ (Pending \/ nap = 0)
    /\ GoTo("top")

-----------------------------------------------------------------------------
(***************************************************************************)
(* IoUringWrapper::wait_completions_with_options                           *)
(***************************************************************************)

\* The head of the completion queue is collected; it is not consumed yet.
Collect ==
    /\ Pending
    /\ cqes' = Append(cqes, head + 1)
    /\ pc' = IF Cancelled \/ Len(cqes') = opts.max THEN "seen" ELSE "top"
    /\ UNCHANGED <<opts, remaining, nap, status, kernel, cancel, running, clocks>>

\* io_uring_peek_cqe: the head, or EAGAIN.
Peek == Collect \/ (~Pending /\ GoTo("expired"))

\* The top of the loop: wait for the first min_completions, peek for the rest.
\* A wait without limit sleeps in io_uring_wait_cqe, where no flag is seen.
UringTop ==
    /\ Backend("uring") /\ pc = "top"
    /\ \/ (Len(cqes) >= opts.min \/ opts.timeout = 0) /\ Peek
       \/ /\ Len(cqes) < opts.min
          /\ \/ opts.timeout > 0 /\ remaining <= 0 /\ Return("Timeout")
             \/ opts.timeout > 0 /\ remaining > 0 /\ Sleep(Slice)
             \/ opts.timeout < 0 /\ Sleep(Forever)

\* The wait finds a completion.
UringReady ==
    /\ Backend("uring") /\ pc = "sleep"
    /\ Collect

\* ETIME or EAGAIN: without a completion the call returns, with the budget
\* spent or not.
UringExpired ==
    /\ Backend("uring") /\ pc = "expired"
    /\ \/ Cancelled /\ Return("Cancelled")
       \/ /\ ~Cancelled /\ cqes = <<>>
          /\ Return(IF opts.timeout >= 0 THEN "Timeout" ELSE "Ok")
       \/ ~Cancelled /\ cqes # <<>> /\ GoTo("seen")

\* Completions handed over and left in the queue.
UringSeenNever ==
    /\ Backend("uring") /\ pc = "seen"
    /\ handed' = handed \o cqes
    /\ pc' = "returned" /\ status' = "Ok"
    /\ UNCHANGED <<opts, remaining, nap, cqes, arrived, head, cancel, running, clocks>>

\* io_uring_cqe_seen once for every entry of cqes: the head moves by as many,
\* also when they are one completion collected again and again.  A head past
\* all that ever arrives stays there (MaxArrivals), and so does handed.
UringSeen ==
    /\ Backend("uring") /\ pc = "seen"
    /\ head' = Least(head + Len(cqes), MaxArrivals + 1)
    /\ handed' = IF Len(handed) > MaxArrivals THEN handed ELSE handed \o cqes
    /\ pc' = "returned" /\ status' = "Ok"
    /\ UNCHANGED <<opts, remaining, nap, cqes, arrived, cancel, running, clocks>>

-----------------------------------------------------------------------------
(***************************************************************************)
(* BusyPoller::start_with_control                                          *)
(***************************************************************************)

\* The poller leaves its loop with s.
PollerReturns(s) ==
    /\ pc' = "returned" /\ status' = s
    /\ running' = FALSE
    /\ UNCHANGED <<opts, remaining, nap, cqes, kernel, cancel, clocks>>

\* A poller that lets the timeout pass before it notices.
BusyTopLate ==
    /\ Backend("busy") /\ pc = "top"
    /\ \/ ~running /\ PollerReturns("Stopped")
       \/ running /\ Cancelled /\ PollerReturns("Cancelled")
       \/ /\ running /\ ~Cancelled
          /\ \/ opts.timeout >= 0 /\ since > opts.timeout /\ PollerReturns("Timeout")
             \/ (opts.timeout < 0 \/ since <= opts.timeout) /\ GoTo("poll")

\* running_, the flag and the timeout, in this order; else poll_func.
BusyTop ==
    /\ Backend("busy") /\ pc = "top"
    /\ \/ ~running /\ PollerReturns("Stopped")
       \/ running /\ Cancelled /\ PollerReturns("Cancelled")
       \/ /\ running /\ ~Cancelled
          /\ \/ opts.timeout >= 0 /\ since >= opts.timeout /\ PollerReturns("Timeout")
             \/ (opts.timeout < 0 \/ since < opts.timeout) /\ GoTo("poll")

\* poll_func finds something.
BusyData ==
    /\ Backend("busy") /\ pc = "poll" /\ Pending
    /\ head' = head + 1
    /\ handed' = Append(handed, head + 1)
    /\ pc' = "top"
    /\ UNCHANGED <<opts, remaining, nap, cqes, status, arrived, cancel, running,
                   clocks>>

\* poll_func finds nothing: sleep_for(poll_interval), which returns at once for an
\* interval below zero; after max_idle_time also to start the clock anew.
BusyIdle ==
    /\ Backend("busy") /\ pc = "poll" /\ ~Pending
    /\ pc' = IF since >= MaxIdle THEN "idle_sleep" ELSE "sleep"
    /\ nap' = IF opts.interval > 0 THEN opts.interval ELSE 0
    /\ UNCHANGED <<opts, remaining, cqes, status, kernel, cancel, running, clocks>>

\* The sleep is over.
BusyWakes ==
    /\ Backend("busy") /\ pc \in {"sleep", "idle_sleep"} /\ nap = 0
    /\ pc' = "top"
    /\ since' = IF pc = "idle_sleep" THEN 0 ELSE since
    /\ UNCHANGED <<opts, remaining, nap, cqes, status, kernel, cancel, running,
                   elapsed, late, disturbed>>

-----------------------------------------------------------------------------
(***************************************************************************)
(* The loop around the calls.                                              *)
(***************************************************************************)

\* classify_loop_control of the unified status
Classify(s) ==
    CASE s = "Ok"                       -> "ContinueWork"
      [] s \in {"Timeout", "WouldBlock"} -> "ContinueIdle"
      [] OTHER                          -> "Stop"

NextCall ==
    /\ pc = "returned"
    /\ GoTo(IF Classify(status) = "Stop" THEN "stopped" ELSE "idle")

WorkerStep ==
    \/ Call \/ CallUnusable \/ ReturnCancelled \/ Retry \/ NextCall
    \/ EpollTop \/ EpollReady \/ EpollExpired
    \/ BatchMoves \/ BatchBlocked \/ BatchZero \/ BatchWakes
    \/ UringTop \/ UringReady \/ UringExpired \/ UringSeen
    \/ BusyTop \/ BusyData \/ BusyIdle \/ BusyWakes

-----------------------------------------------------------------------------
(***************************************************************************)
(* The kernel (external) and the other threads.                            *)
(***************************************************************************)
Later(clock) == Least(clock + 1, MaxClock)

\* The sleep of epoll_wait or io_uring_wait_cqe_timeout is over.
Expire ==
    /\ opts.backend \in {"epoll", "uring"}
    /\ pc = "sleep" /\ nap = 0 /\ ~Pending
    /\ GoTo("expired")

\* A millisecond of sleep.  What becomes ready ends every sleep but the poller's.
Tick ==
    /\ pc \in {"sleep", "idle_sleep"}
    /\ nap > 0
    /\ Backend("busy") \/ ~Pending
    /\ nap' = nap - 1
    /\ since' = Later(since)
    /\ elapsed' = Later(elapsed)
    /\ late' = IF cancel THEN Later(late) ELSE late
    /\ UNCHANGED <<opts, pc, remaining, cqes, status, kernel, cancel, running,
                   disturbed>>

\* A signal, or for poll a readiness that is gone again, ends a sleep early.
Interrupt ==
    /\ ~Backend("busy")
    /\ pc = "sleep" /\ nap # 0 /\ ~Pending
    /\ pc' = IF Backend("batch") THEN "top" ELSE "interrupted"
    /\ disturbed' = TRUE
    /\ UNCHANGED <<opts, remaining, nap, cqes, status, kernel, cancel, running,
                   since, elapsed, late>>

\* A system call fails for good.
Fail ==
    /\ ~Backend("busy")
    /\ pc = "sleep" \/ (Backend("batch") /\ pc = "top")
    /\ Return("SysError")

Arrive ==
    /\ arrived < MaxArrivals
    /\ arrived' = arrived + 1
    /\ UNCHANGED <<opts, pc, remaining, nap, cqes, status, head, handed, cancel,
                   running, clocks>>

SetCancel ==
    /\ ~cancel
    /\ cancel' = TRUE
    /\ UNCHANGED <<opts, pc, remaining, nap, cqes, status, kernel, running, clocks>>

\* BusyPoller::stop
Stop ==
    /\ Backend("busy") /\ running
    /\ running' = FALSE
    /\ UNCHANGED <<opts, pc, remaining, nap, cqes, status, kernel, cancel, clocks>>

Next == WorkerStep \/ Expire \/ Tick \/ Interrupt \/ Fail \/ Arrive \/ SetCancel \/ Stop

Spec == Init /\ [][Next]_vars

\* The worker runs and time passes.  Nothing is assumed of arrivals, signals,
\* errors or the other threads.
FairSpec == Spec /\ WF_vars(WorkerStep) /\ WF_vars(Tick \/ Expire)

-----------------------------------------------------------------------------
(***************************************************************************)
(* Properties.                                                             *)
(***************************************************************************)
TypeOK ==
    /\ opts \in Options
    /\ pc \in {"idle", "top", "sleep", "idle_sleep", "expired", "interrupted",
               "zero", "seen", "poll", "cancelled", "returned", "stopped"}
    /\ remaining \in Int
    /\ nap \in Nat \cup {Forever}
    /\ cqes \in Seq(Nat) /\ handed \in Seq(Nat)
    /\ status \in Statuses
    /\ arrived \in 0..MaxArrivals /\ head \in Nat
    /\ cancel \in BOOLEAN /\ running \in BOOLEAN /\ disturbed \in BOOLEAN
    /\ since \in 0..MaxClock /\ elapsed \in 0..MaxClock /\ late \in 0..MaxClock

InCall == pc \notin {"idle", "stopped"}

\* A call with a budget keeps it.  However its sleeps are sliced, interrupted and
\* resumed, it never sleeps longer than the budget, and the poller oversleeps by
\* less than one poll interval; for the poller the timeout has to be within
\* max_idle_time, beyond it the idle branch starts the clock anew for ever.  And
\* Timeout means that the time is up: a call that no signal disturbed has slept for
\* its whole budget, except in wait_completions_with_options, which returns Timeout
\* after the first poll interval.
BudgetIsKept ==
    opts.timeout > 0 /\ InCall =>
        /\ IF Backend("busy")
           THEN opts.timeout <= MaxIdle => elapsed < opts.timeout + Interval
           ELSE elapsed <= opts.timeout
        /\ (pc = "returned" /\ status = "Timeout" /\ ~disturbed /\ ~Backend("uring"))
              => elapsed >= opts.timeout

\* The calls in which a worker looks at the cancel flag while it waits: not in
\* io_uring_wait_cqe.
HearsCancel == opts.cancellable /\ ~(Backend("uring") /\ opts.timeout < 0)

\* Once the flag is set, the worker sleeps for one more poll interval at most,
\* all its calls together, whatever is ready, interrupted or retried.
CancelIsPrompt == HearsCancel => late <= Interval

\* What becomes ready is handed to the worker once and in order over all the
\* calls; of an io_uring, if it asks for one completion at a time.
HandedOnce ==
    (Backend("uring") => opts.max = 1) =>
        /\ Len(handed) <= arrived
        /\ \A i \in 1..Len(handed) : handed[i] = i

\* The worker ends when another thread tells it to: the cancel flag ends the loop
\* of any backend, and stop() the poller's current call, also while it sleeps.
EndsWhenTold ==
    /\ (cancel /\ HearsCancel) ~> (pc = "stopped")
    /\ (Backend("busy") /\ InCall /\ ~running) ~> ~InCall

\* The calls that look for something ready at all: a poller with timeout 0 is
\* out of time before its first poll, where the other backends look once.
Looks == ~(Backend("busy") /\ opts.timeout = 0)

\* Nothing that becomes ready is left behind, unless the loop ends.
EverythingHanded ==
    \A n \in 1..MaxArrivals :
        (arrived >= n /\ Looks /\ (Backend("uring") => opts.max = 1))
            ~> (pc = "stopped" \/ Len(handed) >= n)
-----------------------------------------------------------------------------
(***************************************************************************)
(* The inductive invariant behind the safety properties.                   *)
(***************************************************************************)
Asleep == pc \in {"sleep", "idle_sleep"}

TimedOut == pc = "returned" /\ status = "Timeout"

\* What a sliced wait has slept, is sleeping and may still sleep fits into its
\* budget.  Until a signal disturbs it the three add up to the budget exactly,
\* except while something is ready that ended the sleep of recv_batch early.
SlicedBudget ==
    /\ 0 <= remaining
    /\ elapsed + remaining <= opts.timeout
    /\ Asleep => 0 <= nap /\ elapsed + nap + remaining <= opts.timeout
    /\ ~disturbed /\ ~Backend("uring") =>
          /\ pc # "interrupted"
          /\ pc = "sleep" => elapsed + nap + remaining = opts.timeout
          /\ pc \in {"top", "expired"} /\ ~(Backend("batch") /\ Pending)
                => elapsed + remaining = opts.timeout
          /\ (pc = "zero" /\ ~Cancelled) \/ TimedOut => elapsed = opts.timeout

\* The poller decides by a clock that may be started anew, but never within a
\* timeout of at most max_idle_time.
PollerBudget ==
    /\ since <= elapsed
    /\ TimedOut => elapsed >= opts.timeout
    /\ opts.timeout <= MaxIdle =>
          /\ since = elapsed
          /\ pc # "idle_sleep"
          /\ elapsed < opts.timeout + Interval
          /\ pc = "poll" => elapsed < opts.timeout
          /\ pc = "sleep" => elapsed + nap < opts.timeout + Interval

BudgetInv ==
    opts.timeout > 0 => IF Backend("busy") THEN PollerBudget ELSE SlicedBudget

\* Who has slept with the flag set is past every point where another sleep could
\* begin, and who is asleep with it has no more than the rest of an interval left.
PromptInv ==
    /\ late > 0 => cancel
    /\ HearsCancel =>
          /\ late <= Interval
          /\ Asleep => nap <= Interval
          /\ Asleep /\ cancel => late + nap <= Interval
          /\ pc = "poll" \/ (pc = "top" /\ opts.backend \in {"epoll", "uring"})
                => late = 0

\* What was handed over is what was consumed; an io_uring asked for one
\* completion at a time holds it only between collecting and consuming it.
HandedInv ==
    (Backend("uring") => opts.max = 1) =>
        /\ head = Len(handed) /\ head <= arrived
        /\ \A i \in 1..Len(handed) : handed[i] = i
        /\ pc \notin {"idle", "seen", "returned", "stopped"} => cqes = <<>>
        /\ pc = "seen" => cqes = <<head + 1>> /\ head < arrived

\* Every wait keeps its budget, hears the flag and hands on what it consumes.
IndInv == TypeOK /\ BudgetInv /\ PromptInv /\ HandedInv
=============================================================================
