------------------------------ MODULE Launcher ------------------------------
(***************************************************************************)
(* run_sim_market and run_sim_order: a launcher starts some processes in   *)
(* the background (the subscribers, or the gateway), then the one that     *)
(* drives them (the publisher, or the client), lets them run, stops the    *)
(* driver first, and adds up the files the subscribers leave.              *)
(*                                                                         *)
(* The children are seen from outside: when each installs its handler,     *)
(* ends, and writes its file.  What they do in between is the business of  *)
(* MarketFeed and OrderPath.                                               *)
(***************************************************************************)
EXTENDS Integers

CONSTANT Sims       \* the simulations considered, as records

\* backs:     how many processes there are in the background
\* handlers:  the numbers of the children that handle SIGINT
\* summaries: the background processes leave a summary file
ASSUME SimsAssumption ==
    \A s \in Sims : /\ s.backs \in Nat \ {0}
                    /\ s.handlers \subseteq 1 .. s.backs + 1
                    /\ s.summaries \in BOOLEAN

VARIABLES
    sim,        \* the simulation
    inherited,  \* the launcher was started with SIGINT ignored
    pc,         \* where the launcher is
    next,       \* the child it starts next
    turn,       \* the background process it stops next
    code,       \* what main returns
    child,      \* the state of each child
    signal,     \* a SIGINT is pending for the child
    file,       \* what is in the summary file of each child
    wrote,      \* history: the child has written its file
    read        \* what the launcher found in each file

launcher == <<pc, next, turn, code, read>>
children == <<child, signal, file, wrote>>
vars == <<sim, inherited, launcher, children>>

Backs == 1 .. sim.backs
Driver == sim.backs + 1
Children == 1 .. Driver

\* file is stale when a launcher that had the same process id left it there.
Init ==
    /\ sim \in Sims /\ inherited \in BOOLEAN
    /\ pc = "start" /\ next = 1 /\ turn = 1 /\ code = 0
    /\ child = [i \in Children |-> "none"]
    /\ signal = [i \in Children |-> FALSE]
    /\ file \in [Children -> IF sim.summaries THEN {"absent", "stale"} ELSE {"absent"}]
    /\ wrote = [i \in Children |-> FALSE]
    /\ read = [i \in Children |-> "absent"]

-----------------------------------------------------------------------------
(* The launcher                                                            *)

\* spawn_process
Spawn ==
    /\ pc = "start"
    /\ child' = [child EXCEPT ![next] = "forked"]
    /\ next' = next + 1
    /\ pc' = IF next = Driver THEN "run" ELSE "start"
    /\ UNCHANGED <<sim, inherited, turn, code, signal, file, wrote, read>>

\* A failed fork that ends main at once.
SpawnFailsHard ==
    /\ pc = "start"
    /\ pc' = "done" /\ code' = 1
    /\ UNCHANGED <<sim, inherited, next, turn, read, children>>

\* fork fails: the background processes started so far are stopped.
SpawnFails ==
    /\ pc = "start"
    /\ pc' = "kill" /\ code' = 1
    /\ UNCHANGED <<sim, inherited, next, turn, read, children>>

\* The run is over: the driver is the first to be stopped.
TimeUp ==
    /\ pc = "run"
    /\ pc' = "kill_driver"
    /\ UNCHANGED <<sim, inherited, next, turn, code, read, children>>

\* The last background process that was started
Last == IF code = 0 THEN sim.backs ELSE next - 1

\* The child that stop_process is about
Target == IF pc \in {"kill_driver", "wait_driver"} THEN Driver ELSE turn

\* A SIGINT that is ignored when it is sent is never pending.
Heeds(i) == ~(inherited /\ child[i] \in {"forked", "loaded"})

\* A child that has not come to its handler yet is passed over.
KillReady ==
    /\ pc = "kill_driver" \/ (pc = "kill" /\ turn <= Last)
    /\ signal' = [signal EXCEPT ![Target] = (child[Target] = "ready")]
    /\ pc' = IF pc = "kill_driver" THEN "wait_driver" ELSE "wait"
    /\ UNCHANGED <<sim, inherited, next, turn, code, child, file, wrote, read>>

\* stop_process, kill
Kill ==
    /\ pc = "kill_driver" \/ (pc = "kill" /\ turn <= Last)
    /\ signal' = [signal EXCEPT ![Target] = Heeds(Target)]
    /\ pc' = IF pc = "kill_driver" THEN "wait_driver" ELSE "wait"
    /\ UNCHANGED <<sim, inherited, next, turn, code, child, file, wrote, read>>

\* waitpid that does not block.
WaitNot ==
    /\ pc \in {"wait_driver", "wait"}
    /\ child' = [child EXCEPT ![Target] = IF @ = "zombie" THEN "reaped" ELSE @]
    /\ turn' = IF pc = "wait" THEN turn + 1 ELSE turn
    /\ pc' = "kill"
    /\ UNCHANGED <<sim, inherited, next, code, signal, file, wrote, read>>

\* stop_process, waitpid without a limit
Wait ==
    /\ pc \in {"wait_driver", "wait"} /\ child[Target] = "zombie"
    /\ child' = [child EXCEPT ![Target] = "reaped"]
    /\ turn' = IF pc = "wait" THEN turn + 1 ELSE turn
    /\ pc' = "kill"
    /\ UNCHANGED <<sim, inherited, next, code, signal, file, wrote, read>>

\* All are stopped.  A file that cannot be opened is passed over.
Summarise ==
    /\ pc = "kill" /\ turn > Last
    /\ pc' = "done"
    /\ read' = IF code = 0 /\ sim.summaries THEN file ELSE read
    /\ UNCHANGED <<sim, inherited, next, turn, code, children>>

\* Ctrl-C: spawn_process leaves the children in the launcher's process group, so
\* all have the signal, and the launcher, without a handler, dies of it.
Interrupt ==
    /\ pc \notin {"done", "interrupted"} /\ ~inherited
    /\ pc' = "interrupted"
    /\ signal' = [i \in Children |-> signal[i] \/ child[i] \notin {"none", "reaped"}]
    /\ UNCHANGED <<sim, inherited, next, turn, code, child, file, wrote, read>>

-----------------------------------------------------------------------------
(* The children                                                            *)

Becomes(i, state) ==
    /\ child' = [child EXCEPT ![i] = state]
    /\ UNCHANGED <<sim, inherited, launcher, signal, file, wrote>>

\* execv, or _exit(127), which the launcher does not look at
Exec(i) == child[i] = "forked" /\ (Becomes(i, "loaded") \/ Becomes(i, "zombie"))

\* signal(SIGINT, handle_signal)
Install(i) == child[i] = "loaded" /\ i \in sim.handlers /\ Becomes(i, "ready")

\* A child without a handler dies of the signal, one with a handler ends its
\* loop.
Signalled(i) ==
    /\ signal[i]
    /\ \/ child[i] \in {"forked", "loaded"} /\ Becomes(i, "zombie")
       \/ child[i] = "ready" /\ Becomes(i, "leaving")

\* A child ends by itself: a socket it cannot set up, an error in its loop.
GivesUp(i) ==
    \/ child[i] \in {"loaded", "ready"} /\ Becomes(i, "zombie")
    \/ child[i] = "ready" /\ Becomes(i, "leaving")

\* The end of a child's main: the summary, if its file can be opened.
Leave(i) ==
    /\ child[i] = "leaving"
    /\ child' = [child EXCEPT ![i] = "zombie"]
    /\ \/ /\ sim.summaries
          /\ file' = [file EXCEPT ![i] = "fresh"] /\ wrote' = [wrote EXCEPT ![i] = TRUE]
       \/ UNCHANGED <<file, wrote>>
    /\ UNCHANGED <<sim, inherited, launcher, signal>>

-----------------------------------------------------------------------------
ChildStep(i) == Exec(i) \/ Install(i) \/ Signalled(i) \/ Leave(i)

Next ==
    \/ Spawn \/ SpawnFails \/ TimeUp \/ Kill \/ Wait \/ Summarise \/ Interrupt
    \/ \E i \in Children : ChildStep(i) \/ GivesUp(i)

\* Every process runs, and a sleep ends.
Fairness ==
    /\ WF_vars(Spawn) /\ WF_vars(TimeUp) /\ WF_vars(Kill) /\ WF_vars(Wait)
    /\ WF_vars(Summarise)
    /\ \A s \in Sims : \A i \in 1 .. s.backs + 1 : WF_vars(i \in Children /\ ChildStep(i))

Spec == Init /\ [][Next]_vars /\ Fairness

-----------------------------------------------------------------------------
(* Properties                                                              *)

\* Every variable has its type, and there are no more children than processes
\* to start (spawn_process and the loops of main around it).
TypeOK ==
    /\ sim \in Sims /\ inherited \in BOOLEAN
    /\ pc \in {"start", "run", "kill_driver", "wait_driver", "kill", "wait", "done",
               "interrupted"}
    /\ next \in 1 .. Driver + 1 /\ turn \in 1 .. Driver /\ code \in {0, 1}
    /\ child \in [Children -> {"none", "forked", "loaded", "ready", "leaving",
                               "zombie", "reaped"}]
    /\ signal \in [Children -> BOOLEAN] /\ wrote \in [Children -> BOOLEAN]
    /\ file \in [Children -> {"absent", "stale", "fresh"}]
    /\ read \in [Children -> {"absent", "stale", "fresh"}]

Gone(i) == child[i] \in {"none", "zombie", "reaped"}

\* When main returns, whether the run went through or a fork failed on the way,
\* no process it started is running and none is left as a zombie
\* (stop_process, and the error branches of main).
NoChildLeft == pc = "done" => \A i \in Children : child[i] \in {"none", "reaped"}

\* The gateway and the subscribers are sent no signal while the client or the
\* publisher that depends on them is there (the order of stop_process in main).
DriverStopsFirst ==
    \A i \in Backs :
        (signal[i] /\ pc # "interrupted") => child[Driver] \in {"none", "reaped"}

\* The totals are of this run: the file of a subscriber is read when it will not
\* be written any more, so that every summary that was written is in, once, and
\* one that was not is missing - or, if the file was there before, the old one.
SummaryIsComplete ==
    (pc = "done" /\ code = 0 /\ sim.summaries) =>
        \A i \in Backs : IF wrote[i] THEN read[i] = "fresh"
                         ELSE read[i] = file[i] /\ read[i] # "fresh"

\* Nobody is waited for and nobody stays behind for ever.  Whenever the signal
\* comes, before exec, before the handler, or after the child has ended by itself,
\* waitpid returns and the launcher ends; with SIGINT ignored, as in a background
\* job of a shell, it may not.  And after Ctrl-C, when the launcher stops nobody,
\* its children end all the same.
EverybodyEnds ==
    /\ (~inherited) ~> (pc \in {"done", "interrupted"})
    /\ (pc = "interrupted") ~> \A i \in Children : Gone(i)
=============================================================================
