--------------------------- MODULE LauncherProofs ---------------------------
(***************************************************************************)
(* Proofs about Launcher, for any number of background processes: its type *)
(* invariant, that it leaves no child, that the driver stops first, and    *)
(* that the summary is complete.                                           *)
(***************************************************************************)
EXTENDS Launcher, TLAPS

\* What has been started, stopped and signalled when the launcher is where it is.
StageInv ==
    /\ \A i \in Children : i >= next => child[i] = "none" /\ ~signal[i]
    /\ \A i \in Children : i < next => child[i] # "none"
    /\ pc = "start" => next <= Driver
    /\ pc \in {"start", "run", "kill_driver", "wait_driver"} => code = 0 /\ turn = 1
    /\ pc \in {"start", "run"} => \A i \in Children : ~signal[i]
    /\ pc \in {"kill_driver", "wait_driver"} => \A i \in Backs : ~signal[i]
    /\ pc \notin {"start", "interrupted"} => (code = 0 <=> next = Driver + 1)
    /\ pc \in {"kill", "wait", "done"} =>
           /\ child[Driver] \in {"none", "reaped"}
           /\ turn <= Last + 1
           /\ \A i \in Backs : i < turn => child[i] = "reaped"
    /\ pc = "wait" => turn <= Last
    /\ pc = "done" => turn = Last + 1

\* A file is new when its subscriber wrote it, and read when all have ended.
FileInv ==
    /\ \A i \in Children : wrote[i] <=> file[i] = "fresh"
    /\ (pc = "done" /\ code = 0 /\ sim.summaries) => read = file

Inv == TypeOK /\ StageInv /\ FileInv

USE SimsAssumption

LEMMA SimType == TypeOK => /\ sim.backs \in Nat \ {0}
                           /\ sim.handlers \subseteq 1 .. sim.backs + 1
                           /\ sim.summaries \in BOOLEAN
                           /\ Driver \in Children /\ Driver \in Nat
                           /\ Backs \subseteq Children /\ Children \subseteq Nat
                           /\ \A i \in Children : i \in Backs \/ i = Driver
                           /\ Driver \notin Backs
                           /\ Driver = sim.backs + 1
                           /\ \A i \in Nat : i \in Backs <=> 1 <= i /\ i <= sim.backs
  BY DEF TypeOK, Driver, Backs, Children

LEMMA InitInv == Init => Inv
<1> SUFFICES ASSUME Init PROVE Inv
  OBVIOUS
<1> USE DEF Init
<1>1. sim.backs \in Nat \ {0}
  OBVIOUS
<1>2. TypeOK
  <2>1. next \in 1 .. Driver + 1 /\ turn \in 1 .. Driver
    BY <1>1 DEF Driver
  <2>2. file \in [Children -> {"absent", "stale", "fresh"}]
    OBVIOUS
  <2> QED
    BY <2>1, <2>2 DEF TypeOK
<1>3. StageInv
  BY <1>1, <1>2, SimType DEF StageInv
<1>4. FileInv
  <2>1. \A i \in Children : file[i] # "fresh"
    OBVIOUS
  <2> QED
    BY <2>1 DEF FileInv
<1> QED
  BY <1>2, <1>3, <1>4 DEF Inv

-----------------------------------------------------------------------------
(* The children                                                            *)

\* A child that is running changes its state, and perhaps its file.
LEMMA ChildMoves ==
    ASSUME Inv, NEW i \in Children, NEW state,
           state \in {"loaded", "ready", "leaving", "zombie"},
           child[i] \notin {"none", "reaped"},
           child' = [child EXCEPT ![i] = state],
           UNCHANGED <<sim, inherited, pc, next, turn, code, read, signal>>,
           \/ UNCHANGED <<file, wrote>>
           \/ /\ file' = [file EXCEPT ![i] = "fresh"]
              /\ wrote' = [wrote EXCEPT ![i] = TRUE]
    PROVE  Inv'
<1>1. TypeOK /\ StageInv /\ FileInv
  BY DEF Inv
<1>2. /\ Driver' = Driver /\ Backs' = Backs /\ Children' = Children /\ Last' = Last
  BY DEF Driver, Backs, Children, Last
<1>3. /\ child'[i] = state
      /\ \A j \in Children : j # i => child'[j] = child[j]
      /\ child' \in [Children -> {"none", "forked", "loaded", "ready", "leaving",
                                  "zombie", "reaped"}]
  BY <1>1 DEF TypeOK
<1>4. /\ file' \in [Children -> {"absent", "stale", "fresh"}]
      /\ wrote' \in [Children -> BOOLEAN]
      /\ \A j \in Children : wrote'[j] <=> file'[j] = "fresh"
  <2>1. CASE UNCHANGED <<file, wrote>>
    BY <1>1, <2>1 DEF TypeOK, FileInv
  <2>2. CASE /\ file' = [file EXCEPT ![i] = "fresh"]
             /\ wrote' = [wrote EXCEPT ![i] = TRUE]
    <3>1. /\ file' \in [Children -> {"absent", "stale", "fresh"}]
          /\ file'[i] = "fresh" /\ \A j \in Children : j # i => file'[j] = file[j]
      BY <1>1, <2>2 DEF TypeOK
    <3>2. /\ wrote' \in [Children -> BOOLEAN]
          /\ wrote'[i] = TRUE /\ \A j \in Children : j # i => wrote'[j] = wrote[j]
      BY <1>1, <2>2 DEF TypeOK
    <3>3. ASSUME NEW j \in Children PROVE wrote'[j] <=> file'[j] = "fresh"
      <4>1. CASE j = i
        BY <3>1, <3>2, <4>1
      <4>2. CASE j # i
        BY <1>1, <3>1, <3>2, <4>2 DEF FileInv
      <4> QED
        BY <4>1, <4>2
    <3> QED
      BY <3>1, <3>2, <3>3
  <2> QED
    BY <2>1, <2>2
<1>5. TypeOK'
  BY <1>1, <1>2, <1>3, <1>4 DEF TypeOK
<1>6. i < next
  BY <1>1, SimType DEF StageInv, TypeOK
<1>7. ~(pc \in {"kill", "wait", "done"} /\ (i = Driver \/ i < turn))
  BY <1>1, SimType DEF StageInv, TypeOK
<1>8. StageInv'
  <2>1. \A j \in Children : j >= next => j # i
    BY <1>1, <1>6, SimType DEF TypeOK
  <2>2. /\ \A j \in Children : j >= next => child'[j] = "none" /\ ~signal[j]
        /\ \A j \in Children : j < next => child'[j] # "none"
    BY <1>1, <1>3, <2>1 DEF StageInv
  <2>3. pc \in {"kill", "wait", "done"} =>
           /\ child'[Driver] \in {"none", "reaped"}
           /\ \A j \in Backs : j < turn => child'[j] = "reaped"
    BY <1>1, <1>3, <1>7, SimType DEF StageInv
  <2> QED
    BY <1>1, <1>2, <2>2, <2>3 DEF StageInv
<1>9. FileInv'
  <2>1. ~(pc = "done" /\ code = 0)
    BY <1>1, <1>7, SimType DEF StageInv, Last, TypeOK
  <2> QED
    BY <1>2, <1>4, <2>1 DEF FileInv
<1> QED
  BY <1>5, <1>8, <1>9 DEF Inv

LEMMA ChildInv ==
    ASSUME Inv, NEW i \in Children, ChildStep(i) \/ GivesUp(i)
    PROVE  Inv'
<1>1. ASSUME NEW state \in {"loaded", "ready", "leaving", "zombie"}, Becomes(i, state),
             child[i] \notin {"none", "reaped"}
      PROVE  Inv'
  BY <1>1, ChildMoves DEF Becomes, launcher
<1>2. CASE Exec(i)
  BY <1>1, <1>2 DEF Exec
<1>3. CASE Install(i)
  BY <1>1, <1>3 DEF Install
<1>4. CASE Signalled(i)
  BY <1>1, <1>4 DEF Signalled
<1>5. CASE GivesUp(i)
  BY <1>1, <1>5 DEF GivesUp
<1>6. CASE Leave(i)
  <2>1. /\ child[i] \notin {"none", "reaped"}
        /\ child' = [child EXCEPT ![i] = "zombie"]
        /\ UNCHANGED <<sim, inherited, pc, next, turn, code, read, signal>>
        /\ \/ UNCHANGED <<file, wrote>>
           \/ /\ file' = [file EXCEPT ![i] = "fresh"]
              /\ wrote' = [wrote EXCEPT ![i] = TRUE]
    BY <1>6 DEF Leave, launcher
  <2> QED
    BY <2>1, ChildMoves
<1> QED
  BY <1>2, <1>3, <1>4, <1>5, <1>6 DEF ChildStep

-----------------------------------------------------------------------------
(* The launcher                                                            *)

LEMMA SpawnInv == Inv /\ Spawn => Inv'
<1> SUFFICES ASSUME Inv, Spawn PROVE Inv'
  OBVIOUS
<1> USE DEF Spawn
<1>1. TypeOK /\ StageInv /\ FileInv
  BY DEF Inv
<1>2. Driver' = Driver /\ Backs' = Backs /\ Children' = Children
  BY DEF Driver, Backs, Children
<1>3. next \in Children /\ next <= Driver /\ code = 0 /\ turn = 1
  BY <1>1, SimType DEF StageInv, TypeOK, Children
<1>4. /\ child'[next] = "forked"
      /\ \A j \in Children : j # next => child'[j] = child[j]
      /\ child' \in [Children -> {"none", "forked", "loaded", "ready", "leaving",
                                  "zombie", "reaped"}]
  BY <1>1, <1>3 DEF TypeOK
<1>5. next' \in 1 .. Driver + 1
  BY <1>1, <1>3, SimType DEF TypeOK
<1>6. TypeOK'
  BY <1>1, <1>2, <1>4, <1>5 DEF TypeOK
<1>7. StageInv'
  <2>1. \A j \in Children : j >= next' => j >= next /\ j # next
    BY <1>1, <1>3, SimType DEF TypeOK
  <2>2. \A j \in Children : j < next' => j < next \/ j = next
    BY <1>1, <1>3, SimType DEF TypeOK
  <2>3. /\ \A j \in Children : j >= next' => child'[j] = "none" /\ ~signal'[j]
        /\ \A j \in Children : j < next' => child'[j] # "none"
    BY <1>1, <1>4, <2>1, <2>2 DEF StageInv
  <2>4. pc' = "start" => next' <= Driver
    BY <1>1, <1>3, SimType DEF TypeOK
  <2>5. pc' = "run" => next' = Driver + 1
    BY <1>3
  <2>6. \A j \in Children : ~signal'[j]
    BY <1>1 DEF StageInv
  <2> QED
    BY <1>2, <1>3, <2>3, <2>4, <2>5, <2>6 DEF StageInv
<1>8. FileInv'
  BY <1>1, <1>2 DEF FileInv
<1> QED
  BY <1>6, <1>7, <1>8 DEF Inv

LEMMA KillInv == Inv /\ Kill => Inv'
<1> SUFFICES ASSUME Inv, Kill PROVE Inv'
  OBVIOUS
<1> USE DEF Kill
<1>1. TypeOK /\ StageInv /\ FileInv
  BY DEF Inv
<1>2. Driver' = Driver /\ Backs' = Backs /\ Children' = Children /\ Last' = Last
  BY DEF Driver, Backs, Children, Last
<1>3. Target \in Children /\ Target < next /\ (pc = "kill_driver" => Target = Driver)
  <2>1. CASE pc = "kill_driver"
    BY <1>1, <2>1, SimType DEF Target, StageInv
  <2>2. CASE pc = "kill"
    <3>1. Target = turn /\ turn <= Last /\ turn >= 1 /\ turn \in Nat
      BY <1>1, <2>2, SimType DEF Target, TypeOK
    <3>2. Last < next /\ Last <= sim.backs
      BY <1>1, <2>2, SimType DEF Last, StageInv, TypeOK
    <3>3. Last \in Int /\ next \in Int /\ sim.backs \in Nat
      BY <1>1, SimType DEF Last, TypeOK
    <3>4. turn <= sim.backs /\ turn < next
      BY <3>1, <3>2, <3>3
    <3>5. turn \in Backs /\ turn \in Children
      BY <1>1, <3>1, <3>4, SimType
    <3> QED
      BY <2>2, <3>1, <3>4, <3>5
  <2> QED
    BY <2>1, <2>2
<1>4. Heeds(Target) \in BOOLEAN
  BY DEF Heeds
<1>5. /\ signal' \in [Children -> BOOLEAN]
      /\ \A j \in Children : j # Target => signal'[j] = signal[j]
  BY <1>1, <1>3, <1>4 DEF TypeOK
<1>6. TypeOK'
  BY <1>1, <1>2, <1>5 DEF TypeOK
<1>7. StageInv'
  <2>1. \A j \in Children : j >= next => ~signal'[j]
    BY <1>1, <1>3, <1>5, SimType DEF StageInv, TypeOK
  <2>2. pc = "kill_driver" => \A j \in Backs : ~signal'[j]
    BY <1>1, <1>3, <1>5, SimType DEF StageInv
  <2> QED
    BY <1>1, <1>2, <2>1, <2>2 DEF StageInv
<1>8. FileInv'
  BY <1>1, <1>2 DEF FileInv
<1> QED
  BY <1>6, <1>7, <1>8 DEF Inv

LEMMA WaitInv == Inv /\ Wait => Inv'
<1> SUFFICES ASSUME Inv, Wait PROVE Inv'
  OBVIOUS
<1> USE DEF Wait
<1>1. TypeOK /\ StageInv /\ FileInv
  BY DEF Inv
<1>2. Driver' = Driver /\ Backs' = Backs /\ Children' = Children /\ Last' = Last
  BY DEF Driver, Backs, Children, Last
<1>3. Last <= sim.backs /\ Last \in Nat
  BY <1>1, SimType DEF Last, StageInv, TypeOK
<1>4. /\ Target \in Children
      /\ pc = "wait_driver" => Target = Driver
      /\ pc = "wait" => Target = turn /\ turn <= Last /\ turn \in Backs
  BY <1>1, <1>3, SimType DEF Target, TypeOK, StageInv
<1>5. /\ child'[Target] = "reaped"
      /\ \A j \in Children : j # Target => child'[j] = child[j]
      /\ child' \in [Children -> {"none", "forked", "loaded", "ready", "leaving",
                                  "zombie", "reaped"}]
  BY <1>1, <1>4 DEF TypeOK
<1>6. turn' \in 1 .. Driver /\ turn' <= Last + 1
  BY <1>1, <1>3, <1>4, SimType DEF TypeOK, StageInv
<1>7. TypeOK'
  BY <1>1, <1>2, <1>5, <1>6 DEF TypeOK
<1>8. StageInv'
  <2>1. /\ \A j \in Children : j >= next => child'[j] = "none" /\ ~signal[j]
        /\ \A j \in Children : j < next => child'[j] # "none"
    BY <1>1, <1>4, <1>5 DEF StageInv
  <2>2. child'[Driver] \in {"none", "reaped"}
    BY <1>1, <1>4, <1>5, SimType DEF StageInv
  <2>3. \A j \in Backs : j < turn' => child'[j] = "reaped"
    <3> SUFFICES ASSUME NEW j \in Backs, j < turn' PROVE child'[j] = "reaped"
      OBVIOUS
    <3>1. j \in Children /\ j \in Nat
      BY <1>1, SimType
    <3>2. CASE pc = "wait_driver"
      BY <1>1, <3>1, <3>2, SimType DEF StageInv
    <3>3. CASE pc = "wait"
      <4>1. j < turn \/ j = turn
        BY <1>1, <3>1, <3>3 DEF TypeOK
      <4> QED
        BY <1>1, <1>4, <1>5, <3>1, <3>3, <4>1 DEF StageInv
    <3> QED
      BY <3>2, <3>3
  <2>4. pc \notin {"start", "interrupted"} /\ (code = 0 <=> next = Driver + 1)
    BY <1>1 DEF StageInv
  <2> QED
    BY <1>2, <1>6, <2>1, <2>2, <2>3, <2>4 DEF StageInv
<1>9. FileInv'
  BY <1>1, <1>2 DEF FileInv
<1> QED
  BY <1>7, <1>8, <1>9 DEF Inv

LEMMA NextInv == Inv /\ [Next]_vars => Inv'
<1> SUFFICES ASSUME Inv, [Next]_vars PROVE Inv'
  OBVIOUS
<1>1. TypeOK /\ StageInv /\ FileInv
  BY DEF Inv
<1>2. ASSUME UNCHANGED sim PROVE Driver' = Driver /\ Backs' = Backs /\ Children' = Children
  BY <1>2 DEF Driver, Backs, Children
<1>3. CASE SpawnFails
  <2>1. /\ UNCHANGED <<sim, inherited, next, turn, read, child, signal, file, wrote>>
        /\ pc = "start" /\ pc' = "kill" /\ code' = 1
    BY <1>3 DEF SpawnFails, children
  <2>2. TypeOK'
    BY <1>1, <1>2, <2>1 DEF TypeOK
  <2>3. next <= Driver /\ turn = 1 /\ Last' = next - 1
    BY <1>1, <2>1 DEF StageInv, Last
  <2>4. child[Driver] = "none" /\ turn <= Last' + 1 /\ next # Driver + 1
    BY <1>1, <2>3, SimType DEF StageInv, TypeOK
  <2>5. \A i \in Backs : ~(i < turn)
    BY <1>1, <2>3, SimType
  <2>6. StageInv'
    BY <1>1, <1>2, <2>1, <2>3, <2>4, <2>5 DEF StageInv
  <2>7. FileInv'
    BY <1>1, <1>2, <2>1 DEF FileInv
  <2> QED
    BY <2>2, <2>6, <2>7 DEF Inv
<1>4. CASE TimeUp
  <2>1. /\ UNCHANGED <<sim, inherited, next, turn, code, read, child, signal, file, wrote>>
        /\ pc = "run" /\ pc' = "kill_driver"
    BY <1>4 DEF TimeUp, children
  <2>2. TypeOK'
    BY <1>1, <1>2, <2>1 DEF TypeOK
  <2>3. StageInv'
    BY <1>1, <1>2, <2>1, SimType DEF StageInv
  <2>4. FileInv'
    BY <1>1, <1>2, <2>1 DEF FileInv
  <2> QED
    BY <2>2, <2>3, <2>4 DEF Inv
<1>5. CASE Summarise
  <2>1. /\ UNCHANGED <<sim, inherited, next, turn, code, child, signal, file, wrote>>
        /\ pc = "kill" /\ turn > Last /\ pc' = "done"
        /\ read' = IF code = 0 /\ sim.summaries THEN file ELSE read
    BY <1>5 DEF Summarise, children
  <2>2. TypeOK'
    BY <1>1, <1>2, <2>1 DEF TypeOK
  <2>3. turn = Last + 1 /\ Last' = Last
    BY <1>1, <2>1, SimType DEF StageInv, Last, TypeOK
  <2>4. StageInv'
    BY <1>1, <1>2, <2>1, <2>3 DEF StageInv
  <2>5. FileInv'
    BY <1>1, <1>2, <2>1 DEF FileInv
  <2> QED
    BY <2>2, <2>4, <2>5 DEF Inv
<1>6. CASE Interrupt
  <2>1. /\ UNCHANGED <<sim, inherited, next, turn, code, read, child, file, wrote>>
        /\ pc' = "interrupted"
        /\ signal' = [i \in Children |-> signal[i] \/ child[i] \notin {"none", "reaped"}]
    BY <1>6 DEF Interrupt
  <2>2. signal' \in [Children -> BOOLEAN]
        /\ \A i \in Children : child[i] = "none" => signal'[i] = signal[i]
    BY <1>1, <2>1, Zenon DEF TypeOK
  <2>3. TypeOK'
    BY <1>1, <1>2, <2>1, <2>2 DEF TypeOK
  <2>4. StageInv'
    BY <1>1, <1>2, <2>1, <2>2 DEF StageInv
  <2>5. FileInv'
    BY <1>1, <1>2, <2>1 DEF FileInv
  <2> QED
    BY <2>3, <2>4, <2>5 DEF Inv
<1>7. CASE UNCHANGED vars
  <2>1. /\ UNCHANGED <<sim, inherited, pc, next, turn, code, read>>
        /\ UNCHANGED <<child, signal, file, wrote>>
    BY <1>7 DEF vars, launcher, children
  <2>2. Last' = Last
    BY <2>1 DEF Last
  <2> QED
    BY <1>1, <1>2, <2>1, <2>2 DEF Inv, TypeOK, StageInv, FileInv
<1> QED
  BY <1>3, <1>4, <1>5, <1>6, <1>7, SpawnInv, KillInv, WaitInv, ChildInv DEF Next

LEMMA SpecInv == Spec => []Inv
  BY InitInv, NextInv, PTL DEF Spec

-----------------------------------------------------------------------------

\* Every variable of the launchers keeps its type, for any number of
\* subscribers (run_sim_market.cpp, run_sim_order.cpp).
THEOREM LauncherTypeOK == Spec => []TypeOK
<1>1. Inv => TypeOK
  BY DEF Inv
<1> QED
  BY <1>1, SpecInv, PTL

\* Whichever fork fails, main returns with every child it started stopped and
\* waited for.
THEOREM LauncherLeavesNoChild == Spec => []NoChildLeft
<1>1. Inv => NoChildLeft
  <2> SUFFICES ASSUME Inv, pc = "done", NEW i \in Children
               PROVE  child[i] \in {"none", "reaped"}
    BY DEF NoChildLeft
  <2>1. TypeOK /\ StageInv
    BY DEF Inv
  <2>2. CASE i = Driver
    BY <2>1, <2>2 DEF StageInv
  <2>3. CASE i \in Backs /\ i < turn
    BY <2>1, <2>3 DEF StageInv
  <2>4. CASE i \in Backs /\ ~(i < turn)
    <3>1. turn = Last + 1 /\ i <= sim.backs /\ i \in Nat
      BY <2>1, <2>4, SimType DEF StageInv
    <3>2. i >= next
      BY <2>1, <2>4, <3>1, SimType DEF Last, TypeOK
    <3> QED
      BY <2>1, <3>2 DEF StageInv
  <2> QED
    BY <2>1, <2>2, <2>3, <2>4, SimType
<1> QED
  BY <1>1, SpecInv, PTL

\* No background process is sent SIGINT by the launcher before the publisher or
\* the client has been waited for.
THEOREM LauncherStopsDriverFirst == Spec => []DriverStopsFirst
<1>1. Inv => DriverStopsFirst
  <2> SUFFICES ASSUME Inv, NEW i \in Backs, signal[i], pc # "interrupted"
               PROVE  child[Driver] \in {"none", "reaped"}
    BY DEF DriverStopsFirst
  <2>1. TypeOK /\ StageInv /\ i \in Children
    BY SimType DEF Inv
  <2>2. pc \in {"kill", "wait", "done"}
    BY <2>1 DEF StageInv, TypeOK
  <2> QED
    BY <2>1, <2>2 DEF StageInv
<1> QED
  BY <1>1, SpecInv, PTL

\* The totals main prints are made of exactly the summaries that were written.
THEOREM LauncherSummaryIsComplete == Spec => []SummaryIsComplete
<1>1. Inv => SummaryIsComplete
  <2> SUFFICES ASSUME Inv, pc = "done", code = 0, sim.summaries, NEW i \in Backs
               PROVE  IF wrote[i] THEN read[i] = "fresh"
                      ELSE read[i] = file[i] /\ read[i] # "fresh"
    BY DEF SummaryIsComplete
  <2>1. TypeOK /\ FileInv /\ i \in Children
    BY SimType DEF Inv
  <2> QED
    BY <2>1 DEF FileInv
<1> QED
  BY <1>1, SpecInv, PTL
=============================================================================
