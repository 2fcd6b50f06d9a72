------------------------------ MODULE EventLog ------------------------------
(***************************************************************************)
(* What the confirmation pipeline promises about its events, without       *)
(* claims, queues, workers, processes or restarts: a log in which an event *)
(* has one place for good, a state that has applied the events up to some   *)
(* place of the log, each exactly once, and an archive of the events up to  *)
(* another.  Neither ever goes back.                                       *)
(***************************************************************************)
EXTENDS Naturals, Sequences

CONSTANT Events

VARIABLES
    log,        \* the events stored, in order
    done,       \* the events applied to the state
    times,      \* how often each was applied
    kept        \* the events in the archive

vars == <<log, done, times, kept>>

Init == log = <<>> /\ done = {} /\ times = [e \in Events |-> 0] /\ kept = {}

(* The first events of the log, for every number of them *)
Prefixes == {{log[i] : i \in 1..n} : n \in 0..Len(log)}

Store ==
    /\ log' \in Seq(Events) /\ Len(log) <= Len(log')
    /\ \A i \in 1..Len(log) : log'[i] = log[i]
    /\ \A i, j \in 1..Len(log') : log'[i] = log'[j] => i = j
    /\ UNCHANGED <<done, times, kept>>

Apply ==
    /\ done \subseteq done' /\ done' \in Prefixes
    /\ times' = [e \in Events |-> IF e \in done' \ done THEN times[e] + 1 ELSE times[e]]
    /\ UNCHANGED <<log, kept>>

Archive ==
    /\ kept \subseteq kept' /\ kept' \in Prefixes
    /\ UNCHANGED <<log, done, times>>

Next == Store \/ Apply \/ Archive

Spec == Init /\ [][Next]_vars
=============================================================================
