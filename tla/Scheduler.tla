----------------------------- MODULE Scheduler -----------------------------
(***************************************************************************)
(* What the scheduler promises, with no queue, flag or interrupt in sight: *)
(* every core always runs one thread, a thread runs on one core at most,   *)
(* and a core goes from one thread to another in one step.  Threads is     *)
(* shown to implement it.                                                  *)
(***************************************************************************)
CONSTANTS Core, Thread, Reaper, idleThreads

VARIABLES running,  \* [Core -> the thread or the idle thread it runs]
          ready,    \* the threads that wait for a core
          ended     \* the threads that have ended and are yet to be deleted

vars == <<running, ready, ended>>

Running == {running[c] : c \in Core}
Idle == {idleThreads[c] : c \in Core}

Init == running = idleThreads /\ ready = {Reaper} /\ ended = {}

(* Core c goes from its thread, which stays ready or has ended, to u. *)
Switch(c, u) ==
    LET t == running[c] IN
    /\ t # u
    /\ u \in ready \cup {idleThreads[c]}
    /\ running' = [running EXCEPT ![c] = u]
    /\ \/ /\ t \in Thread
          /\ ready' = (ready \ {u}) \cup {t}
          /\ UNCHANGED ended
       \/ /\ t \in Thread
          /\ ready' = ready \ {u}
          /\ ended' = ended \cup {t}
       \/ /\ t = idleThreads[c]
          /\ ready' = ready \ {u}
          /\ UNCHANGED ended

Create(t) ==
    /\ t \notin ready \cup ended \cup Running
    /\ ready' = ready \cup {t}
    /\ UNCHANGED <<running, ended>>

Delete(t) ==
    /\ t \in ended
    /\ ended' = ended \ {t}
    /\ UNCHANGED <<running, ready>>

Next ==
    \/ \E c \in Core, u \in Thread \cup Idle : Switch(c, u)
    \/ \E t \in Thread : Create(t) \/ Delete(t)

Spec == Init /\ [][Next]_vars
=============================================================================
