----------------------------- MODULE Watchdog -----------------------------
(***************************************************************************)
(* The watchdog timer (Watchdog.cc) and the program that uses it, the      *)
(* irradiation test (cbc3irrad.cc).  A first watchdog ends the program if  *)
(* a part of it takes too long; then a second one ends the taking of data. *)
(*                                                                         *)
(* Time is what a deadline tells apart: it has passed or it has not.       *)
(***************************************************************************)
EXTENDS Naturals, Sequences

CONSTANTS MaxResets      (* bound: Reset() calls                           *)
ASSUME WatchdogAssumption == MaxResets \in Nat

VARIABLES
    fRunning, fCallback,
    fMutex,           (* who holds it: "main", "dog" or "free"             *)
    late,             (* the deadline has passed                           *)
    notified,         (* fStopCondition has been notified                  *)
    dog,              (* the thread: "none", "begin", "check", "wait",     *)
                      (* "bite", "callback", "ended"                       *)
    joined,           (* fThread is not joinable                           *)
    main,             (* where main() is                                   *)
    full,             (* the option --full                                 *)
    resets, gRunDAQ,
    bitten            (* history: how the callbacks found the deadline     *)

threadVars == <<fRunning, fCallback, fMutex, late, notified, dog, joined>>
dogVars == <<threadVars, main, full, resets, gRunDAQ, bitten>>

InitDog ==
    /\ fRunning = FALSE /\ fCallback = "none" /\ fMutex = "free" /\ late = FALSE
    /\ notified = FALSE /\ dog = "none" /\ joined = TRUE
    /\ main = "begin" /\ full \in BOOLEAN /\ resets = 0 /\ gRunDAQ = FALSE
    /\ bitten = <<>>

Running == main \notin {"terminated", "crashed", "returned"}

(* Time passes. *)
Late ==
    /\ dog \in {"begin", "check", "wait"} /\ ~late
    /\ late' = TRUE
    /\ UNCHANGED <<fRunning, fCallback, fMutex, notified, dog, joined, main, full, resets,
                   gRunDAQ, bitten>>
-----------------------------------------------------------------------------
(* Assigning to a thread that was not joined ends the program.             *)
Start(callback, next) ==
    /\ fCallback' = callback /\ late' = FALSE /\ fRunning' = TRUE
    /\ IF joined THEN /\ dog' = "begin" /\ joined' = FALSE /\ main' = next
                 ELSE main' = "terminated" /\ UNCHANGED <<dog, joined>>
    /\ UNCHANGED <<fMutex, notified, full, resets, gRunDAQ, bitten>>

(* Stop() looks at the flag first: a watchdog that is no longer running is *)
(* not joined.                                                             *)
StopLook(look, lock, next) ==
    /\ main = look
    /\ main' = (IF fRunning THEN lock ELSE next)
    /\ UNCHANGED <<threadVars, full, resets, gRunDAQ, bitten>>
StopNotify(lock, join) ==
    /\ main = lock /\ fMutex = "free"
    /\ fRunning' = FALSE /\ notified' = TRUE
    /\ main' = join
    /\ UNCHANGED <<fCallback, fMutex, late, dog, joined, full, resets, gRunDAQ, bitten>>
StopJoin(join, next) ==
    /\ main = join /\ dog = "ended"
    /\ joined' = TRUE /\ notified' = FALSE
    /\ main' = next
    /\ UNCHANGED <<fRunning, fCallback, fMutex, late, dog, full, resets, gRunDAQ, bitten>>

(* Faulty variant: the mutex is not taken. *)
Reset_NoLock ==
    /\ main = "measure" /\ resets < MaxResets
    /\ late' = FALSE /\ resets' = resets + 1
    /\ UNCHANGED <<fRunning, fCallback, fMutex, notified, dog, joined, main, full, gRunDAQ, bitten>>

Reset ==
    /\ main = "measure" /\ resets < MaxResets
    /\ fMutex = "free"
    /\ late' = FALSE /\ resets' = resets + 1
    /\ UNCHANGED <<fRunning, fCallback, fMutex, notified, dog, joined, main, full, gRunDAQ, bitten>>

(* Workloop(): it holds the mutex except while it waits.                   *)
DogLocks ==
    /\ dog \in {"begin", "wait"} /\ fMutex = "free"
    /\ dog = "wait" => late \/ notified
    /\ fMutex' = "dog" /\ dog' = "check"
    /\ UNCHANGED <<fRunning, fCallback, late, notified, joined, main, full, resets, gRunDAQ, bitten>>
DogChecks ==
    /\ dog = "check"
    /\ IF fRunning /\ ~late THEN dog' = "wait" /\ fMutex' = "free"
                            ELSE dog' = "bite" /\ UNCHANGED fMutex
    /\ UNCHANGED <<fRunning, fCallback, late, notified, joined, main, full, resets, gRunDAQ, bitten>>
DogBites ==
    /\ dog = "bite"
    /\ IF fRunning THEN fRunning' = FALSE /\ dog' = "callback" /\ UNCHANGED fMutex
                   ELSE dog' = "ended" /\ fMutex' = "free" /\ UNCHANGED fRunning
    /\ UNCHANGED <<fCallback, late, notified, joined, main, full, resets, gRunDAQ, bitten>>

(* The callback: exitme() ends the program, notifyme() lowers the flag.    *)
Callback ==
    /\ dog = "callback"
    /\ IF fCallback = "exitme" THEN main' = "crashed" /\ UNCHANGED gRunDAQ
                               ELSE gRunDAQ' = FALSE /\ UNCHANGED main
    /\ bitten' = Append(bitten, late)
    /\ dog' = "ended" /\ fMutex' = "free"
    /\ UNCHANGED <<fRunning, fCallback, late, notified, joined, full, resets>>

Dog == Running /\ (DogLocks \/ DogChecks \/ DogBites \/ Callback)
-----------------------------------------------------------------------------
(* main(): a watchdog for the measurements, and one for the data taking,   *)
(* which --full leaves out.  The flag is raised after it is started.       *)
Begin    == main = "begin" /\ Start("exitme", "measure")
Measured == /\ main = "measure"
            /\ main' = (IF full THEN "last" ELSE "stop")
            /\ UNCHANGED <<threadVars, full, resets, gRunDAQ, bitten>>
Again1   == main = "again" /\ Start("notifyme", "configure")
TakeData == /\ main = "configure" /\ gRunDAQ' = TRUE /\ main' = "daq"
            /\ UNCHANGED <<threadVars, full, resets, bitten>>
DaqLoop  == /\ main = "daq" /\ main' = (IF gRunDAQ THEN "daq" ELSE "last")
            /\ UNCHANGED <<threadVars, full, resets, gRunDAQ, bitten>>

(* The end of main() destroys the watchdog: a thread that was not joined   *)
(* ends the program there.                                                 *)
Return   == /\ main = "end"
            /\ main' = (IF joined THEN "returned" ELSE "terminated")
            /\ UNCHANGED <<threadVars, full, resets, gRunDAQ, bitten>>

Main == \/ Begin \/ Measured \/ Again1 \/ TakeData \/ DaqLoop \/ Return \/ Reset
        \/ StopLook("stop", "stop lock", "again") \/ StopNotify("stop lock", "stop join")
        \/ StopJoin("stop join", "again")
        \/ StopLook("last", "last lock", "end") \/ StopNotify("last lock", "last join")
        \/ StopJoin("last join", "end")

DogNext == Dog \/ (Running /\ Main) \/ (Running /\ Late)
-----------------------------------------------------------------------------
(* A callback runs only when the deadline has passed and no Reset() moved  *)
(* it since, and never after Stop() has joined the thread.                 *)
BitesInTime ==
    /\ \A k \in DOMAIN bitten : bitten[k]
    /\ main \in {"again", "end"} /\ joined => dog = "ended"
-----------------------------------------------------------------------------
(* The inductive invariant behind BitesInTime.                             *)

(* The thread holds the mutex from the moment it looks at the flag and the *)
(* clock until it waits or ends; nobody else keeps it between two steps.   *)
MutexOK ==
    /\ fMutex = (IF dog \in {"check", "bite", "callback"} THEN "dog" ELSE "free")
    /\ bitten \in Seq(BOOLEAN)

(* While it holds the mutex the deadline cannot move, unless a watchdog is *)
(* started over one that was not joined, which ends the program.           *)
DeadlineHeld ==
    Running => /\ dog = "bite" /\ fRunning => late
               /\ dog = "callback" => late

(* The thread that was joined has ended.                                   *)
JoinedEnded ==
    /\ dog = "none" <=> main = "begin"
    /\ joined => dog \in {"none", "ended"}
    /\ main = "begin" => joined

DogInv == MutexOK /\ DeadlineHeld /\ JoinedEnded /\ BitesInTime
=============================================================================
