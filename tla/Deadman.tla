------------------------------ MODULE Deadman ------------------------------
(***************************************************************************)
(* The dead man's switch: DeadmanService arms and disarms it, each arming  *)
(* spawns a DeadmanDaemon whose loop evaluates the triggers one after      *)
(* another, waits out the grace period when one has fired, and runs the    *)
(* phases of the destruction.                                              *)
(*                                                                         *)
(* Disarming stores a flag and does not wait: the daemon goes on until it  *)
(* looks at the flag, and a new daemon can be armed meanwhile.  A daemon's *)
(* step is the code between two awaits.  The daemon is moved into its task,*)
(* so nobody else clears its controller's armed flag, which stays TRUE.    *)
(***************************************************************************)
EXTENDS Naturals, Sequences

CONSTANTS
    Triggers,  \* the configured triggers, in order, by what they check
    Phases,    \* the phases of the destruction, in order
    Grace,     \* the grace period, in seconds
    MaxNap,    \* bound: seconds one sleep of a second can take on a busy runtime
    MaxArms    \* bound: how often the switch is armed

TriggerKinds == {"heartbeat", "network", "rpc", "os", "custom", "inactive"}
PhaseKinds == {"keys", "database", "cache", "telegram", "custom"}

ASSUME DeadmanAssumption ==
    /\ Triggers \in Seq(TriggerKinds)
    /\ Phases \in Seq(PhaseKinds)
    /\ Grace \in Nat
    /\ MaxNap \in Nat \ {0}
    /\ MaxArms \in Nat

VARIABLES
    service,  \* DeadmanService.state: the daemon it holds, 0 for None
    daemons,  \* the daemons in the order they were armed
    bad       \* the triggers whose condition is violated at the moment

vars == <<service, daemons, bad>>

Outcomes == {"Shutdown", "Disarmed", "Destroyed"}
Points == {"top", "check", "wait", "grace", "nap", "destroy"} \cup Outcomes

\* at: where in run() the daemon is, or its outcome; next: the trigger it
\* evaluates next; left: seconds left of the grace period; done: the
\* phases completed; errors: how many of them failed.
Daemon == [at: Points, shutdown: BOOLEAN, next: 1..(Len(Triggers) + 1),
           left: 0..Grace, done: 0..Len(Phases), errors: 0..Len(Phases)]

TypeOK ==
    /\ daemons \in Seq(Daemon) /\ Len(daemons) <= MaxArms
    /\ service \in 0..Len(daemons)
    /\ bad \subseteq DOMAIN Triggers

-----------------------------------------------------------------------------
(* DeadmanService.                                                          *)

NewDaemon == [at |-> "top", shutdown |-> FALSE, next |-> 1, left |-> 0, done |-> 0, errors |-> 0]

\* arm: refused while a daemon is held.
Arm ==
    /\ service = 0
    /\ Len(daemons) < MaxArms
    /\ daemons' = Append(daemons, NewDaemon)
    /\ service' = Len(daemons) + 1
    /\ UNCHANGED bad

\* Mutant: the daemon is let go without a signal.
DisarmSilently == service # 0 /\ service' = 0 /\ UNCHANGED <<daemons, bad>>

\* disarm: the daemon is let go, not awaited.
Disarm ==
    /\ service # 0
    /\ daemons' = [daemons EXCEPT ![service].shutdown = TRUE]
    /\ service' = 0
    /\ UNCHANGED bad

-----------------------------------------------------------------------------
(* DeadmanDaemon::run, between its awaits.                                  *)

Goto(d, point) == daemons' = [daemons EXCEPT ![d].at = point]

\* Mutant: the loop does not look at the flag.
TopUnchecked(d) ==
    /\ daemons[d].at = "top"
    /\ daemons' = [daemons EXCEPT ![d].at = "check", ![d].next = 1]

\* The top of the loop; check() starts with the first trigger.
Top(d) ==
    /\ daemons[d].at = "top"
    /\ daemons' = [daemons EXCEPT ![d].at = IF daemons[d].shutdown THEN "Shutdown" ELSE "check",
                                  ![d].next = 1]

\* What evaluating trigger t can result in.
Evaluate(t) ==
    CASE Triggers[t] \in {"inactive", "heartbeat"} -> {"Ok"}
      [] Triggers[t] \in {"rpc", "os"} -> {"Error"}
      [] Triggers[t] = "network" -> IF t \in bad THEN {"Fired"} ELSE {"Ok"}
      [] Triggers[t] = "custom" -> {"Error"} \cup IF t \in bad THEN {"Fired"} ELSE {"Ok"}

\* Mutant: a trigger that cannot be evaluated ends the check.
CheckUntilError(d) ==
    /\ daemons[d].at = "check"
    /\ \/ daemons[d].next > Len(Triggers) /\ Goto(d, "wait")
       \/ /\ daemons[d].next <= Len(Triggers)
          /\ \E result \in Evaluate(daemons[d].next) :
               \/ result = "Fired" /\ daemons' = [daemons EXCEPT ![d].at = "grace", ![d].left = Grace]
               \/ result = "Error" /\ Goto(d, "wait")
               \/ result = "Ok" /\ daemons' = [daemons EXCEPT ![d].next = @ + 1]

\* evaluate_all: the first trigger that fires ends it; errors are passed over.
Check(d) ==
    /\ daemons[d].at = "check"
    /\ \/ /\ daemons[d].next > Len(Triggers)
          /\ Goto(d, "wait")
       \/ /\ daemons[d].next <= Len(Triggers)
          /\ \E result \in Evaluate(daemons[d].next) :
               IF result = "Fired"
                 THEN daemons' = [daemons EXCEPT ![d].at = "grace", ![d].left = Grace]
                 ELSE daemons' = [daemons EXCEPT ![d].next = @ + 1]

\* The sleep of check_interval ends.
Wait(d) == daemons[d].at = "wait" /\ Goto(d, "top")

\* Mutant: the grace loop does not look at the flag.
InGraceUnchecked(d) ==
    /\ daemons[d].at = "grace"
    /\ Goto(d, IF daemons[d].left = 0 THEN "destroy" ELSE "nap")

\* The head of the grace loop.
InGrace(d) ==
    /\ daemons[d].at = "grace"
    /\ Goto(d, CASE daemons[d].left = 0 -> "destroy"
                 [] daemons[d].left > 0 /\ daemons[d].shutdown -> "Disarmed"
                 [] OTHER -> "nap")

\* The sleep of a second in the grace loop ends, on time or late.
Nap(d) ==
    /\ daemons[d].at = "nap"
    /\ \E seconds \in 1..MaxNap :
         daemons' = [daemons EXCEPT ![d].at = "grace",
                                    ![d].left = IF @ > seconds THEN @ - seconds ELSE 0]

\* DestructionExecutor::execute without a database path, a cache directory or
\* leave to run custom commands: a custom command is an error, and no error
\* keeps the next phase from running.  (The first 40 bytes of a command are taken
\* to be whole characters: the message that quotes them panics otherwise.)
Destroy(d) ==
    LET phase == daemons[d].done + 1 IN
    /\ daemons[d].at = "destroy"
    /\ IF daemons[d].done = Len(Phases)
         THEN Goto(d, "Destroyed")
         ELSE daemons' = [daemons EXCEPT ![d].done = phase,
                                         ![d].errors = @ + IF Phases[phase] = "custom" THEN 1 ELSE 0]

Run(d) ==
    /\ d \in DOMAIN daemons
    /\ Top(d) \/ Check(d) \/ Wait(d) \/ InGrace(d) \/ Nap(d) \/ Destroy(d)
    /\ UNCHANGED <<service, bad>>

\* A trigger's condition becomes violated, or is met again.
Turn(t) ==
    /\ bad' = IF t \in bad THEN bad \ {t} ELSE bad \cup {t}
    /\ UNCHANGED <<service, daemons>>

-----------------------------------------------------------------------------
Init == service = 0 /\ daemons = <<>> /\ bad = {}

Next ==
    \/ Arm
    \/ Disarm
    \/ \E d \in 1..MaxArms : Run(d)
    \/ \E t \in DOMAIN Triggers : Turn(t)

\* The runtime polls every spawned task again and again, sleeps end, and the
\* evaluation of a trigger is under a timeout.
Fairness == \A d \in 1..MaxArms : WF_vars(Run(d))

Spec == Init /\ [][Next]_vars /\ Fairness

-----------------------------------------------------------------------------
(* Properties.                                                              *)

At(d) == IF d \in DOMAIN daemons THEN daemons[d].at ELSE "unborn"
Stopped(d) == At(d) \in Outcomes
Told(d) == d \in DOMAIN daemons /\ daemons[d].shutdown

\* Only the daemon that the service holds can be without a stop signal:
\* disarming and arming again in the middle of a check or of a grace period
\* never leaves a second daemon that nobody can stop any more.
OneUnstopped == \A d \in DOMAIN daemons : ~daemons[d].shutdown => service = d

\* The daemon still looks at the flag before it destroys anything.
InTime(d) ==
    \/ At(d) \in {"top", "wait"}
    \/ At(d) = "check" /\ Grace > 0
    \/ At(d) = "grace" /\ daemons[d].left > 0
    \/ At(d) = "nap" /\ daemons[d].left > MaxNap

\* A daemon that is disarmed before the last sleep of its grace period never
\* destroys anything.
DisarmedInTimeSurvives ==
    \A d \in 1..MaxArms : [](Told(d) /\ InTime(d) => [](At(d) \notin {"destroy", "Destroyed"}))

\* Every daemon that is disarmed stops, whatever its triggers do.
DisarmStops == \A d \in 1..MaxArms : Told(d) ~> Stopped(d)

\* An armed daemon that is never disarmed, with a network trigger that stays
\* violated, ends in Destroyed: no trigger before it that errors or fires now
\* and then can keep it from that.
ViolationDestroys ==
    \A d \in 1..MaxArms, t \in DOMAIN Triggers :
        Triggers[t] = "network" /\ <>[](service = d /\ t \in bad) => <>(At(d) = "Destroyed")
=============================================================================
