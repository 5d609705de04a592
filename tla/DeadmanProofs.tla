--------------------------- MODULE DeadmanProofs ---------------------------
(***************************************************************************)
(* Theorems about Deadman, for any triggers, phases, grace period and      *)
(* number of armings.                                                      *)
(***************************************************************************)
EXTENDS Deadman, TLAPS

\* Every counted error is one of a completed phase: what keeps the number of
\* errors in range.
ErrorsCounted == \A d \in DOMAIN daemons : daemons[d].errors <= daemons[d].done

IndInv == TypeOK /\ ErrorsCounted /\ OneUnstopped

-----------------------------------------------------------------------------
(* One daemon moves.                                                        *)

\* A step of d replaces the record of daemon d by one that is as good, and leaves
\* its stop flag alone.
StepOf(d) ==
    \E x \in Daemon :
        /\ daemons' = [daemons EXCEPT ![d] = x]
        /\ x.errors <= x.done
        /\ x.shutdown = daemons[d].shutdown

\* Replacing one daemon keeps the sequence, and every other daemon.
LEMMA ReplaceOne ==
    ASSUME NEW s \in Seq(Daemon), NEW d \in DOMAIN s, NEW x \in Daemon
    PROVE  LET r == [s EXCEPT ![d] = x] IN
           /\ r \in Seq(Daemon) /\ Len(r) = Len(s) /\ DOMAIN r = DOMAIN s
           /\ r[d] = x /\ \A e \in DOMAIN s \ {d} : r[e] = s[e]
  OBVIOUS

\* Every step of run() is a StepOf its daemon.
LEMMA RunSteps ==
    ASSUME TypeOK, ErrorsCounted, NEW d, Run(d)
    PROVE  StepOf(d)
  <1> DEFINE D == daemons[d]
             T == 1..(Len(Triggers) + 1)
             P == 0..Len(Phases)
  <1> d \in DOMAIN daemons /\ daemons \in Seq(Daemon)
    BY DEF Run, TypeOK
  <1>1. D \in Daemon /\ D.errors <= D.done
    BY DEF ErrorsCounted
  <1>2. Len(Triggers) \in Nat /\ Len(Phases) \in Nat /\ Grace \in Nat /\ MaxNap \in Nat
    BY DeadmanAssumption
  <1> USE DEF StepOf
  <1>3. ASSUME NEW p \in Points, Goto(d, p)
        PROVE  StepOf(d)
    <2> DEFINE x == [D EXCEPT !.at = p]
    <2>1. x \in Daemon /\ x.errors <= x.done /\ x.shutdown = D.shutdown
      BY <1>1 DEF Daemon
    <2>2. daemons' = [daemons EXCEPT ![d] = x]
      BY <1>3 DEF Goto
    <2> QED BY <2>1, <2>2
  <1>4. CASE Top(d)
    <2> DEFINE p == IF D.shutdown THEN "Shutdown" ELSE "check"
               x == [D EXCEPT !.at = p, !.next = 1]
    <2>1. p \in Points /\ 1 \in T
      BY <1>2 DEF Points, Outcomes
    <2>2. daemons' = [daemons EXCEPT ![d] = x]
      BY <1>4 DEF Top
    <2> HIDE DEF p
    <2>3. x \in Daemon /\ x.errors = D.errors /\ x.done = D.done /\ x.shutdown = D.shutdown
      BY <1>1, <2>1, Zenon DEF Daemon
    <2> QED BY <1>1, <2>2, <2>3
  <1>5. CASE Check(d)
    <2>1. CASE Goto(d, "wait")
      BY <2>1, <1>3 DEF Points
    <2>2. CASE daemons' = [daemons EXCEPT ![d].at = "grace", ![d].left = Grace]
      <3> DEFINE x == [D EXCEPT !.at = "grace", !.left = Grace]
      <3>1. "grace" \in Points /\ Grace \in 0..Grace
        BY <1>2 DEF Points
      <3>2. daemons' = [daemons EXCEPT ![d] = x]
        BY <2>2
      <3>3. x \in Daemon /\ x.errors = D.errors /\ x.done = D.done /\ x.shutdown = D.shutdown
        BY <1>1, <3>1, Zenon DEF Daemon
      <3> QED BY <1>1, <3>2, <3>3
    <2>3. CASE D.next <= Len(Triggers) /\ daemons' = [daemons EXCEPT ![d].next = @ + 1]
      <3> DEFINE n == D.next + 1
                 x == [D EXCEPT !.next = n]
      <3>1. D.next \in T
        BY <1>1, Zenon DEF Daemon
      <3>2. n \in T
        BY <1>2, <2>3, <3>1
      <3>3. daemons' = [daemons EXCEPT ![d] = x]
        BY <2>3
      <3> HIDE DEF n
      <3>4. x \in Daemon /\ x.errors = D.errors /\ x.done = D.done /\ x.shutdown = D.shutdown
        BY <1>1, <3>2, Zenon DEF Daemon
      <3> QED BY <1>1, <3>3, <3>4
    <2> QED BY <1>5, <2>1, <2>2, <2>3 DEF Check
  <1>6. CASE Wait(d)
    BY <1>6, <1>3 DEF Wait, Points
  <1>7. CASE InGrace(d)
    <2>1. \E p \in Points : Goto(d, p)
      BY <1>7 DEF InGrace, Points, Outcomes
    <2> QED BY <2>1, <1>3
  <1>8. CASE Nap(d)
    <2> PICK seconds \in 1..MaxNap :
               daemons' = [daemons EXCEPT ![d].at = "grace",
                                          ![d].left = IF @ > seconds THEN @ - seconds ELSE 0]
      BY <1>8 DEF Nap
    <2> DEFINE l == IF D.left > seconds THEN D.left - seconds ELSE 0
               x == [D EXCEPT !.at = "grace", !.left = l]
    <2>1. D.left \in 0..Grace /\ "grace" \in Points
      BY <1>1, Zenon DEF Daemon, Points
    <2>2. l \in 0..Grace
      BY <1>2, <2>1
    <2>3. daemons' = [daemons EXCEPT ![d] = x]
      OBVIOUS
    <2> HIDE DEF l
    <2>4. x \in Daemon /\ x.errors = D.errors /\ x.done = D.done /\ x.shutdown = D.shutdown
      BY <1>1, <2>1, <2>2, Zenon DEF Daemon
    <2> QED BY <1>1, <2>3, <2>4
  <1>9. CASE Destroy(d)
    <2>1. CASE D.done = Len(Phases)
      BY <2>1, <1>9, <1>3 DEF Destroy, Points, Outcomes
    <2>2. CASE D.done # Len(Phases)
      <3> DEFINE k == D.done + 1
                 e == D.errors + IF Phases[k] = "custom" THEN 1 ELSE 0
                 x == [D EXCEPT !.done = k, !.errors = e]
      <3>1. D.done \in P /\ D.errors \in P
        BY <1>1, Zenon DEF Daemon
      <3>2. k \in P /\ e \in P /\ e <= k
        BY <1>1, <1>2, <2>2, <3>1
      <3>3. daemons' = [daemons EXCEPT ![d] = x]
        BY <2>2, <1>9 DEF Destroy
      <3> HIDE DEF k, e
      <3>4. x \in Daemon /\ x.errors = e /\ x.done = k /\ x.shutdown = D.shutdown
        BY <1>1, <3>2, Zenon DEF Daemon
      <3> QED BY <3>2, <3>3, <3>4
    <2> QED BY <2>1, <2>2
  <1> QED BY <1>4, <1>5, <1>6, <1>7, <1>8, <1>9 DEF Run

-----------------------------------------------------------------------------
(* The invariant.                                                           *)

\* Arming adds a daemon at the end.
LEMMA AddOne ==
    ASSUME TypeOK, Arm
    PROVE  /\ daemons' \in Seq(Daemon) /\ Len(daemons') = Len(daemons) + 1
           /\ DOMAIN daemons' = DOMAIN daemons \cup {Len(daemons) + 1}
           /\ \A d \in DOMAIN daemons : daemons'[d] = daemons[d]
           /\ daemons'[Len(daemons) + 1] = NewDaemon
  <1>1. NewDaemon \in Daemon
    BY DeadmanAssumption DEF NewDaemon, Daemon, Points
  <1> QED BY <1>1 DEF Arm, TypeOK

\* Disarming sets the flag of the daemon that is held, and nothing else.
LEMMA TellOne ==
    ASSUME TypeOK, Disarm
    PROVE  \E x \in Daemon :
               /\ daemons' = [daemons EXCEPT ![service] = x]
               /\ x = [daemons[service] EXCEPT !.shutdown = TRUE]
               /\ service \in DOMAIN daemons
  <1>1. service \in DOMAIN daemons /\ daemons[service] \in Daemon
    BY DEF Disarm, TypeOK
  <1> DEFINE x == [daemons[service] EXCEPT !.shutdown = TRUE]
  <1>2. x \in Daemon
    BY <1>1, Zenon DEF Daemon
  <1>3. daemons' = [daemons EXCEPT ![service] = x]
    BY DEF Disarm
  <1> QED BY <1>1, <1>2, <1>3

\* IndInv is inductive.
LEMMA IndInvInductive == IndInv /\ [Next]_vars => IndInv'
  <1> SUFFICES ASSUME IndInv, [Next]_vars
               PROVE  IndInv'
    OBVIOUS
  <1> USE DEF IndInv
  <1>0. daemons \in Seq(Daemon) /\ Len(daemons) \in Nat /\ DOMAIN daemons = 1..Len(daemons)
    BY DEF TypeOK
  <1>1. CASE Arm
    <2>1. TypeOK'
      BY <1>1, <1>0, AddOne, DeadmanAssumption DEF Arm, TypeOK
    <2>2. ErrorsCounted'
      BY <1>1, AddOne DEF ErrorsCounted, NewDaemon
    <2>3. OneUnstopped'
      BY <1>1, <1>0, AddOne DEF Arm, OneUnstopped
    <2> QED BY <2>1, <2>2, <2>3
  <1>2. CASE Disarm
    <2> PICK x \in Daemon : /\ daemons' = [daemons EXCEPT ![service] = x]
                            /\ x = [daemons[service] EXCEPT !.shutdown = TRUE]
                            /\ service \in DOMAIN daemons
      BY <1>2, TellOne
    <2>1. x.errors <= x.done /\ x.shutdown
      BY <1>0, Zenon DEF ErrorsCounted, Daemon
    <2>2. /\ daemons' \in Seq(Daemon) /\ Len(daemons') = Len(daemons) /\ DOMAIN daemons' = DOMAIN daemons
          /\ daemons'[service] = x /\ \A e \in DOMAIN daemons \ {service} : daemons'[e] = daemons[e]
      BY <1>0, ReplaceOne
    <2>3. TypeOK'
      BY <1>2, <1>0, <2>2 DEF Disarm, TypeOK
    <2>4. ErrorsCounted'
      BY <2>1, <2>2 DEF ErrorsCounted
    <2>5. OneUnstopped'
      BY <2>1, <2>2, Zenon DEF OneUnstopped
    <2> QED BY <2>3, <2>4, <2>5
  <1>3. ASSUME NEW d, Run(d)
        PROVE  IndInv'
    <2> PICK x \in Daemon : /\ daemons' = [daemons EXCEPT ![d] = x]
                            /\ x.errors <= x.done
                            /\ x.shutdown = daemons[d].shutdown
      BY <1>3, RunSteps DEF StepOf
    <2>1. d \in DOMAIN daemons /\ UNCHANGED <<service, bad>>
      BY <1>3 DEF Run
    <2>2. /\ daemons' \in Seq(Daemon) /\ Len(daemons') = Len(daemons) /\ DOMAIN daemons' = DOMAIN daemons
          /\ daemons'[d] = x /\ \A e \in DOMAIN daemons \ {d} : daemons'[e] = daemons[e]
      BY <1>0, <2>1, ReplaceOne
    <2>3. TypeOK'
      BY <2>1, <2>2 DEF TypeOK
    <2>4. ErrorsCounted'
      BY <2>2 DEF ErrorsCounted
    <2>5. OneUnstopped'
      BY <2>1, <2>2, Zenon DEF OneUnstopped
    <2> QED BY <2>3, <2>4, <2>5
  <1>4. ASSUME NEW t \in DOMAIN Triggers, Turn(t)
        PROVE  IndInv'
    BY <1>4 DEF Turn, TypeOK, ErrorsCounted, OneUnstopped
  <1>5. CASE UNCHANGED vars
    BY <1>5 DEF vars, TypeOK, ErrorsCounted, OneUnstopped
  <1> QED BY <1>1, <1>2, <1>3, <1>4, <1>5 DEF Next

\* IndInv holds before the first arming.
LEMMA InitInv == Init => IndInv
  <1> SUFFICES ASSUME Init
               PROVE  IndInv
    OBVIOUS
  <1>1. daemons = <<>> /\ Len(daemons) = 0 /\ service = 0 /\ bad = {}
    BY DEF Init
  <1>2. daemons \in Seq(Daemon) /\ \A d : d \notin DOMAIN daemons
    BY <1>1
  <1> QED BY <1>1, <1>2, DeadmanAssumption DEF IndInv, TypeOK, ErrorsCounted, OneUnstopped

\* For any triggers, phases, grace period and number of armings, every daemon
\* stays within its loop, its grace period and its phases.
THEOREM DeadmanTypeCorrect == Spec => []TypeOK
  BY InitInv, IndInvInductive, PTL DEF Spec, IndInv

\* However often and whenever the service is armed and disarmed, only the
\* daemon it holds is without a stop signal.
THEOREM AlwaysOneUnstopped == Spec => []OneUnstopped
  BY InitInv, IndInvInductive, PTL DEF Spec, IndInv

-----------------------------------------------------------------------------
(* A disarmed daemon that is in time.                                       *)

\* Daemon d was told to stop while it still looks at the flag, or has stopped
\* for that reason.
Safe(d) == Told(d) /\ (InTime(d) \/ At(d) \in {"Shutdown", "Disarmed"})

\* Whatever daemon d does, it does not leave Safe: every way to the destruction
\* goes through a look at the flag.
LEMMA SafeRun ==
    ASSUME IndInv, NEW d, Run(d), Safe(d)
    PROVE  Safe(d)'
  <1> DEFINE D == daemons[d]
             x == daemons'[d]
  <1>1. d \in DOMAIN daemons /\ d \in DOMAIN daemons' /\ D \in Daemon /\ x.shutdown = D.shutdown
    <2>1. d \in DOMAIN daemons /\ daemons \in Seq(Daemon)
      BY DEF Run, IndInv, TypeOK
    <2>2. PICK y \in Daemon : daemons' = [daemons EXCEPT ![d] = y] /\ y.shutdown = D.shutdown
      BY RunSteps DEF StepOf, IndInv
    <2> QED BY <2>1, <2>2
  <1>2. D.left \in 0..Grace /\ Grace \in Nat /\ MaxNap \in Nat
    BY <1>1, DeadmanAssumption DEF Daemon
  <1>3. D.shutdown
    BY Zenon DEF Safe, Told
  <1>4. \/ D.at \in {"top", "wait", "Shutdown", "Disarmed"}
        \/ D.at = "check" /\ Grace > 0
        \/ D.at = "grace" /\ D.left > 0
        \/ D.at = "nap" /\ D.left > MaxNap
    BY <1>1 DEF Safe, InTime, At
  <1>5. \/ x.at \in {"top", "wait", "Shutdown", "Disarmed"}
        \/ x.at = "check" /\ Grace > 0
        \/ x.at = "grace" /\ x.left > 0
    <2>1. CASE Top(d)
      <3>1. x.at = IF D.shutdown THEN "Shutdown" ELSE "check"
        BY <1>1, <2>1 DEF Top, Daemon
      <3> QED BY <3>1, <1>3
    <2>2. CASE Check(d)
      <3>1. \/ x.at = "wait"
            \/ x.at = "grace" /\ x.left = Grace
            \/ x.at = "check"
        BY <1>1, <2>2 DEF Check, Goto, Daemon
      <3> QED BY <3>1, <1>4, <2>2 DEF Check
    <2>3. CASE Wait(d)
      BY <1>1, <2>3 DEF Wait, Goto, Daemon
    <2>4. CASE InGrace(d)
      <3>1. D.left > 0
        BY <1>4, <2>4 DEF InGrace
      <3>2. Goto(d, "Disarmed")
        BY <1>2, <1>3, <2>4, <3>1 DEF InGrace
      <3> QED BY <1>1, <3>2 DEF Goto, Daemon
    <2>5. CASE Nap(d)
      <3>1. D.left > MaxNap
        BY <1>4, <2>5 DEF Nap
      <3>2. PICK seconds \in 1..MaxNap :
                   daemons' = [daemons EXCEPT ![d].at = "grace",
                                              ![d].left = IF @ > seconds THEN @ - seconds ELSE 0]
        BY <2>5 DEF Nap
      <3>3. x.at = "grace" /\ x.left = IF D.left > seconds THEN D.left - seconds ELSE 0
        BY <1>1, <3>2 DEF Daemon
      <3> QED BY <1>2, <3>1, <3>3
    <2>6. CASE Destroy(d)
      BY <1>4, <2>6 DEF Destroy
    <2> QED BY <2>1, <2>2, <2>3, <2>4, <2>5, <2>6 DEF Run
  <1>6. x.shutdown
    BY <1>1, <1>3
  <1>7. Told(d)'
    BY <1>1, <1>6, Zenon DEF Told
  <1>8. (InTime(d) \/ At(d) \in {"Shutdown", "Disarmed"})'
    BY <1>1, <1>5 DEF InTime, At
  <1> QED BY <1>7, <1>8 DEF Safe

\* What happens to daemon d alone decides whether it stays Safe.
LEMMA SafeUntouched ==
    ASSUME NEW d \in DOMAIN daemons, d \in DOMAIN daemons', Safe(d),
           daemons'[d].at = daemons[d].at, daemons'[d].left = daemons[d].left,
           daemons[d].shutdown => daemons'[d].shutdown
    PROVE  Safe(d)'
  <1>1. Told(d)'
    BY Zenon DEF Safe, Told
  <1>2. (InTime(d) \/ At(d) \in {"Shutdown", "Disarmed"})'
    BY DEF Safe, InTime, At
  <1> QED BY <1>1, <1>2 DEF Safe

\* Safe(d) is preserved by every step of the service and of all daemons.
LEMMA SafeInductive ==
    ASSUME NEW d
    PROVE  IndInv /\ Safe(d) /\ [Next]_vars => Safe(d)'
  <1> SUFFICES ASSUME IndInv, Safe(d), [Next]_vars
               PROVE  Safe(d)'
    OBVIOUS
  <1>0. d \in DOMAIN daemons /\ daemons \in Seq(Daemon)
    BY DEF Safe, Told, IndInv, TypeOK
  <1>1. CASE Arm
    <2>1. d \in DOMAIN daemons' /\ daemons'[d] = daemons[d]
      BY <1>0, <1>1, AddOne DEF IndInv
    <2> QED BY <1>0, <2>1, SafeUntouched
  <1>2. CASE Disarm
    <2> PICK y \in Daemon : /\ daemons' = [daemons EXCEPT ![service] = y]
                            /\ y = [daemons[service] EXCEPT !.shutdown = TRUE]
                            /\ service \in DOMAIN daemons
      BY <1>2, TellOne DEF IndInv
    <2>1. d \in DOMAIN daemons' /\ (d # service => daemons'[d] = daemons[d])
      BY <1>0, ReplaceOne
    <2>2. CASE d = service
      <3>1. daemons'[d] = y
        BY <1>0, <2>2, ReplaceOne
      <3>2. daemons[service] \in Daemon
        BY <1>0
      <3>3. y.at = daemons[service].at /\ y.left = daemons[service].left /\ y.shutdown
        BY <3>2, Zenon DEF Daemon
      <3> QED BY <1>0, <2>1, <2>2, <3>1, <3>3, SafeUntouched
    <2>3. CASE d # service
      BY <1>0, <2>1, <2>3, SafeUntouched
    <2> QED BY <2>2, <2>3
  <1>3. ASSUME NEW e, Run(e)
        PROVE  Safe(d)'
    <2>1. CASE e = d
      BY <1>3, <2>1, SafeRun
    <2>2. CASE e # d
      <3> PICK y \in Daemon : daemons' = [daemons EXCEPT ![e] = y]
        BY <1>3, RunSteps DEF StepOf, IndInv
      <3>1. d \in DOMAIN daemons' /\ daemons'[d] = daemons[d]
        BY <1>0, <2>2
      <3> QED BY <1>0, <3>1, SafeUntouched
    <2> QED BY <2>1, <2>2
  <1>4. CASE UNCHANGED daemons
    BY <1>0, <1>4, SafeUntouched
  <1> QED BY <1>1, <1>2, <1>3, <1>4 DEF Next, Turn, vars

\* For any triggers, grace period and number of armings: a daemon that is
\* disarmed before the last sleep of its grace period never destroys anything,
\* however late its sleeps end within MaxNap seconds.
THEOREM DisarmedAlwaysSurvives == Spec => DisarmedInTimeSurvives
  <1>1. SUFFICES ASSUME NEW d \in 1..MaxArms
                 PROVE  Spec => [](Told(d) /\ InTime(d) => [](At(d) \notin {"destroy", "Destroyed"}))
    BY DEF DisarmedInTimeSurvives
  <1>2. Told(d) /\ InTime(d) => Safe(d)
    BY DEF Safe
  <1>3. Safe(d) => At(d) \notin {"destroy", "Destroyed"}
    BY DEF Safe, InTime
  <1>4. IndInv /\ Safe(d) /\ [Next]_vars => Safe(d)'
    BY SafeInductive
  <1> QED BY <1>2, <1>3, <1>4, InitInv, IndInvInductive, PTL DEF Spec
=============================================================================
