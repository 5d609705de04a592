--------------------------- MODULE TelegramProofs ---------------------------
(***************************************************************************)
(* Theorems about Telegram, for any number of tasks, permits, retries and  *)
(* messages.                                                               *)
(***************************************************************************)
EXTENDS Telegram, WellFoundedInduction, TLAPS

-----------------------------------------------------------------------------
(* The inductive invariant, in parts.                                       *)

\* The messages, and the ids that the client has handed out and got back.
CloudTyped ==
    /\ last \in 0..MaxMessages
    /\ messages \subseteq 1..last /\ acked \subseteq 1..last /\ dropped \subseteq 1..last

\* The steps of the four operations.
Transfers == {"upload", "download"}
LoginSteps == {"connect", "install", "phone", "ask", "code", "sign in", "password", "check"}

\* A call is at a step of the operation that was called, and has no result yet.
Staged(t) ==
    /\ call[t].at = "idle" <=> call[t].op = "none"
    /\ call[t].at # "idle" => call[t].result = "none"
    /\ call[t].at \in {"permit", "backoff"} => call[t].op \in Transfers
    /\ call[t].at = "me" => call[t].op \in Transfers \cup {"delete"}
    /\ call[t].at = "send" => call[t].op = "upload"
    /\ call[t].at \in {"scan", "media"} => call[t].op = "download"
    /\ call[t].at = "delete" => call[t].op = "delete"
    /\ call[t].at \in LoginSteps => call[t].op = "login"

\* Every message that a call has lost is one of its failed attempts.
Counted(t) ==
    /\ call[t].op = "none" => call[t].strays <= max_retries
    /\ call[t].op = "none" /\ call[t].result = "ok" => call[t].strays < max_retries
    /\ call[t].op = "login" => call[t].strays = 0
    /\ call[t].op \in Transfers \cup {"delete"} =>
         call[t].strays <= call[t].attempt /\ call[t].attempt < max_retries

\* What is sought, and where: a scan has not passed it, a delete has said so.
Targeted(t) ==
    /\ call[t].target <= last
    /\ call[t].op = "delete" => call[t].target \in dropped
    /\ call[t].at = "scan" /\ call[t].target \in messages => call[t].target < call[t].cursor
    /\ call[t].result = "missing" => call[t].target \notin messages

CallsSound ==
    /\ call \in [Calls -> Call]
    /\ \A t \in Calls : Staged(t) /\ Counted(t) /\ Targeted(t)

IInv == CloudTyped /\ AckedStored /\ CallsSound

-----------------------------------------------------------------------------
(* The greatest id of a set of messages.                                    *)

\* A set of natural numbers has a least element.
LEMMA Least ==
    ASSUME NEW S \in SUBSET Nat, S # {}
    PROVE  \E m \in S : \A n \in S : m <= n
  <1>1. PICK m \in S : \A n \in S : <<n, m>> \notin OpToRel(<, Nat)
    BY WFMin, NatLessThanWellFounded
  <1>2. \A n \in S : ~(n < m)
    BY <1>1 DEF OpToRel
  <1> QED BY <1>2

\* A bounded one has a greatest, and Max gives it.
LEMMA MaxOfBounded ==
    ASSUME NEW n \in Nat, NEW S \in SUBSET (0..n), S # {}
    PROVE  Max(S) \in S /\ \A x \in S : x <= Max(S)
  <1> DEFINE T == {k \in Nat : \E x \in S : x + k = n}
  <1>1. \A x \in S : x \in Nat /\ n - x \in Nat /\ x + (n - x) = n
    OBVIOUS
  <1>2. T \in SUBSET Nat /\ T # {}
    BY <1>1
  <1>3. PICK m \in T : \A y \in T : m <= y
    <2> HIDE DEF T
    <2> QED BY <1>2, Least
  <1>4. PICK g \in S : g + m = n
    BY <1>3
  <1>4a. ASSUME NEW x \in S
         PROVE  g >= x
    <2>1. n - x \in T
      BY <1>1
    <2>2. m <= n - x /\ m \in Nat
      BY <1>3, <2>1
    <2> QED BY <1>1, <1>4, <2>2
  <1>5. Max(S) \in S /\ \A x \in S : Max(S) >= x
    BY <1>4a DEF Max
  <1> QED BY <1>5

-----------------------------------------------------------------------------
(* The shapes of a step: what it does to the messages and to a call.        *)

\* Everything but the call of t is as before.
Others(t) == \A u \in Calls \ {t} : call'[u] = call[u]

\* A message arrives, or some are deleted; what a delete was called with stays.
CloudStep ==
    /\ dropped \subseteq dropped'
    /\ \/ last' = last /\ messages' \subseteq messages
       \/ last' = last + 1 /\ messages' = messages \cup {last + 1}

\* The call has returned.
Returned(t, result, lost) ==
    /\ call' \in [Calls -> Call] /\ Others(t)
    /\ call'[t].op = "none" /\ call'[t].at = "idle" /\ call'[t].result = result
    /\ call'[t].strays = call[t].strays + lost
    /\ call'[t].target = IF result = "missing" THEN call[t].target ELSE 0

\* The call has got to another step.
Moved(t, at, attempt, cursor, lost) ==
    /\ call' \in [Calls -> Call] /\ Others(t)
    /\ call'[t].op = call[t].op /\ call'[t].at = at /\ call'[t].result = call[t].result
    /\ call'[t].strays = call[t].strays + lost /\ call'[t].attempt = attempt
    /\ call'[t].target = call[t].target /\ call'[t].cursor = cursor

\* A call has begun.
Begun(t, op, at, target) ==
    /\ call' \in [Calls -> Call] /\ Others(t)
    /\ call'[t].op = op /\ call'[t].at = at /\ call'[t].result = "none"
    /\ call'[t].strays = 0 /\ call'[t].attempt = 0 /\ call'[t].target = target

\* The steps a call can be at.
Steps == {"idle", "permit", "backoff", "connect", "phone", "code", "password"} \cup OnWire

\* The numbers of a state are natural numbers.
LEMMA Numbers ==
    ASSUME IInv
    PROVE  /\ last \in Nat /\ max_retries \in Nat /\ max_retries > 0 /\ MaxMessages \in Nat /\ last <= MaxMessages
           /\ call \in [Calls -> Call]
           /\ \A t \in Calls : /\ call[t] \in Call /\ call[t].strays \in Nat /\ call[t].attempt \in Nat
                              /\ call[t].target \in Nat /\ call[t].cursor \in Nat
  BY TelegramAssumption DEF IInv, CloudTyped, CallsSound, Call

\* An idle task has nothing.
LEMMA IdleType ==
    /\ Idle \in Call /\ Idle.op = "none" /\ Idle.at = "idle" /\ Idle.attempt = 0 /\ Idle.target = 0
    /\ Idle.cursor = 0 /\ Idle.strays = 0 /\ Idle.result = "none"
  <1>1. 0 \in 0..MaxMessages /\ 0 \in 0..(MaxMessages + 1)
    BY TelegramAssumption
  <1> QED BY <1>1 DEF Idle, Call

\* A call is replaced.
LEMMA Replaced ==
    ASSUME IInv, NEW t \in Calls, NEW x \in Call, call' = [call EXCEPT ![t] = x]
    PROVE  call' \in [Calls -> Call] /\ Others(t) /\ call'[t] = x
  BY DEF IInv, CallsSound, Others

\* A call returns.
LEMMA ReturnShape ==
    ASSUME IInv, NEW t \in Calls, NEW result \in {"ok", "missing", "error"}, NEW lost \in {0, 1},
           ReturnStraying(t, result, lost)
    PROVE  Returned(t, result, lost)
  <1> DEFINE target == IF result = "missing" THEN call[t].target ELSE 0
             strays == call[t].strays + lost
             x == [Idle EXCEPT !.result = result, !.strays = strays, !.target = target]
  <1>1. strays \in Nat
    BY Numbers
  <1>2. target \in 0..MaxMessages
    <2>1. 0 \in 0..MaxMessages
      BY TelegramAssumption
    <2> QED BY <2>1, Numbers DEF Call
  <1>3. call' = [call EXCEPT ![t] = x]
    BY DEF ReturnStraying
  <1> HIDE DEF strays, target
  <1>4. /\ x \in Call /\ x.op = "none" /\ x.at = "idle" /\ x.result = result /\ x.strays = strays
        /\ x.target = target
    BY <1>1, <1>2, IdleType DEF Call
  <1> HIDE DEF x
  <1>5. call' \in [Calls -> Call] /\ Others(t) /\ call'[t] = x
    BY <1>3, <1>4, Replaced
  <1> QED BY <1>4, <1>5 DEF Returned, strays, target

\* An attempt ends the call, or the call sleeps with one attempt more.
LEMMA AttemptShape ==
    ASSUME IInv, NEW t \in Calls, NEW error \in {"missing", "error"}, NEW lost \in {0, 1},
           AttemptFails(t, error, lost)
    PROVE  \/ Returned(t, error, lost)
           \/ /\ call[t].attempt + 1 < max_retries
              /\ Moved(t, "backoff", call[t].attempt + 1, call[t].cursor, lost)
  <1>1. CASE call[t].attempt + 1 < max_retries
    <2> DEFINE attempt == call[t].attempt + 1
               strays == call[t].strays + lost
               x == [call[t] EXCEPT !.at = "backoff", !.attempt = attempt, !.strays = strays]
    <2>1. strays \in Nat /\ attempt \in Nat /\ call[t] \in Call
      BY Numbers
    <2>2. call' = [call EXCEPT ![t] = x]
      BY <1>1, Numbers DEF AttemptFails, Call
    <2> HIDE DEF strays, attempt
    <2>3. /\ x \in Call /\ x.op = call[t].op /\ x.at = "backoff" /\ x.result = call[t].result
          /\ x.strays = strays /\ x.attempt = attempt /\ x.target = call[t].target /\ x.cursor = call[t].cursor
      BY <2>1 DEF Call
    <2> HIDE DEF x
    <2>4. call' \in [Calls -> Call] /\ Others(t) /\ call'[t] = x
      BY <2>2, <2>3, Replaced
    <2> QED BY <1>1, <2>3, <2>4 DEF Moved, strays, attempt
  <1>2. CASE ~(call[t].attempt + 1 < max_retries)
    BY <1>2, ReturnShape DEF AttemptFails
  <1> QED BY <1>1, <1>2

\* A call gets to another step.
LEMMA StepShape ==
    ASSUME IInv, NEW t \in Calls, NEW at \in Steps,
           call' = [call EXCEPT ![t].at = at]
    PROVE  Moved(t, at, call[t].attempt, call[t].cursor, 0)
  <1> DEFINE x == [call[t] EXCEPT !.at = at]
  <1>1. call[t] \in Call /\ call[t].strays + 0 = call[t].strays
    BY Numbers
  <1>2. call' = [call EXCEPT ![t] = x]
    BY Numbers DEF Call
  <1>3. /\ x \in Call /\ x.op = call[t].op /\ x.at = at /\ x.result = call[t].result
        /\ x.strays = call[t].strays /\ x.attempt = call[t].attempt /\ x.target = call[t].target
        /\ x.cursor = call[t].cursor
    BY <1>1 DEF Call, Steps
  <1> HIDE DEF x
  <1>4. call' \in [Calls -> Call] /\ Others(t) /\ call'[t] = x
    BY <1>2, <1>3, Replaced
  <1> QED BY <1>1, <1>3, <1>4 DEF Moved

\* A call gets to another step with another count.
LEMMA RoundShape ==
    ASSUME IInv, NEW t \in Calls, NEW at \in Steps, NEW attempt \in Nat,
           call' = [call EXCEPT ![t].at = at, ![t].attempt = attempt]
    PROVE  Moved(t, at, attempt, call[t].cursor, 0)
  <1> DEFINE x == [call[t] EXCEPT !.at = at, !.attempt = attempt]
  <1>1. call[t] \in Call /\ call[t].strays + 0 = call[t].strays
    BY Numbers
  <1>2. call' = [call EXCEPT ![t] = x]
    BY Numbers DEF Call
  <1>3. /\ x \in Call /\ x.op = call[t].op /\ x.at = at /\ x.result = call[t].result
        /\ x.strays = call[t].strays /\ x.attempt = attempt /\ x.target = call[t].target
        /\ x.cursor = call[t].cursor
    BY <1>1 DEF Call, Steps
  <1> HIDE DEF x
  <1>4. call' \in [Calls -> Call] /\ Others(t) /\ call'[t] = x
    BY <1>2, <1>3, Replaced
  <1> QED BY <1>1, <1>3, <1>4 DEF Moved

\* A call begins to scan the messages.
LEMMA LookShape ==
    ASSUME IInv, NEW t \in Calls, NEW at \in Steps, NEW cursor \in 0..(MaxMessages + 1),
           call' = [call EXCEPT ![t].cursor = cursor, ![t].at = at]
    PROVE  Moved(t, at, call[t].attempt, cursor, 0)
  <1> DEFINE x == [call[t] EXCEPT !.cursor = cursor, !.at = at]
  <1>1. call[t] \in Call /\ call[t].strays + 0 = call[t].strays
    BY Numbers
  <1>2. call' = [call EXCEPT ![t] = x]
    BY Numbers DEF Call
  <1>3. /\ x \in Call /\ x.op = call[t].op /\ x.at = at /\ x.result = call[t].result
        /\ x.strays = call[t].strays /\ x.attempt = call[t].attempt /\ x.target = call[t].target
        /\ x.cursor = cursor
    BY <1>1 DEF Call, Steps
  <1> HIDE DEF x
  <1>4. call' \in [Calls -> Call] /\ Others(t) /\ call'[t] = x
    BY <1>2, <1>3, Replaced
  <1> QED BY <1>1, <1>3, <1>4 DEF Moved

\* A scan goes on.
LEMMA ScanShape ==
    ASSUME IInv, NEW t \in Calls, NEW cursor \in 0..(MaxMessages + 1),
           call' = [call EXCEPT ![t].cursor = cursor]
    PROVE  Moved(t, call[t].at, call[t].attempt, cursor, 0)
  <1> DEFINE x == [call[t] EXCEPT !.cursor = cursor]
  <1>1. call[t] \in Call /\ call[t].strays + 0 = call[t].strays
    BY Numbers
  <1>2. call' = [call EXCEPT ![t] = x]
    BY Numbers DEF Call
  <1>3. /\ x \in Call /\ x.op = call[t].op /\ x.at = call[t].at /\ x.result = call[t].result
        /\ x.strays = call[t].strays /\ x.attempt = call[t].attempt /\ x.target = call[t].target
        /\ x.cursor = cursor
    BY <1>1 DEF Call, Steps
  <1> HIDE DEF x
  <1>4. call' \in [Calls -> Call] /\ Others(t) /\ call'[t] = x
    BY <1>2, <1>3, Replaced
  <1> QED BY <1>1, <1>3, <1>4 DEF Moved

\* A call begins.
LEMMA BeginShape ==
    ASSUME IInv, NEW t \in Calls, NEW op \in {"upload", "download", "delete", "login"}, NEW at \in Steps,
           NEW target \in 0..MaxMessages,
           call' = [call EXCEPT ![t] = [Idle EXCEPT !.op = op, !.at = at, !.target = target]]
    PROVE  Begun(t, op, at, target)
  <1> DEFINE x == [Idle EXCEPT !.op = op, !.at = at, !.target = target]
  <1>1. /\ x \in Call /\ x.op = op /\ x.at = at /\ x.result = "none" /\ x.strays = 0 /\ x.attempt = 0
        /\ x.target = target
    BY IdleType DEF Call, Steps
  <1>2. call' = [call EXCEPT ![t] = x]
    OBVIOUS
  <1> HIDE DEF x
  <1>3. call' \in [Calls -> Call] /\ Others(t) /\ call'[t] = x
    BY <1>1, <1>2, Replaced
  <1> QED BY <1>1, <1>3 DEF Begun

-----------------------------------------------------------------------------
(* What a step of each shape keeps.                                         *)

\* The calls that take no part in a step stay sound.
LEMMA OthersSound ==
    ASSUME IInv, CloudStep, NEW u \in Calls, call'[u] = call[u]
    PROVE  Staged(u)' /\ Counted(u)' /\ Targeted(u)'
  <1>1. Staged(u) /\ Counted(u) /\ Targeted(u)
    BY DEF IInv, CallsSound
  <1>2. Staged(u)'
    BY <1>1 DEF Staged
  <1>3. Counted(u)'
    BY <1>1 DEF Counted
  <1>4. Targeted(u)'
    <2>1. call[u].target <= last' /\ (call[u].target \in messages' => call[u].target \in messages)
      <3>1. call[u].target <= last /\ call[u].target \in Nat /\ last \in Nat
        BY <1>1, Numbers DEF Targeted
      <3> QED BY <3>1 DEF CloudStep
    <2> QED BY <1>1, <2>1 DEF Targeted, CloudStep
  <1> QED BY <1>2, <1>3, <1>4

\* The calls are sound when the one that took the step is.
LEMMA CallsStaySound ==
    ASSUME IInv, CloudStep, NEW t \in Calls, call' \in [Calls -> Call], Others(t),
           Staged(t)', Counted(t)', Targeted(t)'
    PROVE  CallsSound'
  <1>1. ASSUME NEW u \in Calls
        PROVE  Staged(u)' /\ Counted(u)' /\ Targeted(u)'
    <2>1. CASE u = t
      BY <2>1
    <2>2. CASE u # t
      BY <2>2, OthersSound DEF Others
    <2> QED BY <2>1, <2>2
  <1> QED BY <1>1 DEF CallsSound

\* A call that returns.
LEMMA ReturnedSound ==
    ASSUME IInv, CloudStep, NEW t \in Calls, NEW result \in {"ok", "missing", "error"}, NEW lost \in {0, 1},
           Returned(t, result, lost),
           call[t].strays + lost <= max_retries, result = "ok" => call[t].strays + lost < max_retries,
           result = "missing" => call[t].target \notin messages'
    PROVE  CallsSound'
  <1>1. call' \in [Calls -> Call] /\ Others(t)
    BY DEF Returned
  <1>2. Staged(t)'
    BY DEF Returned, Staged, Transfers, LoginSteps
  <1>3. Counted(t)'
    BY DEF Returned, Counted, Transfers
  <1>4. Targeted(t)'
    <2>1. call'[t].target <= last'
      <3>1. call[t].target <= last /\ call[t].target \in Nat /\ last \in Nat
        BY Numbers DEF IInv, CallsSound, Targeted
      <3>2. call'[t].target \in {0, call[t].target}
        BY DEF Returned
      <3> QED BY <3>1, <3>2 DEF CloudStep
    <2> QED BY <2>1 DEF Returned, Targeted
  <1> QED BY <1>1, <1>2, <1>3, <1>4, CallsStaySound

\* A call that goes on.
LEMMA MovedSound ==
    ASSUME IInv, CloudStep, NEW t \in Calls, NEW at, NEW attempt, NEW cursor, NEW lost,
           Moved(t, at, attempt, cursor, lost), Staged(t)', Counted(t)',
           at = "scan" /\ call[t].target \in messages' => call[t].target < cursor
    PROVE  CallsSound'
  <1>1. call' \in [Calls -> Call] /\ Others(t)
    BY DEF Moved
  <1>2. Targeted(t)'
    <2>1. Targeted(t)
      BY DEF IInv, CallsSound
    <2>2. call[t].target <= last' /\ (call[t].target \in messages' => call[t].target \in messages)
      <3>1. call[t].target <= last /\ call[t].target \in Nat /\ last \in Nat
        BY <2>1, Numbers DEF Targeted
      <3> QED BY <3>1 DEF CloudStep
    <2> QED BY <2>1, <2>2 DEF Targeted, Moved, CloudStep
  <1> QED BY <1>1, <1>2, CallsStaySound

\* A call that begins.
LEMMA BegunSound ==
    ASSUME IInv, CloudStep, NEW t \in Calls, NEW op \in {"upload", "download", "delete", "login"}, NEW at,
           NEW target, Begun(t, op, at, target), Staged(t)', target <= last', at # "scan",
           op = "delete" => target \in dropped'
    PROVE  CallsSound'
  <1>1. call' \in [Calls -> Call] /\ Others(t)
    BY DEF Begun
  <1>2. Counted(t)'
    <2>1. call'[t].strays = 0 /\ call'[t].attempt = 0
      BY DEF Begun
    <2>2. call'[t].op # "none"
      BY DEF Begun
    <2>3. call'[t].strays <= call'[t].attempt /\ call'[t].attempt < max_retries
      BY <2>1, Numbers
    <2> QED BY <2>1, <2>2, <2>3 DEF Counted
  <1>3. Targeted(t)'
    BY DEF Begun, Targeted
  <1> QED BY <1>1, <1>2, <1>3, CallsStaySound

\* A failed attempt of an upload or a download.
LEMMA AttemptSound ==
    ASSUME IInv, CloudStep, NEW t \in Calls, NEW error \in {"missing", "error"}, NEW lost \in {0, 1},
           call[t].op \in Transfers, AttemptFails(t, error, lost),
           error = "missing" => call[t].target \notin messages'
    PROVE  CallsSound'
  <1>1. call[t].strays <= call[t].attempt /\ call[t].attempt < max_retries
    BY DEF IInv, CallsSound, Counted
  <1>2. call[t].strays \in Nat /\ call[t].attempt \in Nat /\ max_retries \in Nat
    BY Numbers
  <1>3. call[t].strays + lost <= max_retries /\ call[t].strays + lost <= call[t].attempt + 1
    BY <1>1, <1>2
  <1>4. CASE Returned(t, error, lost)
    BY <1>3, <1>4, ReturnedSound
  <1>5. CASE /\ call[t].attempt + 1 < max_retries
             /\ Moved(t, "backoff", call[t].attempt + 1, call[t].cursor, lost)
    <2>1. Staged(t)'
      BY <1>5 DEF IInv, CallsSound, Staged, Moved, Transfers, LoginSteps
    <2>2. Counted(t)'
      <3>1. /\ call'[t].op = call[t].op /\ call'[t].strays = call[t].strays + lost
            /\ call'[t].attempt = call[t].attempt + 1
        BY <1>5 DEF Moved
      <3>2. call'[t].strays <= call'[t].attempt /\ call'[t].attempt < max_retries
        BY <1>3, <1>5, <3>1
      <3> QED BY <3>1, <3>2 DEF Counted, Transfers
    <2> QED BY <1>5, <2>1, <2>2, MovedSound
  <1> QED BY <1>4, <1>5, AttemptShape

\* Any return that reports nothing missing.
LEMMA ReturnSound ==
    ASSUME IInv, CloudStep, NEW t \in Calls, NEW result \in {"ok", "error"}, Return(t, result),
           result = "ok" => call[t].op # "none"
    PROVE  CallsSound'
  <1>1. Counted(t) /\ call[t] \in Call
    BY Numbers DEF IInv, CallsSound
  <1>2. call[t].op \in {"none", "login"} \cup Transfers \cup {"delete"}
    BY <1>1 DEF Call, Transfers
  <1>3. call[t].strays <= max_retries /\ (call[t].op # "none" => call[t].strays < max_retries)
    <2>1. call[t].strays \in Nat /\ call[t].attempt \in Nat /\ max_retries \in Nat /\ max_retries > 0
      BY Numbers
    <2>2. CASE call[t].op = "none"
      BY <1>1, <2>2 DEF Counted
    <2>3. CASE call[t].op = "login"
      <3>1. call[t].strays = 0
        BY <1>1, <2>3 DEF Counted
      <3> QED BY <2>1, <3>1
    <2>4. CASE call[t].op \in Transfers \cup {"delete"}
      <3>1. call[t].strays <= call[t].attempt /\ call[t].attempt < max_retries
        BY <1>1, <2>4 DEF Counted
      <3> QED BY <2>1, <3>1
    <2> QED BY <1>2, <2>2, <2>3, <2>4
  <1>4. Returned(t, result, 0)
    BY ReturnShape DEF Return
  <1>5. call[t].strays + 0 <= max_retries /\ (result = "ok" => call[t].strays + 0 < max_retries)
    <2>1. call[t].strays + 0 = call[t].strays
      BY Numbers
    <2> QED BY <1>3, <2>1
  <1> QED BY <1>4, <1>5, ReturnedSound

\* Any step that changes neither the count nor what is lost.
LEMMA StepSound ==
    ASSUME IInv, CloudStep, NEW t \in Calls, NEW at, NEW cursor,
           Moved(t, at, call[t].attempt, cursor, 0), Staged(t)',
           at = "scan" /\ call[t].target \in messages' => call[t].target < cursor
    PROVE  CallsSound'
  <1>1. /\ call'[t].op = call[t].op /\ call'[t].attempt = call[t].attempt /\ call'[t].result = call[t].result
        /\ call'[t].strays = call[t].strays
    BY Numbers DEF Moved
  <1>2. Counted(t)'
    BY <1>1 DEF IInv, CallsSound, Counted
  <1> QED BY <1>2, MovedSound

\* A step of a login.
LEMMA LoginStepSound ==
    ASSUME IInv, CloudStep, NEW t \in Calls, NEW at \in LoginSteps, NEW attempt, call[t].op = "login",
           Moved(t, at, attempt, call[t].cursor, 0)
    PROVE  CallsSound'
  <1>1. call'[t].op = "login" /\ call'[t].at = at /\ call'[t].result = call[t].result /\ call'[t].strays = call[t].strays
    BY Numbers DEF Moved
  <1>2. Staged(t)'
    BY <1>1 DEF IInv, CallsSound, Staged, LoginSteps
  <1>3. Counted(t)'
    BY <1>1 DEF IInv, CallsSound, Counted, Transfers
  <1>4. at # "scan"
    BY DEF LoginSteps
  <1> QED BY <1>2, <1>3, <1>4, MovedSound

\* A prompt comes again, or the attempts are used up.
LEMMA AskAgainSound ==
    ASSUME IInv, CloudStep, NEW t \in Calls, NEW point \in {"code", "password"}, call[t].op = "login",
           AskAgain(t, point)
    PROVE  CallsSound'
  <1>1. CASE call[t].attempt < Limit(t)
    <2>1. point \in Steps /\ point \in LoginSteps /\ call[t].attempt + 1 \in Nat
      <3>1. call[t].attempt \in Nat /\ \A n \in Nat : n + 1 \in Nat
        BY Numbers
      <3> QED BY <3>1 DEF Steps, LoginSteps
    <2>2. call' = [call EXCEPT ![t].at = point, ![t].attempt = call[t].attempt + 1]
      BY <1>1, Numbers DEF AskAgain, Call
    <2>3. Moved(t, point, call[t].attempt + 1, call[t].cursor, 0)
      BY <2>1, <2>2, RoundShape
    <2> QED BY <2>1, <2>3, LoginStepSound
  <1>2. CASE ~(call[t].attempt < Limit(t))
    BY <1>2, ReturnSound DEF AskAgain
  <1> QED BY <1>1, <1>2

\* A step that leaves the messages alone.
LEMMA CloudKept ==
    ASSUME IInv, UNCHANGED cloud
    PROVE  CloudStep /\ CloudTyped' /\ AckedStored'
  BY DEF IInv, cloud, CloudStep, CloudTyped, AckedStored

-----------------------------------------------------------------------------
(* The actions keep the invariant.                                          *)

\* A call that has a place: which operation it is of.
LEMMA StageOf ==
    ASSUME IInv, NEW t \in Calls
    PROVE  Staged(t) /\ Counted(t) /\ Targeted(t)
  BY DEF IInv, CallsSound

\* upload_block and download_block begin.
LEMMA BeginInv ==
    ASSUME IInv, NEW t \in Calls, NEW op \in Transfers, NEW target \in 0..last, Begin(t, op, target)
    PROVE  IInv'
  <1>1. CloudStep /\ CloudTyped' /\ AckedStored'
    BY CloudKept DEF Begin
  <1>2. CASE Return(t, "error")
    BY <1>1, <1>2, ReturnSound DEF IInv
  <1>3. CASE call' = [call EXCEPT ![t] = [Idle EXCEPT !.op = op, !.at = "permit", !.target = target]]
    <2>1. target \in 0..MaxMessages /\ target <= last
      BY Numbers
    <2>2. Begun(t, op, "permit", target)
      <3>1. op \in {"upload", "download", "delete", "login"} /\ "permit" \in Steps
        BY DEF Transfers, Steps
      <3> QED BY <1>3, <2>1, <3>1, BeginShape
    <2>3. Staged(t)'
      BY <2>2 DEF Staged, Begun, Transfers, LoginSteps
    <2>4. target <= last'
      <3>1. last' = last
        BY DEF Begin, cloud
      <3> QED BY <2>1, <3>1
    <2>5. op \in {"upload", "download", "delete", "login"} /\ op # "delete"
      BY DEF Transfers
    <2> QED BY <1>1, <2>2, <2>3, <2>4, <2>5, BegunSound DEF IInv
  <1> QED BY <1>2, <1>3 DEF Begin

\* An attempt begins: the first, or one after a sleep.
LEMMA AttemptInv ==
    ASSUME IInv, NEW t \in Calls, Acquire(t) \/ Wake(t)
    PROVE  IInv'
  <1>1. CloudStep /\ CloudTyped' /\ AckedStored'
    BY CloudKept DEF Acquire, Wake
  <1>2. call' = [call EXCEPT ![t].at = "me"] /\ call[t].at \in {"permit", "backoff"}
    BY DEF Acquire, Wake, Enter
  <1>3. Moved(t, "me", call[t].attempt, call[t].cursor, 0)
    BY <1>2, StepShape DEF Steps, OnWire
  <1>4. Staged(t)'
    BY <1>2, <1>3, StageOf DEF Staged, Moved, LoginSteps
  <1> QED BY <1>1, <1>3, <1>4, StepSound DEF IInv

\* get_me.
LEMMA GetMeInv ==
    ASSUME IInv, NEW t \in Calls, GetMe(t)
    PROVE  IInv'
  <1>1. CloudStep /\ CloudTyped' /\ AckedStored'
    BY CloudKept DEF GetMe
  <1>2. call[t].at = "me" /\ call[t].op \in Transfers \cup {"delete"} /\ Targeted(t) /\ Staged(t)
    BY StageOf DEF GetMe, Has, Staged
  <1>3. CASE call[t].op # "delete" /\ AttemptFails(t, "error", 0)
    BY <1>1, <1>2, <1>3, AttemptSound DEF IInv
  <1>4. CASE call[t].op = "delete" /\ Return(t, "error")
    BY <1>1, <1>4, ReturnSound DEF IInv
  <1>5. CASE call' = [call EXCEPT ![t].cursor = IF call[t].op = "download" THEN last + 1 ELSE 0,
                                  ![t].at = CASE call[t].op = "upload" -> "send"
                                              [] call[t].op = "download" -> "scan"
                                              [] call[t].op = "delete" -> "delete"]
    <2> DEFINE cursor == IF call[t].op = "download" THEN last + 1 ELSE 0
               at == CASE call[t].op = "upload" -> "send"
                       [] call[t].op = "download" -> "scan"
                       [] call[t].op = "delete" -> "delete"
    <2>1. cursor \in 0..(MaxMessages + 1)
      <3>1. last + 1 \in 0..(MaxMessages + 1) /\ 0 \in 0..(MaxMessages + 1)
        BY Numbers
      <3> QED BY <3>1
    <2>2. at \in Steps /\ at # "idle"
      BY <1>2 DEF Steps, OnWire, Transfers
    <2>3. /\ call[t].op = "upload" => at = "send"
          /\ call[t].op = "download" => at = "scan" /\ cursor = last + 1
          /\ call[t].op = "delete" => at = "delete"
          /\ call[t].op \in {"upload", "download", "delete"}
      BY <1>2 DEF Transfers
    <2>4. call' = [call EXCEPT ![t].cursor = cursor, ![t].at = at]
      BY <1>5
    <2> HIDE DEF cursor, at
    <2>5. Moved(t, at, call[t].attempt, cursor, 0)
      BY <2>1, <2>2, <2>4, LookShape
    <2>6. Staged(t)'
      BY <1>2, <2>3, <2>5 DEF Staged, Moved, Transfers, LoginSteps
    <2>7. at = "scan" => call[t].target < cursor
      <3>1. call[t].target <= last /\ call[t].target \in Nat /\ last \in Nat
        BY <1>2, Numbers DEF Targeted
      <3>2. call[t].target < last + 1
        BY <3>1
      <3> QED BY <2>3, <3>2
    <2> QED BY <1>1, <2>5, <2>6, <2>7, StepSound DEF IInv
  <1> QED BY <1>3, <1>4, <1>5 DEF GetMe

\* send_message.
LEMMA SendInv ==
    ASSUME IInv, NEW t \in Calls, Send(t)
    PROVE  IInv'
  <1>1. call[t].at = "send" /\ call[t].op = "upload" /\ call[t].op \in Transfers
    BY StageOf DEF Send, Has, Staged, Transfers
  <1>2. ASSUME Arrives, acked' \in {acked, acked \cup {last + 1}}, UNCHANGED dropped
        PROVE  CloudStep /\ CloudTyped' /\ AckedStored'
    <2>1. last' = last + 1 /\ messages' = messages \cup {last + 1} /\ last < MaxMessages
      BY <1>2 DEF Arrives
    <2>2. last + 1 \in 0..MaxMessages /\ last + 1 \in 1..(last + 1) /\ 1..last \subseteq 1..(last + 1)
      BY <2>1, Numbers
    <2>3. CloudStep
      BY <1>2, <2>1 DEF CloudStep
    <2>4. CloudTyped'
      BY <1>2, <2>1, <2>2 DEF IInv, CloudTyped
    <2>5. AckedStored'
      BY <1>2, <2>1 DEF IInv, AckedStored
    <2> QED BY <2>3, <2>4, <2>5
  <1>3. CASE Arrives /\ acked' = acked \cup {last + 1} /\ Return(t, "ok")
    <2>1. CloudStep /\ CloudTyped' /\ AckedStored'
      BY <1>2, <1>3 DEF Send
    <2> QED BY <1>1, <1>3, <2>1, ReturnSound DEF IInv
  <1>4. CASE Arrives /\ AttemptFails(t, "error", 1) /\ UNCHANGED acked
    <2>1. CloudStep /\ CloudTyped' /\ AckedStored'
      BY <1>2, <1>4 DEF Send
    <2> QED BY <1>1, <1>4, <2>1, AttemptSound DEF IInv
  <1>5. CASE AttemptFails(t, "error", 0) /\ UNCHANGED <<messages, last, acked>>
    <2>1. CloudStep /\ CloudTyped' /\ AckedStored'
      BY <1>5, CloudKept DEF Send, cloud
    <2> QED BY <1>1, <1>5, <2>1, AttemptSound DEF IInv
  <1> QED BY <1>3, <1>4, <1>5 DEF Send

\* A round of the scan: what is older than the cursor is ordered by its id, and
\* nothing that is not is the message sought.
LEMMA ScanInv ==
    ASSUME IInv, NEW t \in Calls, Scan(t)
    PROVE  IInv'
  <1>1. CloudStep /\ CloudTyped' /\ AckedStored' /\ messages' = messages
    BY CloudKept DEF Scan, cloud
  <1>2. call[t].at = "scan" /\ call[t].op = "download" /\ call[t].op \in Transfers
    BY StageOf DEF Scan, Has, Staged, Transfers
  <1>3. call[t].target \in messages => call[t].target \in Older(t)
    BY <1>2, StageOf DEF Targeted, Older
  <1>4. CASE AttemptFails(t, "error", 0)
    BY <1>1, <1>2, <1>4, AttemptSound DEF IInv
  <1>5. CASE Older(t) = {} /\ AttemptFails(t, "missing", 0)
    BY <1>1, <1>2, <1>3, <1>5, AttemptSound DEF IInv
  <1>6. CASE Older(t) # {}
    <2> DEFINE id == Max(Older(t))
    <2>1. Older(t) \in SUBSET (0..last) /\ last \in Nat
      <3>1. last \in Nat /\ 1..last \subseteq 0..last
        BY Numbers
      <3>2. Older(t) \subseteq messages /\ messages \subseteq 1..last
        BY DEF Older, IInv, CloudTyped
      <3> QED BY <3>1, <3>2
    <2>2. id \in Older(t) /\ \A x \in Older(t) : x <= id
      BY <1>6, <2>1, MaxOfBounded
    <2>3. id \in Nat /\ id \in 0..(MaxMessages + 1) /\ call[t].target \in Nat
      BY <2>1, <2>2, Numbers
    <2> HIDE DEF id
    <2>4. CASE id = call[t].target /\ Goto(t, "media")
      <3>1. Moved(t, "media", call[t].attempt, call[t].cursor, 0)
        BY <2>4, StepShape DEF Goto, Steps, OnWire
      <3>2. Staged(t)'
        BY <1>2, <3>1, StageOf DEF Staged, Moved, LoginSteps
      <3> QED BY <1>1, <3>1, <3>2, StepSound DEF IInv
    <2>5. CASE id # call[t].target /\ Passed(t, id) /\ AttemptFails(t, "missing", 0)
      <3>1. call[t].target \notin messages
        BY <1>3, <2>2, <2>3, <2>5 DEF Passed
      <3> QED BY <1>1, <1>2, <2>5, <3>1, AttemptSound DEF IInv
    <2>6. CASE /\ id # call[t].target /\ ~Passed(t, id)
               /\ call' = [call EXCEPT ![t].cursor = id]
      <3>1. Moved(t, call[t].at, call[t].attempt, id, 0)
        BY <2>3, <2>6, ScanShape
      <3>2. Staged(t)'
        BY <1>2, <3>1, StageOf DEF Staged, Moved, LoginSteps
      <3>3. call[t].target < id
        BY <2>3, <2>6 DEF Passed
      <3> QED BY <1>1, <3>1, <3>2, <3>3, StepSound DEF IInv
    <2> QED BY <1>4, <1>5, <1>6, <2>4, <2>5, <2>6 DEF Scan, id
  <1> QED BY <1>4, <1>5, <1>6 DEF Scan

\* The file of the message comes.
LEMMA MediaInv ==
    ASSUME IInv, NEW t \in Calls, Media(t)
    PROVE  IInv'
  <1>1. CloudStep /\ CloudTyped' /\ AckedStored'
    BY CloudKept DEF Media
  <1>2. call[t].op = "download" /\ call[t].op \in Transfers
    BY StageOf DEF Media, Has, Staged, Transfers
  <1>3. CASE Return(t, "ok")
    BY <1>1, <1>2, <1>3, ReturnSound DEF IInv
  <1>4. CASE AttemptFails(t, "error", 0)
    BY <1>1, <1>2, <1>4, AttemptSound DEF IInv
  <1> QED BY <1>3, <1>4 DEF Media

\* delete_message begins.
LEMMA DeleteInv ==
    ASSUME IInv, NEW t \in Calls, NEW id \in 1..last, Delete(t, id)
    PROVE  IInv'
  <1>1. CASE Return(t, "error") /\ UNCHANGED <<auth, cloud>>
    <2>1. CloudStep /\ CloudTyped' /\ AckedStored'
      BY <1>1, CloudKept
    <2> QED BY <1>1, <2>1, ReturnSound DEF IInv
  <1>2. CASE /\ call' = [call EXCEPT ![t] = [Idle EXCEPT !.op = "delete", !.at = "me", !.target = id]]
             /\ dropped' = dropped \cup {id} /\ UNCHANGED <<messages, last, acked>>
    <2>1. CloudStep /\ CloudTyped' /\ AckedStored'
      BY <1>2 DEF IInv, CloudStep, CloudTyped, AckedStored
    <2>2. id \in 0..MaxMessages /\ id <= last'
      <3>1. last' = last
        BY <1>2
      <3> QED BY <3>1, Numbers
    <2>3. Begun(t, "delete", "me", id)
      BY <1>2, <2>2, BeginShape DEF Steps, OnWire
    <2>4. Staged(t)'
      BY <2>3 DEF Staged, Begun, LoginSteps
    <2> QED BY <1>2, <2>1, <2>2, <2>3, <2>4, BegunSound DEF IInv
  <1> QED BY <1>1, <1>2 DEF Delete

\* The message is deleted, or not, and the answer comes, or not.
LEMMA DoDeleteInv ==
    ASSUME IInv, NEW t \in Calls, DoDelete(t)
    PROVE  IInv'
  <1>1. call[t].op = "delete" /\ call[t].target \in dropped
    BY StageOf DEF DoDelete, Has, Staged, Targeted
  <1>2. messages' \in {messages, messages \ {call[t].target}} /\ UNCHANGED <<last, acked, dropped>>
    BY DEF DoDelete
  <1>3. CloudStep /\ CloudTyped' /\ AckedStored'
    BY <1>1, <1>2 DEF IInv, CloudStep, CloudTyped, AckedStored
  <1>4. PICK r \in {"ok", "error"} : Return(t, r)
    BY DEF DoDelete
  <1> QED BY <1>1, <1>3, <1>4, ReturnSound DEF IInv

\* A login begins.
LEMMA LoginInv ==
    ASSUME IInv, NEW t \in Calls, Login(t)
    PROVE  IInv'
  <1>1. CloudStep /\ CloudTyped' /\ AckedStored'
    BY CloudKept DEF Login
  <1>2. Begun(t, "login", "connect", 0)
    <2> DEFINE x == [Idle EXCEPT !.op = "login", !.at = "connect"]
    <2>1. /\ x \in Call /\ x.op = "login" /\ x.at = "connect" /\ x.result = "none" /\ x.strays = 0
          /\ x.attempt = 0 /\ x.target = 0
      BY IdleType DEF Call
    <2>2. call' = [call EXCEPT ![t] = x]
      BY DEF Login
    <2> HIDE DEF x
    <2>3. call' \in [Calls -> Call] /\ Others(t) /\ call'[t] = x
      BY <2>1, <2>2, Replaced
    <2> QED BY <2>1, <2>3 DEF Begun
  <1>3. Staged(t)'
    BY <1>2 DEF Staged, Begun, LoginSteps
  <1>4. 0 <= last'
    <2>1. last' \in 0..MaxMessages
      BY <1>1 DEF CloudTyped
    <2> QED BY <2>1
  <1> QED BY <1>1, <1>2, <1>3, <1>4, BegunSound DEF IInv

\* The steps of a login.
LEMMA LoginStepsInv ==
    ASSUME IInv, NEW t \in Calls,
           \/ Connect(t) \/ Install(t) \/ Ask(t) \/ SignIn(t) \/ CheckPassword(t)
           \/ Phone(t) \/ Answer(t, "code", "sign in") \/ Answer(t, "password", "check")
    PROVE  IInv'
  <1>1. CloudStep /\ CloudTyped' /\ AckedStored'
    BY CloudKept DEF Connect, Install, Ask, SignIn, CheckPassword, Phone, Answer
  <1>2. call[t].op = "login"
    BY StageOf DEF Connect, Install, Ask, SignIn, CheckPassword, Phone, Answer, Has, Staged, LoginSteps
  <1>3. CASE \E r \in {"ok", "error"} : Return(t, r)
    BY <1>1, <1>2, <1>3, ReturnSound DEF IInv
  <1>4. CASE \E point \in {"code", "password"} : AskAgain(t, point)
    BY <1>1, <1>2, <1>4, AskAgainSound DEF IInv
  <1>5. CASE \E at \in LoginSteps : call' = [call EXCEPT ![t].at = at]
    <2>1. PICK at \in LoginSteps : call' = [call EXCEPT ![t].at = at]
      BY <1>5
    <2>2. at \in Steps
      BY DEF LoginSteps, Steps, OnWire
    <2>3. Moved(t, at, call[t].attempt, call[t].cursor, 0)
      BY <2>1, <2>2, StepShape
    <2> QED BY <1>1, <1>2, <2>3, LoginStepSound DEF IInv
  <1>6. CASE \E at \in LoginSteps : \E a \in Nat : call' = [call EXCEPT ![t].at = at, ![t].attempt = a]
    <2>1. PICK at \in LoginSteps, a \in Nat : call' = [call EXCEPT ![t].at = at, ![t].attempt = a]
      BY <1>6
    <2>2. at \in Steps
      BY DEF LoginSteps, Steps, OnWire
    <2>3. Moved(t, at, a, call[t].cursor, 0)
      BY <2>1, <2>2, RoundShape
    <2> QED BY <1>1, <1>2, <2>3, LoginStepSound DEF IInv
  <1>7. "install" \in LoginSteps /\ "phone" \in LoginSteps /\ "ask" \in LoginSteps /\ "code" \in LoginSteps
        /\ "sign in" \in LoginSteps /\ "password" \in LoginSteps /\ "check" \in LoginSteps
    BY DEF LoginSteps
  <1>7a. 0 \in Nat /\ 1 \in Nat
    OBVIOUS
  <1>8. CASE Connect(t)
    BY <1>3, <1>6, <1>7, <1>7a, <1>8 DEF Connect
  <1>9. CASE Install(t)
    BY <1>3, <1>5, <1>7, <1>9 DEF Install
  <1>10. CASE Ask(t)
    BY <1>3, <1>5, <1>7, <1>10 DEF Ask
  <1>11. CASE SignIn(t)
    BY <1>3, <1>4, <1>6, <1>7, <1>7a, <1>11 DEF SignIn, SignedIn
  <1>12. CASE CheckPassword(t)
    BY <1>3, <1>4, <1>12 DEF CheckPassword, SignedIn
  <1>13. CASE Phone(t)
    BY <1>3, <1>5, <1>7, <1>13 DEF Phone, Enter
  <1>14. CASE Answer(t, "code", "sign in") \/ Answer(t, "password", "check")
    BY <1>4, <1>5, <1>7, <1>14 DEF Answer, Enter
  <1> QED BY <1>8, <1>9, <1>10, <1>11, <1>12, <1>13, <1>14

\* A logout touches the session file only.
LEMMA LogoutInv ==
    ASSUME IInv, UNCHANGED <<call, cloud>>
    PROVE  IInv'
  <1>1. CloudStep /\ CloudTyped' /\ AckedStored'
    BY CloudKept
  <1>2. \A u \in Calls : call'[u] = call[u]
    OBVIOUS
  <1>3. call' \in [Calls -> Call]
    BY Numbers
  <1>4. CallsSound'
    BY <1>1, <1>2, <1>3, OthersSound DEF CallsSound
  <1> QED BY <1>1, <1>4 DEF IInv

\* An idle task that has done nothing is sound.
LEMMA IdleSound == call = [t \in Calls |-> Idle] /\ last \in Nat => CallsSound
  <1> SUFFICES ASSUME call = [t \in Calls |-> Idle], last \in Nat
               PROVE  CallsSound
    OBVIOUS
  <1>1. call \in [Calls -> Call] /\ \A t \in Calls : call[t] = Idle
    BY IdleType
  <1>2. ASSUME NEW t \in Calls
        PROVE  Staged(t) /\ Counted(t) /\ Targeted(t)
    <2>1. /\ call[t].op = "none" /\ call[t].at = "idle" /\ call[t].target = 0 /\ call[t].strays = 0
          /\ call[t].result = "none"
      BY <1>1, IdleType
    <2>2. Staged(t)
      BY <2>1 DEF Staged, LoginSteps
    <2>3. Counted(t)
      <3>1. 0 <= max_retries
        BY TelegramAssumption
      <3> QED BY <2>1, <3>1 DEF Counted, Transfers
    <2>4. Targeted(t)
      <3>1. 0 <= last
        OBVIOUS
      <3> QED BY <2>1, <3>1 DEF Targeted
    <2> QED BY <2>2, <2>3, <2>4
  <1> QED BY <1>1, <1>2 DEF CallsSound

\* The process ends.
LEMMA RestartInv ==
    ASSUME IInv, Restart
    PROVE  IInv'
  <1>1. CloudTyped' /\ AckedStored' /\ last' \in Nat
    BY CloudKept, Numbers DEF Restart, cloud
  <1>2. call' = [t \in Calls |-> Idle]
    BY DEF Restart
  <1>3. CallsSound'
    <2>1. (call = [t \in Calls |-> Idle] /\ last \in Nat => CallsSound)'
      BY IdleSound, PTL
    <2> QED BY <1>1, <1>2, <2>1
  <1> QED BY <1>1, <1>3 DEF IInv

\* Before anything has happened the invariant holds.
LEMMA InitInv ==
    ASSUME Init
    PROVE  IInv
  <1>1. call = [t \in Calls |-> Idle] /\ messages = {} /\ last = 0 /\ acked = {} /\ dropped = {}
    BY DEF Init
  <1>2. CallsSound
    BY <1>1, IdleSound
  <1>3. CloudTyped /\ AckedStored
    BY <1>1, TelegramAssumption DEF CloudTyped, AckedStored
  <1> QED BY <1>2, <1>3 DEF IInv

\* Every step keeps it.
LEMMA NextInv ==
    ASSUME IInv, [Next]_vars
    PROVE  IInv'
  <1>1. ASSUME NEW t \in Calls, Upload(t)
        PROVE  IInv'
    <2>1. 0 \in 0..last /\ "upload" \in Transfers
      BY Numbers DEF Transfers
    <2> QED BY <1>1, <2>1, BeginInv DEF Upload
  <1>2. ASSUME NEW t \in Calls, NEW id \in 1..last, Download(t, id)
        PROVE  IInv'
    <2>1. id \in 0..last
      BY Numbers
    <2>2. "download" \in Transfers
      BY DEF Transfers
    <2> QED BY <1>2, <2>1, <2>2, BeginInv DEF Download
  <1>3. ASSUME NEW t \in Calls, Step(t)
        PROVE  IInv'
    BY <1>3, AttemptInv, GetMeInv, SendInv, ScanInv, MediaInv, DoDeleteInv, LoginStepsInv DEF Step
  <1>4. CASE RemoveSession \/ Logout \/ UNCHANGED vars
    BY <1>4, LogoutInv DEF RemoveSession, Logout, vars
  <1> QED BY <1>1, <1>2, <1>3, <1>4, LoginInv, LoginStepsInv, DeleteInv, RestartInv DEF Next

\* The invariant holds in every state.
LEMMA Invariance == Spec => []IInv
  BY InitInv, NextInv, PTL DEF Spec

-----------------------------------------------------------------------------
(* The theorems.                                                            *)

\* What upload_block has acknowledged is in Saved Messages until delete_message
\* is called with it, for any number of calls, permits and retries.
THEOREM AckedStaysStored == Spec => []AckedStored
  <1>1. IInv => AckedStored
    BY DEF IInv
  <1> QED BY Invariance, <1>1, PTL

\* download_block reports a message missing only if it is: a scan of any number
\* of messages, while others arrive and are deleted, does not pass it by.
THEOREM MissingIsGone == Spec => []NotFoundIsTrue
  <1>1. IInv => NotFoundIsTrue
    BY DEF IInv, CallsSound, Targeted, NotFoundIsTrue
  <1> QED BY Invariance, <1>1, PTL

\* However the answers are lost, one upload leaves at most max_retries messages
\* that nobody knows of, and fewer when it succeeds.
THEOREM StraysStayBounded == Spec => []StraysBounded
  <1>1. ASSUME IInv
        PROVE  StraysBounded
    <2> SUFFICES ASSUME NEW t \in Calls
                 PROVE  /\ call[t].strays <= max_retries
                        /\ call[t].result = "ok" => call[t].strays < max_retries
      BY DEF StraysBounded
    <2>1. Staged(t) /\ Counted(t) /\ call[t] \in Call
      BY <1>1, Numbers DEF IInv, CallsSound
    <2>2. call[t].op \in {"none", "login"} \cup Transfers \cup {"delete"}
      BY <2>1 DEF Call, Transfers
    <2>3. /\ call[t].strays \in Nat /\ call[t].attempt \in Nat
          /\ max_retries \in Nat /\ max_retries > 0
      BY <1>1, Numbers
    <2>4. CASE call[t].op = "none"
      BY <2>1, <2>4 DEF Counted
    <2>5. CASE call[t].op = "login"
      <3>1. call[t].strays = 0
        BY <2>1, <2>5 DEF Counted
      <3> QED BY <2>3, <3>1
    <2>6. CASE call[t].op \in Transfers \cup {"delete"}
      <3>1. call[t].strays <= call[t].attempt /\ call[t].attempt < max_retries
        BY <2>1, <2>6 DEF Counted
      <3> QED BY <2>3, <3>1
    <2> QED BY <2>2, <2>4, <2>5, <2>6
  <1> QED BY Invariance, <1>1, PTL

\* The copy that a login has loaded is what is in the session file, unless that
\* has changed since.
CopyCurrent == loaded = "authorized" /\ ~outdated => session = "authorized"

\* A login that has replied success finds its session on the next start, until
\* the session file is removed or a save fails, counted from when the login has
\* loaded the file.
THEOREM LoginsLast == Spec => []LoginLasts
  <1> DEFINE Kept == LoginLasts /\ CopyCurrent
  <1>1. ASSUME Init
        PROVE  Kept
    BY <1>1 DEF Init, LoginLasts, CopyCurrent
  <1>2. ASSUME Kept, [Next]_vars
        PROVE  Kept'
    <2>0. ASSUME UNCHANGED auth
          PROVE  Kept'
      BY <1>2, <2>0 DEF LoginLasts, CopyCurrent, auth, copy
    <2>1. ASSUME NEW t \in Calls, Step(t)
          PROVE  Kept'
      <3>1. CASE Connect(t)
        <4>1. session' = session /\ loaded' = "none"
          BY <3>1 DEF Connect
        <4>2. loggedIn' => loggedIn \/ (loaded = "authorized" /\ ~outdated)
          BY <3>1, Zenon DEF Connect
        <4> QED BY <1>2, <4>1, <4>2 DEF LoginLasts, CopyCurrent
      <3>2. CASE UNCHANGED <<session, copy, loggedIn>>
        BY <1>2, <3>2 DEF LoginLasts, CopyCurrent, copy
      <3>3. CASE \E point \in {"code", "password"} : SignedIn(t, point)
        BY <1>2, <3>3 DEF LoginLasts, CopyCurrent, SignedIn, Outdate, copy
      <3>4. CASE Install(t)
        BY <3>2, <3>4 DEF Install
      <3>5. CASE SignIn(t)
        BY <3>2, <3>3, <3>5 DEF SignIn
      <3>6. CASE CheckPassword(t)
        BY <3>2, <3>3, <3>6 DEF CheckPassword
      <3> HIDE DEF Kept
      <3>7. CASE Acquire(t) \/ Wake(t) \/ GetMe(t) \/ Send(t) \/ Scan(t) \/ Media(t) \/ DoDelete(t) \/ Ask(t)
        BY <2>0, <3>7, Zenon DEF Acquire, Wake, GetMe, Send, Scan, Media, DoDelete, Ask
      <3> QED BY <2>1, <3>1, <3>4, <3>5, <3>6, <3>7 DEF Step
    <2>2. ASSUME NEW t \in Calls, Upload(t) \/ Login(t)
          PROVE  Kept'
      BY <1>2, <2>0, <2>2 DEF LoginLasts, CopyCurrent, Upload, Begin, Login
    <2>3. ASSUME NEW t \in Calls, Phone(t) \/ Answer(t, "code", "sign in") \/ Answer(t, "password", "check")
          PROVE  Kept'
      BY <2>0, <2>3 DEF Phone, Answer
    <2>4. ASSUME NEW t \in Calls, NEW id \in 1..last, Download(t, id) \/ Delete(t, id)
          PROVE  Kept'
      BY <2>0, <2>4 DEF Download, Delete, Begin
    <2>5. CASE RemoveSession \/ Logout
      BY <1>2, <2>0, <2>5 DEF LoginLasts, CopyCurrent, RemoveSession, Logout, Outdate, vars
    <2>6. CASE Restart
      BY <1>2, <2>6 DEF LoginLasts, CopyCurrent, Restart
    <2>7. CASE UNCHANGED vars
      BY <2>0, <2>7 DEF vars
    <2> QED BY <1>2, <2>1, <2>2, <2>3, <2>4, <2>5, <2>6, <2>7 DEF Next
  <1>3. Kept => LoginLasts
    OBVIOUS
  <1> HIDE DEF Kept
  <1> QED BY <1>1, <1>2, <1>3, PTL DEF Spec

-----------------------------------------------------------------------------
(* The lines.                                                               *)

Elements(s) == {s[i] : i \in 1..Len(s)}
Once(s) == \A i, j \in 1..Len(s) : s[i] = s[j] => i = j

\* Whoever leaves a line leaves the others in it.
LEMMA Leaving ==
    ASSUME NEW s \in Seq(Calls), NEW t \in Calls, Once(s)
    PROVE  /\ RemoveFirst(s, t) \in Seq(Calls) /\ Once(RemoveFirst(s, t))
           /\ Elements(RemoveFirst(s, t)) = Elements(s) \ {t}
  <1> DEFINE n == Len(s)
             r == RemoveFirst(s, t)
  <1>0. n \in Nat /\ \A k \in 1..n : s[k] \in Calls
    OBVIOUS
  <1>1. CASE ~\E i \in 1..n : s[i] = t
    <2>1. r = s
      BY <1>1 DEF RemoveFirst
    <2> QED BY <1>1, <2>1 DEF Elements
  <1>2. CASE \E i \in 1..n : s[i] = t
    <2>1. PICK i \in 1..n : s[i] = t
      BY <1>2
    <2> DEFINE I == {k \in 1..n : s[k] = t}
    <2>2. I = {i}
      BY <2>1 DEF Once
    <2>3. Min(I) = i
      <3> HIDE DEF I
      <3>1. i <= i
        OBVIOUS
      <3> QED BY <2>2, <3>1 DEF Min
    <2>4. SelectInSeq(s, LAMBDA v : v = t) = Min(I)
      BY <2>2 DEF SelectInSeq
    <2>5. r = SubSeq(s, 1, i - 1) \o SubSeq(s, i + 1, n)
      BY <1>2, <2>3, <2>4 DEF RemoveFirst, RemoveAt
    <2> DEFINE front == SubSeq(s, 1, i - 1)
               back == SubSeq(s, i + 1, n)
    <2>6. /\ front \in Seq(Calls) /\ Len(front) = i - 1 /\ \A k \in 1..(i - 1) : front[k] = s[k]
      BY <1>0
    <2>7. /\ back \in Seq(Calls) /\ Len(back) = n - i /\ \A k \in 1..(n - i) : back[k] = s[k + i]
      BY <1>0
    <2> HIDE DEF front, back, r, n
    <2>8. /\ r \in Seq(Calls) /\ Len(r) = n - 1
          /\ \A k \in 1..(n - 1) : r[k] = IF k < i THEN s[k] ELSE s[k + 1]
      <3>1. r = front \o back
        BY <2>5 DEF front, back
      <3>2. r \in Seq(Calls) /\ Len(r) = n - 1
        <4>1. r \in Seq(Calls) /\ Len(r) = Len(front) + Len(back)
          <5>1. front \in Seq(Calls) /\ back \in Seq(Calls)
            BY <2>6, <2>7
          <5>2. front \o back \in Seq(Calls) /\ Len(front \o back) = Len(front) + Len(back)
            BY <5>1
          <5> QED BY <3>1, <5>2
        <4>2. (i - 1) + (n - i) = n - 1
          BY <1>0
        <4> QED BY <2>6, <2>7, <4>1, <4>2
      <3>3. ASSUME NEW k \in 1..(n - 1)
            PROVE  r[k] = IF k < i THEN s[k] ELSE s[k + 1]
        <4>1. CASE k < i
          BY <1>0, <2>6, <2>7, <3>1, <4>1
        <4>2. CASE ~(k < i)
          <5>1. k - (i - 1) \in 1..(n - i) /\ (k - (i - 1)) + i = k + 1
            BY <1>0, <4>2
          <5>2. r[k] = back[k - (i - 1)]
            BY <1>0, <2>6, <2>7, <3>1, <4>2
          <5> QED BY <2>7, <4>2, <5>1, <5>2
        <4> QED BY <4>1, <4>2
      <3> QED BY <3>2, <3>3
    <2>9. Once(r)
      <3> SUFFICES ASSUME NEW j \in 1..(n - 1), NEW k \in 1..(n - 1), r[j] = r[k]
                   PROVE  j = k
        BY <2>8 DEF Once
      <3> DEFINE p == IF j < i THEN j ELSE j + 1
                 q == IF k < i THEN k ELSE k + 1
      <3>1. p \in 1..n /\ q \in 1..n /\ (p = q => j = k)
        BY <1>0
      <3>2. r[j] = s[p] /\ r[k] = s[q]
        BY <2>8
      <3> HIDE DEF p, q
      <3>3. p = q
        BY <3>1, <3>2 DEF Once, n
      <3> QED BY <3>1, <3>3
    <2>10. Elements(r) = Elements(s) \ {t}
      <3>1. ASSUME NEW k \in 1..(n - 1)
            PROVE  r[k] \in Elements(s) \ {t}
        <4> DEFINE p == IF k < i THEN k ELSE k + 1
        <4>1. p \in 1..n /\ p # i
          BY <1>0
        <4>2. r[k] = s[p]
          BY <2>8
        <4> HIDE DEF p
        <4>3. s[p] # t
          BY <2>1, <4>1 DEF Once, n
        <4> QED BY <4>1, <4>2, <4>3 DEF Elements, n
      <3>2. ASSUME NEW p \in 1..n, s[p] # t
            PROVE  \E k \in 1..(n - 1) : r[k] = s[p]
        <4> DEFINE k == IF p < i THEN p ELSE p - 1
        <4>1. k \in 1..(n - 1) /\ (IF k < i THEN k ELSE k + 1) = p
          BY <1>0, <2>1, <3>2
        <4>2. r[k] = s[IF k < i THEN k ELSE k + 1]
          <5> HIDE DEF k
          <5> QED BY <2>8, <4>1
        <4> QED BY <4>1, <4>2
      <3> QED BY <2>8, <3>1, <3>2 DEF Elements, n
    <2> QED BY <2>8, <2>9, <2>10 DEF r
  <1> QED BY <1>1, <1>2

\* Whoever joins a line is the last one in it.
LEMMA Joining ==
    ASSUME NEW s \in Seq(Calls), NEW t \in Calls, Once(s), t \notin Elements(s)
    PROVE  /\ Append(s, t) \in Seq(Calls) /\ Once(Append(s, t))
           /\ Elements(Append(s, t)) = Elements(s) \cup {t}
  <1> DEFINE n == Len(s)
             r == Append(s, t)
  <1>1. n \in Nat /\ r \in Seq(Calls) /\ Len(r) = n + 1 /\ r[n + 1] = t /\ \A k \in 1..n : r[k] = s[k]
    OBVIOUS
  <1>2. \A k \in 1..n : s[k] # t
    BY DEF Elements
  <1> HIDE DEF r, n
  <1>3. \A k \in 1..(n + 1) : k \in 1..n \/ k = n + 1
    BY <1>1
  <1>4. \A k \in 1..n : k \in 1..(n + 1)
    BY <1>1
  <1>5. Once(r)
    BY <1>1, <1>2, <1>3 DEF Once, n
  <1>6. n + 1 \in 1..(n + 1)
    BY <1>1
  <1>7. Elements(r) = Elements(s) \cup {t}
    BY <1>1, <1>3, <1>4, <1>6 DEF Elements, n
  <1> QED BY <1>1, <1>5, <1>7 DEF r
-----------------------------------------------------------------------------
(* Who is in which line.                                                    *)

\* A transfer is in the line of its semaphore from its call to its return, and
\* every call in that of the mutex while one of its steps needs it.
Needs(l, t) == IF l = "inner" THEN call[t].at \in OnWire ELSE call[t].op = l

\* A line has each of those who need it once, and nobody else.
Queued(l) ==
    /\ line[l] \in Seq(Calls) /\ Once(line[l])
    /\ \A t \in Calls : t \in Elements(line[l]) <=> Needs(l, t)

LinesInv == line \in [Locks -> Seq(Calls)] /\ \A l \in Locks : Queued(l)

\* A line that nobody joins or leaves.
LEMMA QueuedStays ==
    ASSUME NEW l, NEW t \in Calls, Queued(l), Others(t), line'[l] = line[l], Needs(l, t)' <=> Needs(l, t)
    PROVE  Queued(l)'
  <1>1. ASSUME NEW u \in Calls
        PROVE  Needs(l, u)' <=> Needs(l, u)
    BY DEF Others, Needs
  <1> QED BY <1>1 DEF Queued

\* Somebody joins it.
LEMMA QueuedJoins ==
    ASSUME NEW l, NEW t \in Calls, Queued(l), Others(t), line'[l] = Append(line[l], t),
           ~Needs(l, t), Needs(l, t)'
    PROVE  Queued(l)'
  <1>1. ASSUME NEW u \in Calls, u # t
        PROVE  Needs(l, u)' <=> Needs(l, u)
    BY <1>1 DEF Others, Needs
  <1>2. line[l] \in Seq(Calls) /\ Once(line[l]) /\ t \notin Elements(line[l])
    BY DEF Queued
  <1>3. line'[l] \in Seq(Calls) /\ Once(line'[l]) /\ Elements(line'[l]) = Elements(line[l]) \cup {t}
    BY <1>2, Joining
  <1>4. ASSUME NEW u \in Calls
        PROVE  u \in Elements(line'[l]) <=> Needs(l, u)'
    BY <1>1, <1>3 DEF Queued
  <1> QED BY <1>3, <1>4 DEF Queued

\* Somebody leaves it, or was not in it.
LEMMA QueuedLeaves ==
    ASSUME NEW l, NEW t \in Calls, Queued(l), Others(t), line'[l] = RemoveFirst(line[l], t), ~Needs(l, t)'
    PROVE  Queued(l)'
  <1>1. ASSUME NEW u \in Calls, u # t
        PROVE  Needs(l, u)' <=> Needs(l, u)
    BY <1>1 DEF Others, Needs
  <1>2. line[l] \in Seq(Calls) /\ Once(line[l])
    BY DEF Queued
  <1>3. line'[l] \in Seq(Calls) /\ Once(line'[l]) /\ Elements(line'[l]) = Elements(line[l]) \ {t}
    BY <1>2, Leaving
  <1>4. ASSUME NEW u \in Calls
        PROVE  u \in Elements(line'[l]) <=> Needs(l, u)'
    BY <1>1, <1>3 DEF Queued
  <1> QED BY <1>3, <1>4 DEF Queued

\* The lines of a step, one by one.
LEMMA LinesOf ==
    ASSUME DOMAIN line' = Locks, line' = [l \in Locks |-> line'[l]], \A l \in Locks : Queued(l)'
    PROVE  LinesInv'
  BY DEF LinesInv, Queued

\* The operation of a call is the same, as far as permits go.
SamePermits(t) == \A l \in Transfers : call'[t].op = l <=> call[t].op = l

\* A call returns: guard and permit are dropped.
LEMMA LinesReturn ==
    ASSUME IInv, LinesInv, NEW t \in Calls, NEW result \in {"ok", "missing", "error"}, NEW lost \in {0, 1},
           ReturnStraying(t, result, lost)
    PROVE  LinesInv'
  <1>1. Others(t) /\ call'[t].op = "none" /\ call'[t].at = "idle"
    BY ReturnShape DEF Returned
  <1>2. line' = [l \in Locks |-> RemoveFirst(line[l], t)]
    BY DEF ReturnStraying
  <1>3. ASSUME NEW l \in Locks
        PROVE  Queued(l)'
    <2>1. line'[l] = RemoveFirst(line[l], t)
      BY <1>2
    <2>2. ~Needs(l, t)'
      BY <1>1 DEF Needs, Locks, OnWire
    <2>3. Queued(l)
      BY DEF LinesInv
    <2> QED BY <1>1, <2>1, <2>2, <2>3, QueuedLeaves
  <1>4. DOMAIN line' = Locks /\ line' = [l \in Locks |-> line'[l]]
    BY <1>2
  <1> QED BY <1>3, <1>4, LinesOf

\* A step that needs the mutex no longer: the guard is dropped.
LEMMA LinesUnlock ==
    ASSUME LinesInv, NEW t \in Calls, Others(t), SamePermits(t), call'[t].at \notin OnWire,
           line' = [line EXCEPT !["inner"] = RemoveFirst(@, t)]
    PROVE  LinesInv'
  <1>1. line \in [Locks -> Seq(Calls)] /\ "inner" \in Locks
    BY DEF LinesInv, Locks
  <1>2. ASSUME NEW l \in Locks
        PROVE  Queued(l)'
    <2>1. Queued(l)
      BY DEF LinesInv
    <2>2. CASE l = "inner"
      <3>1. line'[l] = RemoveFirst(line[l], t)
        BY <1>1, <2>2
      <3>2. ~Needs(l, t)'
        BY <2>2 DEF Needs
      <3> QED BY <2>1, <3>1, <3>2, QueuedLeaves
    <2>3. CASE l # "inner"
      <3>1. line'[l] = line[l]
        BY <1>1, <2>3
      <3>2. Needs(l, t)' <=> Needs(l, t)
        BY <2>3 DEF Needs, SamePermits, Locks, Transfers
      <3> QED BY <2>1, <3>1, <3>2, QueuedStays
    <2> QED BY <2>2, <2>3
  <1>3. DOMAIN line' = Locks /\ line' = [l \in Locks |-> line'[l]]
    BY <1>1
  <1> QED BY <1>2, <1>3, LinesOf

\* A step gets to one that needs the mutex, and waits for it.
LEMMA LinesLock ==
    ASSUME LinesInv, NEW t \in Calls, Others(t), SamePermits(t),
           call[t].at \notin OnWire, call'[t].at \in OnWire,
           line' = [line EXCEPT !["inner"] = Append(@, t)]
    PROVE  LinesInv'
  <1>1. line \in [Locks -> Seq(Calls)] /\ "inner" \in Locks
    BY DEF LinesInv, Locks
  <1>2. ASSUME NEW l \in Locks
        PROVE  Queued(l)'
    <2>1. Queued(l)
      BY DEF LinesInv
    <2>2. CASE l = "inner"
      <3>1. line'[l] = Append(line[l], t)
        BY <1>1, <2>2
      <3>2. ~Needs(l, t) /\ Needs(l, t)'
        BY <2>2 DEF Needs
      <3> QED BY <2>1, <3>1, <3>2, QueuedJoins
    <2>3. CASE l # "inner"
      <3>1. line'[l] = line[l]
        BY <1>1, <2>3
      <3>2. Needs(l, t)' <=> Needs(l, t)
        BY <2>3 DEF Needs, SamePermits, Locks, Transfers
      <3> QED BY <2>1, <3>1, <3>2, QueuedStays
    <2> QED BY <2>2, <2>3
  <1>3. DOMAIN line' = Locks /\ line' = [l \in Locks |-> line'[l]]
    BY <1>1
  <1> QED BY <1>2, <1>3, LinesOf

\* A transfer begins to wait for its permit.
LEMMA LinesBegin ==
    ASSUME LinesInv, NEW t \in Calls, NEW op \in Transfers, Others(t),
           call[t].op = "none", call[t].at = "idle", call'[t].op = op, call'[t].at = "permit",
           line' = [line EXCEPT ![op] = Append(@, t)]
    PROVE  LinesInv'
  <1>1. line \in [Locks -> Seq(Calls)] /\ op \in Locks /\ op # "inner" /\ op # "none"
    BY DEF LinesInv, Locks, Transfers
  <1>2. ASSUME NEW l \in Locks
        PROVE  Queued(l)'
    <2>1. Queued(l)
      BY DEF LinesInv
    <2>2. CASE l = op
      <3>1. line'[l] = Append(line[l], t)
        BY <1>1, <2>2
      <3>2. ~Needs(l, t) /\ Needs(l, t)'
        BY <1>1, <2>2 DEF Needs
      <3> QED BY <2>1, <3>1, <3>2, QueuedJoins
    <2>3. CASE l # op
      <3>1. line'[l] = line[l]
        BY <1>1, <2>3
      <3>2. Needs(l, t)' <=> Needs(l, t)
        BY <2>3 DEF Needs, Locks, OnWire
      <3> QED BY <2>1, <3>1, <3>2, QueuedStays
    <2> QED BY <2>2, <2>3
  <1>3. DOMAIN line' = Locks /\ line' = [l \in Locks |-> line'[l]]
    BY <1>1
  <1> QED BY <1>2, <1>3, LinesOf

\* A step inside the mutex, or outside of it.
LEMMA LinesStay ==
    ASSUME LinesInv, NEW t \in Calls, Others(t), SamePermits(t),
           call'[t].at \in OnWire <=> call[t].at \in OnWire, line' = line
    PROVE  LinesInv'
  <1>1. ASSUME NEW l \in Locks
        PROVE  Queued(l)'
    <2>1. Queued(l)
      BY DEF LinesInv
    <2>2. Needs(l, t)' <=> Needs(l, t)
      BY DEF Needs, SamePermits, Locks, Transfers
    <2> QED BY <2>1, <2>2, QueuedStays
  <1>2. DOMAIN line' = Locks /\ line' = [l \in Locks |-> line'[l]]
    BY DEF LinesInv
  <1> QED BY <1>1, <1>2, LinesOf

\* Nobody is in a line before the first call and after a restart.
LEMMA LinesEmpty ==
    ASSUME line = [l \in Locks |-> <<>>], call = [t \in Calls |-> Idle]
    PROVE  LinesInv
  <1>1. \A t \in Calls : call[t].op = "none" /\ call[t].at = "idle"
    BY IdleType
  <1>2. ASSUME NEW l \in Locks
        PROVE  Queued(l)
    <2>1. line[l] = <<>> /\ line[l] \in Seq(Calls) /\ Len(line[l]) = 0
      OBVIOUS
    <2>2. Once(line[l]) /\ Elements(line[l]) = {}
      BY <2>1 DEF Once, Elements
    <2>3. \A t \in Calls : ~Needs(l, t)
      BY <1>1 DEF Needs, Locks, OnWire
    <2> QED BY <2>1, <2>2, <2>3 DEF Queued
  <1> QED BY <1>2 DEF LinesInv

-----------------------------------------------------------------------------
(* The actions keep the lines.                                              *)

\* A call that goes on keeps its permit.
LEMMA MovedPermits ==
    ASSUME NEW t \in Calls, NEW at, NEW attempt, NEW cursor, NEW lost, Moved(t, at, attempt, cursor, lost)
    PROVE  Others(t) /\ SamePermits(t) /\ call'[t].at = at
  BY DEF Moved, SamePermits

\* An attempt fails: the guard is dropped, and the permit with the last attempt.
LEMMA LinesAttempt ==
    ASSUME IInv, LinesInv, NEW t \in Calls, NEW error \in {"missing", "error"}, NEW lost \in {0, 1},
           AttemptFails(t, error, lost)
    PROVE  LinesInv'
  <1>1. CASE call[t].attempt + 1 < max_retries
    <2>1. /\ call' = [call EXCEPT ![t].at = "backoff", ![t].attempt = @ + 1, ![t].strays = @ + lost]
          /\ line' = [line EXCEPT !["inner"] = RemoveFirst(@, t)]
      BY <1>1 DEF AttemptFails
    <2>2. call'[t].at = "backoff"
      BY <2>1, Numbers DEF Call
    <2>3. Moved(t, "backoff", call[t].attempt + 1, call[t].cursor, lost)
      BY <2>2, AttemptShape DEF Returned
    <2>4. Others(t) /\ SamePermits(t) /\ call'[t].at \notin OnWire
      BY <2>2, <2>3, MovedPermits DEF OnWire
    <2> QED BY <2>1, <2>4, LinesUnlock
  <1>2. CASE ~(call[t].attempt + 1 < max_retries)
    <2>1. ReturnStraying(t, error, lost)
      BY <1>2 DEF AttemptFails
    <2> QED BY <2>1, LinesReturn
  <1> QED BY <1>1, <1>2

\* A call returns without a message lost.
LEMMA LinesReturned ==
    ASSUME IInv, LinesInv, NEW t \in Calls, NEW result \in {"ok", "missing", "error"}, Return(t, result)
    PROVE  LinesInv'
  BY LinesReturn DEF Return

\* A call waits for the mutex.
LEMMA LinesEnter ==
    ASSUME IInv, LinesInv, NEW t \in Calls, NEW at \in OnWire, call[t].at \notin OnWire, Enter(t, at)
    PROVE  LinesInv'
  <1>1. at \in Steps
    BY DEF Steps
  <1>2. Moved(t, at, call[t].attempt, call[t].cursor, 0)
    BY <1>1, StepShape DEF Enter
  <1>3. Others(t) /\ SamePermits(t) /\ call'[t].at \in OnWire
    BY <1>2, MovedPermits
  <1> QED BY <1>3, LinesLock DEF Enter

\* A call drops the guard and goes on.
LEMMA LinesGuard ==
    ASSUME IInv, LinesInv, NEW t \in Calls, NEW at \in Steps \ OnWire,
           \/ call' = [call EXCEPT ![t].at = at]
           \/ \E attempt \in Nat : call' = [call EXCEPT ![t].at = at, ![t].attempt = attempt],
           line' = [line EXCEPT !["inner"] = RemoveFirst(@, t)]
    PROVE  LinesInv'
  <1>1. Others(t) /\ SamePermits(t) /\ call'[t].at = at
    <2>1. CASE call' = [call EXCEPT ![t].at = at]
      BY <2>1, StepShape, MovedPermits
    <2>2. CASE \E attempt \in Nat : call' = [call EXCEPT ![t].at = at, ![t].attempt = attempt]
      BY <2>2, RoundShape, MovedPermits
    <2> QED BY <2>1, <2>2
  <1> QED BY <1>1, LinesUnlock

\* The prompt comes again.
LEMMA LinesAskAgain ==
    ASSUME IInv, LinesInv, NEW t \in Calls, NEW point \in {"code", "password"}, AskAgain(t, point)
    PROVE  LinesInv'
  <1>1. CASE call[t].attempt < Limit(t)
    <2>1. point \in Steps \ OnWire
      BY DEF Steps, OnWire
    <2>2. call[t].attempt + 1 \in Nat
      BY Numbers
    <2>3. call' = [call EXCEPT ![t].at = point, ![t].attempt = call[t].attempt + 1]
      BY <1>1, Numbers DEF AskAgain, Call
    <2>4. line' = [line EXCEPT !["inner"] = RemoveFirst(@, t)]
      BY <1>1 DEF AskAgain
    <2> QED BY <2>1, <2>2, <2>3, <2>4, LinesGuard
  <1>2. CASE ~(call[t].attempt < Limit(t))
    BY <1>2, LinesReturned DEF AskAgain
  <1> QED BY <1>1, <1>2

\* upload_block and download_block begin.
LEMMA LinesBegins ==
    ASSUME IInv, LinesInv, NEW t \in Calls, NEW op \in Transfers, NEW target \in 0..last, Begin(t, op, target)
    PROVE  LinesInv'
  <1>1. CASE Return(t, "error")
    BY <1>1, LinesReturned
  <1>2. CASE /\ call' = [call EXCEPT ![t] = [Idle EXCEPT !.op = op, !.at = "permit", !.target = target]]
             /\ line' = [line EXCEPT ![op] = Append(@, t)]
    <2>1. target \in 0..MaxMessages
      BY Numbers
    <2>2. op \in {"upload", "download", "delete", "login"} /\ "permit" \in Steps
      BY DEF Transfers, Steps
    <2>3. Begun(t, op, "permit", target)
      BY <1>2, <2>1, <2>2, BeginShape
    <2>4. call[t].at = "idle" /\ call[t].op = "none"
      BY StageOf DEF Begin, Staged
    <2> QED BY <1>2, <2>3, <2>4, LinesBegin DEF Begun
  <1> QED BY <1>1, <1>2 DEF Begin

\* Before an attempt, and get_me.
LEMMA LinesMe ==
    ASSUME IInv, LinesInv, NEW t \in Calls, Acquire(t) \/ Wake(t) \/ GetMe(t)
    PROVE  LinesInv'
  <1>1. CASE Acquire(t) \/ Wake(t)
    <2>1. Enter(t, "me") /\ call[t].at \notin OnWire /\ "me" \in OnWire
      BY <1>1 DEF Acquire, Wake, OnWire
    <2> QED BY <2>1, LinesEnter
  <1>2. CASE GetMe(t)
    <2>1. call[t].at = "me" /\ call[t].op \in Transfers \cup {"delete"}
      BY <1>2, StageOf DEF GetMe, Has, Staged
    <2>2. CASE AttemptFails(t, "error", 0)
      BY <2>2, LinesAttempt
    <2>3. CASE Return(t, "error")
      BY <2>3, LinesReturned
    <2>4. CASE /\ call' = [call EXCEPT ![t].cursor = IF call[t].op = "download" THEN last + 1 ELSE 0,
                                       ![t].at = CASE call[t].op = "upload" -> "send"
                                                   [] call[t].op = "download" -> "scan"
                                                   [] call[t].op = "delete" -> "delete"]
               /\ line' = line
      <3> DEFINE at == CASE call[t].op = "upload" -> "send"
                         [] call[t].op = "download" -> "scan"
                         [] call[t].op = "delete" -> "delete"
                 cursor == IF call[t].op = "download" THEN last + 1 ELSE 0
      <3>1. at \in {"send", "scan", "delete"}
        BY <2>1 DEF Transfers
      <3>2. cursor \in 0..(MaxMessages + 1)
        BY Numbers
      <3>3. call' = [call EXCEPT ![t].cursor = cursor, ![t].at = at]
        BY <2>4
      <3> HIDE DEF at, cursor
      <3>4. at \in Steps /\ at \in OnWire
        BY <3>1 DEF Steps, OnWire
      <3>5. Moved(t, at, call[t].attempt, cursor, 0)
        BY <3>2, <3>3, <3>4, LookShape
      <3>6. Others(t) /\ SamePermits(t) /\ (call'[t].at \in OnWire <=> call[t].at \in OnWire)
        BY <2>1, <3>4, <3>5, MovedPermits DEF OnWire
      <3> QED BY <2>4, <3>6, LinesStay
    <2> QED BY <1>2, <2>2, <2>3, <2>4 DEF GetMe
  <1> QED BY <1>1, <1>2

\* The rounds of a scan.
LEMMA LinesScan ==
    ASSUME IInv, LinesInv, NEW t \in Calls, Scan(t)
    PROVE  LinesInv'
  <1>1. call[t].at = "scan"
    BY DEF Scan, Has
  <1>2. CASE \E error \in {"missing", "error"} : AttemptFails(t, error, 0)
    BY <1>2, LinesAttempt
  <1>3. CASE Goto(t, "media")
    <2>1. "media" \in Steps /\ "media" \in OnWire
      BY DEF Steps, OnWire
    <2>2. Moved(t, "media", call[t].attempt, call[t].cursor, 0)
      BY <1>3, <2>1, StepShape DEF Goto
    <2>3. Others(t) /\ SamePermits(t) /\ (call'[t].at \in OnWire <=> call[t].at \in OnWire) /\ line' = line
      BY <1>1, <1>3, <2>1, <2>2, MovedPermits DEF OnWire, Goto
    <2> QED BY <2>3, LinesStay
  <1>4. CASE Older(t) # {} /\ call' = [call EXCEPT ![t].cursor = Max(Older(t))] /\ line' = line
    <2> DEFINE id == Max(Older(t))
    <2>1. id \in 0..(MaxMessages + 1)
      <3>1. Older(t) \in SUBSET (0..last) /\ last \in Nat /\ last <= MaxMessages /\ MaxMessages \in Nat
        <4>1. messages \subseteq 1..last /\ last \in Nat
          BY Numbers DEF IInv, CloudTyped
        <4>2. 1..last \subseteq 0..last
          BY <4>1
        <4>3. Older(t) \subseteq messages
          BY DEF Older
        <4>4. Older(t) \in SUBSET (0..last)
          BY <4>1, <4>2, <4>3
        <4> QED BY <4>4, Numbers
      <3>2. id \in Older(t)
        BY <1>4, <3>1, MaxOfBounded
      <3> HIDE DEF id
      <3>3. id \in 0..last
        BY <3>1, <3>2
      <3> QED BY <3>1, <3>3
    <2> HIDE DEF id
    <2>2. Moved(t, call[t].at, call[t].attempt, id, 0)
      BY <1>4, <2>1, ScanShape DEF id
    <2>3. Others(t) /\ SamePermits(t) /\ call'[t].at = call[t].at
      BY <2>2, MovedPermits
    <2> QED BY <1>4, <2>3, LinesStay
  <1> QED BY <1>2, <1>3, <1>4 DEF Scan

\* send_message, and the chunks of a file.
LEMMA LinesTransfer ==
    ASSUME IInv, LinesInv, NEW t \in Calls, Send(t) \/ Media(t) \/ DoDelete(t)
    PROVE  LinesInv'
  <1>1. CASE \E lost \in {0, 1} : AttemptFails(t, "error", lost)
    BY <1>1, LinesAttempt
  <1>2. CASE \E result \in {"ok", "error"} : Return(t, result)
    BY <1>2, LinesReturned
  <1> QED BY <1>1, <1>2 DEF Send, Media, DoDelete

\* delete_message begins.
LEMMA LinesDelete ==
    ASSUME IInv, LinesInv, NEW t \in Calls, NEW id \in 1..last, Delete(t, id)
    PROVE  LinesInv'
  <1>1. CASE Return(t, "error")
    BY <1>1, LinesReturned
  <1>2. CASE /\ call' = [call EXCEPT ![t] = [Idle EXCEPT !.op = "delete", !.at = "me", !.target = id]]
             /\ line' = [line EXCEPT !["inner"] = Append(@, t)]
    <2>1. id \in 0..MaxMessages
      BY Numbers
    <2>2. "delete" \in {"upload", "download", "delete", "login"} /\ "me" \in Steps /\ "me" \in OnWire
      BY DEF Steps, OnWire
    <2>3. Begun(t, "delete", "me", id)
      BY <1>2, <2>1, <2>2, BeginShape
    <2>4. call[t].at = "idle" /\ call[t].op = "none"
      BY StageOf DEF Delete, Staged
    <2>5. Others(t) /\ SamePermits(t) /\ call[t].at \notin OnWire /\ call'[t].at \in OnWire
      BY <2>2, <2>3, <2>4 DEF Begun, SamePermits, Transfers, OnWire
    <2> QED BY <1>2, <2>5, LinesLock
  <1> QED BY <1>1, <1>2 DEF Delete

\* A login begins, outside of the mutex.
LEMMA LinesLogin ==
    ASSUME IInv, LinesInv, NEW t \in Calls, Login(t)
    PROVE  LinesInv'
  <1> DEFINE x == [Idle EXCEPT !.op = "login", !.at = "connect"]
  <1>1. x \in Call /\ x.op = "login" /\ x.at = "connect"
    BY IdleType DEF Call
  <1>2. call' = [call EXCEPT ![t] = x] /\ line' = line /\ call[t].at = "idle"
    BY DEF Login
  <1> HIDE DEF x
  <1>3. Others(t) /\ call'[t] = x
    BY <1>1, <1>2, Replaced
  <1>4. call[t].op = "none"
    BY <1>2, StageOf DEF Staged
  <1>5. SamePermits(t) /\ (call'[t].at \in OnWire <=> call[t].at \in OnWire)
    BY <1>1, <1>2, <1>3, <1>4 DEF SamePermits, Transfers, OnWire
  <1> QED BY <1>2, <1>3, <1>5, LinesStay

\* The steps of a login.
LEMMA LinesLoginSteps ==
    ASSUME IInv, LinesInv, NEW t \in Calls,
           \/ Connect(t) \/ Install(t) \/ Ask(t) \/ SignIn(t) \/ CheckPassword(t)
           \/ Phone(t) \/ Answer(t, "code", "sign in") \/ Answer(t, "password", "check")
    PROVE  LinesInv'
  <1>1. CASE \E r \in {"ok", "error"} : Return(t, r)
    BY <1>1, LinesReturned
  <1>2. CASE \E point \in {"code", "password"} : AskAgain(t, point)
    BY <1>2, LinesAskAgain
  <1>3. CASE /\ call[t].at \notin OnWire
             /\ \E at \in OnWire : Enter(t, at)
    BY <1>3, LinesEnter
  <1>4. CASE /\ \E at \in Steps \ OnWire : \/ call' = [call EXCEPT ![t].at = at]
                                           \/ call' = [call EXCEPT ![t].at = at, ![t].attempt = 1]
             /\ line' = [line EXCEPT !["inner"] = RemoveFirst(@, t)]
    <2>1. 1 \in Nat
      OBVIOUS
    <2> QED BY <1>4, <2>1, LinesGuard
  <1>5. /\ "ask" \in OnWire /\ "sign in" \in OnWire /\ "check" \in OnWire /\ "install" \in OnWire
        /\ "phone" \in Steps \ OnWire /\ "code" \in Steps \ OnWire /\ "password" \in Steps \ OnWire
        /\ "connect" \notin OnWire
    BY DEF Steps, OnWire
  <1>6. CASE Connect(t)
    <2>1. CASE Return(t, "error")
      BY <1>1, <2>1
    <2>2. CASE /\ call' = [call EXCEPT ![t].at = "install", ![t].attempt = IF loaded = "authorized" THEN 0 ELSE 1]
               /\ line' = [line EXCEPT !["inner"] = Append(@, t)]
      <3> DEFINE a == IF loaded = "authorized" THEN 0 ELSE 1
      <3>1. a \in Nat /\ "install" \in Steps
        BY <1>5 DEF Steps
      <3>2. call' = [call EXCEPT ![t].at = "install", ![t].attempt = a]
        BY <2>2
      <3> HIDE DEF a
      <3>3. Moved(t, "install", a, call[t].cursor, 0)
        BY <3>1, <3>2, RoundShape
      <3>4. Others(t) /\ SamePermits(t) /\ call'[t].at \in OnWire /\ call[t].at \notin OnWire
        BY <1>5, <1>6, <3>3, MovedPermits DEF Connect
      <3> QED BY <2>2, <3>4, LinesLock
    <2> QED BY <1>6, <2>1, <2>2 DEF Connect
  <1>7. CASE Install(t)
    BY <1>1, <1>4, <1>5, <1>7 DEF Install
  <1>8. CASE Ask(t)
    BY <1>1, <1>4, <1>5, <1>8 DEF Ask
  <1>9. CASE SignIn(t)
    BY <1>1, <1>2, <1>4, <1>5, <1>9 DEF SignIn, SignedIn
  <1>10. CASE CheckPassword(t)
    BY <1>1, <1>2, <1>10 DEF CheckPassword, SignedIn
  <1>11. CASE Phone(t)
    BY <1>1, <1>3, <1>5, <1>11 DEF Phone
  <1>12. CASE Answer(t, "code", "sign in") \/ Answer(t, "password", "check")
    BY <1>2, <1>3, <1>5, <1>12 DEF Answer
  <1> QED BY <1>6, <1>7, <1>8, <1>9, <1>10, <1>11, <1>12

\* Every step keeps the lines.
LEMMA LinesNext ==
    ASSUME IInv, LinesInv, [Next]_vars
    PROVE  LinesInv'
  <1>1. ASSUME NEW t \in Calls, Upload(t)
        PROVE  LinesInv'
    <2>1. 0 \in 0..last /\ "upload" \in Transfers
      BY Numbers DEF Transfers
    <2> QED BY <1>1, <2>1, LinesBegins DEF Upload
  <1>2. ASSUME NEW t \in Calls, NEW id \in 1..last, Download(t, id)
        PROVE  LinesInv'
    <2>1. id \in 0..last
      BY Numbers
    <2>2. "download" \in Transfers
      BY DEF Transfers
    <2> QED BY <1>2, <2>1, <2>2, LinesBegins DEF Download
  <1>3. ASSUME NEW t \in Calls, Step(t)
        PROVE  LinesInv'
    BY <1>3, LinesMe, LinesScan, LinesTransfer, LinesLoginSteps DEF Step
  <1>4. CASE RemoveSession \/ Logout \/ UNCHANGED vars
    <2>1. line' = line /\ call' = call
      BY <1>4 DEF RemoveSession, Logout, vars
    <2> QED BY <2>1 DEF LinesInv, Queued, Needs
  <1>5. CASE Restart
    <2>1. line' = [l \in Locks |-> <<>>] /\ call' = [t \in Calls |-> Idle]
      BY <1>5 DEF Restart
    <2>2. (line = [l \in Locks |-> <<>>] /\ call = [t \in Calls |-> Idle] => LinesInv)'
      BY LinesEmpty, PTL
    <2> QED BY <2>1, <2>2
  <1> QED BY <1>1, <1>2, <1>3, <1>4, <1>5, LinesLogin, LinesLoginSteps, LinesDelete DEF Next

\* No permit and no guard leaks: a task that is not in a call is in no line, and
\* a transfer is in the line of its semaphore once, in that of the mutex exactly
\* while its next step needs it.
THEOREM PermitsNeverLeak == Spec => []LinesInv
  <1>1. Init => LinesInv
    BY LinesEmpty DEF Init
  <1> QED BY Invariance, LinesNext, <1>1, PTL DEF Spec

\* The variables of the client have their types.
THEOREM TelegramTypeOK == Spec => []TypeOK
  <1> DEFINE Flags == /\ connected \in BOOLEAN /\ inner \in BOOLEAN /\ token \in BOOLEAN
                      /\ loggedIn \in BOOLEAN /\ session \in Sessions
                      /\ loaded \in Sessions /\ outdated \in BOOLEAN
  <1>1. Init => Flags
    BY DEF Init, Sessions
  <1>2. Flags /\ [Next]_vars => Flags'
    <2> SUFFICES ASSUME Flags, [Next]_vars
                 PROVE  Flags'
      OBVIOUS
    <2>1. ASSUME NEW t \in Calls, Step(t)
          PROVE  Flags'
      <3>0. "none" \in Sessions /\ "blank" \in Sessions /\ "authorized" \in Sessions
        BY DEF Sessions
      <3> QED BY <2>1, <3>0, Zenon DEF Step, Acquire, Wake, GetMe, Send, Scan, Media, DoDelete, Connect, Install,
                                       Ask, SignIn, SignedIn, CheckPassword, Outdate, auth, copy
    <2>2. ASSUME NEW t \in Calls, Upload(t) \/ Login(t)
          PROVE  Flags'
      BY <2>2 DEF Upload, Begin, Login, auth, copy, Sessions
    <2>3. ASSUME NEW t \in Calls, Phone(t) \/ Answer(t, "code", "sign in") \/ Answer(t, "password", "check")
          PROVE  Flags'
      BY <2>3 DEF Phone, Answer, auth, copy
    <2>4. ASSUME NEW t \in Calls, NEW id \in 1..last, Download(t, id) \/ Delete(t, id)
          PROVE  Flags'
      BY <2>4 DEF Download, Begin, Delete, auth, copy
    <2>5. CASE RemoveSession \/ Logout \/ Restart \/ UNCHANGED vars
      BY <2>5 DEF RemoveSession, Logout, Restart, Outdate, vars, auth, copy, Sessions
    <2> QED BY <2>1, <2>2, <2>3, <2>4, <2>5 DEF Next
  <1>3. Flags /\ IInv /\ LinesInv => TypeOK
    BY DEF TypeOK, IInv, CloudTyped, CallsSound, LinesInv
  <1> QED BY Invariance, PermitsNeverLeak, <1>1, <1>2, <1>3, PTL DEF Spec
=============================================================================
