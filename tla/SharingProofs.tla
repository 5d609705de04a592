--------------------------- MODULE SharingProofs ---------------------------
(***************************************************************************)
(* An invite whose requests come through one connection makes no more      *)
(* shares than it was given uses, each is counted before it is made, and a *)
(* revoke is final: for any number of requests, connections and invites.   *)
(***************************************************************************)
EXTENDS Sharing, TLAPS

Busy(t) == task[t].at # "idle"

\* The mutex of a connection has one holder.
LockInv == \A t, u \in Tasks : Busy(t) /\ Busy(u) /\ task[t].conn = task[u].conn => t = u

\* A request at work on an invite is recorded with its connection.
ThroughInv ==
    \A t \in Tasks : Busy(t) => /\ task[t].conn \in through[task[t].invite]
                                /\ task[t].invite \in made

\* An invite that has not been made has no uses.
FreshInv == \A i \in Invites : i \notin made => count[i] = 0 /\ granted[i] = 0

\* The copy of an invite that a request holds is up to date, and a share that
\* is about to be made has been counted.
CopyInv ==
    \A t \in Tasks : LET i == task[t].invite IN
        Serial(i) =>
            /\ task[t].at = "use" => /\ task[t].count = count[i] + 1
                                     /\ i \notin revoked
                                     /\ max[i] > 0 => task[t].count <= max[i]
            /\ task[t].at = "share" => granted[i] < count[i]
            /\ task[t].at = "store" => task[t].count = count[i]

CountInv ==
    \A i \in Invites : Serial(i) => /\ granted[i] <= count[i]
                                    /\ max[i] > 0 => count[i] <= max[i]
                                    /\ i \in withdrawn => i \in revoked

IInv == TypeOK /\ LockInv /\ ThroughInv /\ FreshInv /\ CopyInv /\ CountInv

-----------------------------------------------------------------------------
(* Facts used in several places.                                            *)

LEMMA TaskFields ==
    ASSUME TypeOK, NEW t \in Tasks
    PROVE  /\ task[t] \in Task /\ task[t].at \in Points /\ task[t].conn \in Conns
           /\ task[t].invite \in Invites /\ task[t].user \in Users
           /\ task[t].count \in 0..(MaxCount + 1)
BY DEF TypeOK, Task

\* On a connection that is free nobody is at work.
LEMMA FreeMeans ==
    ASSUME NEW c, Free(c), NEW t \in Tasks, Busy(t)
    PROVE  task[t].conn # c
BY DEF Free, Holds, Busy

\* Two requests at work on an invite of one connection are the same.
LEMMA OneAtATime ==
    ASSUME IInv, NEW t \in Tasks, NEW u \in Tasks, Busy(t), Busy(u),
           task[t].invite = task[u].invite, Serial(task[t].invite)
    PROVE  t = u
<1>1. task[t].conn \in through[task[t].invite] /\ task[u].conn \in through[task[t].invite]
  BY DEF IInv, ThroughInv
<1>2. task[t].conn = task[u].conn
  BY <1>1 DEF Serial
<1>3. QED
  BY <1>2 DEF IInv, LockInv

\* Nothing that the invariant speaks of changes, but requests end.
LEMMA EndInv ==
    ASSUME IInv, task' \in [Tasks -> Task],
           \A t \in Tasks : task'[t].at = "idle" \/ task'[t] = task[t],
           UNCHANGED <<invites, granted, through, withdrawn>>,
           shares' \subseteq Users, now' \in 1..(MaxTime + 1)
    PROVE  IInv'
<1>1. /\ made' = made /\ max' = max /\ expires' = expires /\ count' = count
      /\ revoked' = revoked /\ active' = active
      /\ granted' = granted /\ through' = through /\ withdrawn' = withdrawn
  BY DEF invites
<1>2. \A i \in Invites : Serial(i)' <=> Serial(i)
  BY <1>1 DEF Serial
<1>3. TypeOK'
  BY <1>1 DEF IInv, TypeOK
<1>4. LockInv'
  BY DEF IInv, LockInv, Busy
<1>5. ThroughInv'
  BY <1>1 DEF IInv, ThroughInv, Busy
<1>6. FreshInv'
  BY <1>1 DEF IInv, FreshInv
<1>7. CopyInv'
  <2> SUFFICES ASSUME NEW t \in Tasks, Serial(task[t].invite)',
                      task'[t].at \in {"use", "share", "store"}
               PROVE  /\ task'[t].at = "use" => /\ task'[t].count = count[task'[t].invite] + 1
                                                /\ task'[t].invite \notin revoked
                                                /\ max[task'[t].invite] > 0 => task'[t].count <= max[task'[t].invite]
                      /\ task'[t].at = "share" => granted[task'[t].invite] < count[task'[t].invite]
                      /\ task'[t].at = "store" => task'[t].count = count[task'[t].invite]
    BY <1>1 DEF CopyInv
  <2>1. task'[t] = task[t]
    OBVIOUS
  <2>2. Serial(task[t].invite)
    BY <1>1, <2>1 DEF Serial
  <2>3. QED
    BY <2>1, <2>2 DEF IInv, CopyInv
<1>8. CountInv'
  BY <1>1, <1>2 DEF IInv, CountInv
<1>9. QED
  BY <1>3, <1>4, <1>5, <1>6, <1>7, <1>8 DEF IInv

\* A statement that fails ends the request and writes nothing.
LEMMA FailsInv == ASSUME IInv, NEW t \in Tasks, Fails(t) PROVE IInv'
<1>1. /\ task' = [task EXCEPT ![t].at = "idle"] /\ shares' = shares /\ now' = now
      /\ UNCHANGED <<invites, granted, through, withdrawn>>
  BY DEF Fails, Finish
<1>2. task' \in [Tasks -> Task] /\ \A u \in Tasks : task'[u].at = "idle" \/ task'[u] = task[u]
  BY <1>1 DEF IInv, TypeOK, Task, Points
<1>3. shares' \subseteq Users /\ now' \in 1..(MaxTime + 1)
  BY <1>1 DEF IInv, TypeOK
<1>4. QED
  BY <1>1, <1>2, <1>3, EndInv

-----------------------------------------------------------------------------
(* One step per action.                                                     *)

LEMMA InitInv == Init => IInv
<1> SUFFICES ASSUME Init PROVE IInv
  OBVIOUS
<1>1. \A t \in Tasks : task[t].at = "idle"
  BY DEF Init
<1>2. TypeOK
  BY SharingAssumption DEF Init, TypeOK, Task, Points
<1>3. LockInv /\ ThroughInv /\ CopyInv
  BY <1>1 DEF LockInv, ThroughInv, CopyInv, Busy
<1>4. FreshInv /\ CountInv
  BY DEF Init, FreshInv, CountInv
<1>5. QED
  BY <1>2, <1>3, <1>4 DEF IInv

\* The invite is new: nobody is at work on it.
LEMMA CreateInviteInv ==
    ASSUME IInv, NEW c \in Conns, NEW j \in Invites, NEW uses \in 0..MaxUses,
           NEW until \in 0..MaxTime, CreateInvite(c, j, uses, until)
    PROVE  IInv'
<1>1. /\ j \notin made /\ made' = made \cup {j} /\ active' = active \cup {j}
      /\ max' = [max EXCEPT ![j] = uses] /\ expires' = [expires EXCEPT ![j] = until]
      /\ count' = count /\ revoked' = revoked /\ shares' = shares /\ now' = now /\ task' = task
      /\ granted' = granted /\ through' = through /\ withdrawn' = withdrawn
  BY DEF CreateInvite
<1>2. TypeOK'
  BY <1>1 DEF IInv, TypeOK
<1>3. LockInv' /\ ThroughInv'
  BY <1>1 DEF IInv, LockInv, ThroughInv, Busy
<1>4. FreshInv'
  BY <1>1 DEF IInv, FreshInv
<1>5. \A i \in Invites : Serial(i)' <=> Serial(i)
  BY <1>1 DEF Serial
<1>6. CopyInv'
  <2> SUFFICES ASSUME NEW t \in Tasks, Serial(task[t].invite), Busy(t)
               PROVE  /\ task[t].at = "use" => /\ task[t].count = count[task[t].invite] + 1
                                               /\ task[t].invite \notin revoked
                                               /\ max'[task[t].invite] > 0 => task[t].count <= max'[task[t].invite]
                      /\ task[t].at = "share" => granted[task[t].invite] < count[task[t].invite]
                      /\ task[t].at = "store" => task[t].count = count[task[t].invite]
    BY <1>1 DEF CopyInv, Serial, Busy
  <2>1. task[t].invite \in made /\ task[t].invite \in Invites
    BY TaskFields DEF IInv, ThroughInv
  <2>2. max'[task[t].invite] = max[task[t].invite]
    BY <1>1, <2>1 DEF IInv, TypeOK
  <2>3. QED
    BY <2>2 DEF IInv, CopyInv
<1>7. CountInv'
  <2> SUFFICES ASSUME NEW i \in Invites, Serial(i)
               PROVE  /\ granted[i] <= count[i]
                      /\ max'[i] > 0 => count[i] <= max'[i]
                      /\ i \in withdrawn => i \in revoked
    BY <1>1, <1>5 DEF CountInv
  <2>1. CASE i = j
    <3>1. count[i] = 0 /\ max'[i] \in Nat
      BY <1>1, <2>1 DEF IInv, FreshInv, TypeOK
    <3>2. QED
      BY <3>1 DEF IInv, CountInv
  <2>2. CASE i # j
    <3>1. max'[i] = max[i]
      BY <1>1, <2>2 DEF IInv, TypeOK
    <3>2. QED
      BY <3>1 DEF IInv, CountInv
  <2>3. QED
    BY <2>1, <2>2
<1>8. QED
  BY <1>2, <1>3, <1>4, <1>6, <1>7 DEF IInv

\* A request takes a free connection for an invite.  What it has to bring along
\* is that its copy of the invite is right.
LEMMA TakeInv ==
    ASSUME IInv, NEW t \in Tasks, NEW c \in Conns, NEW i \in Invites, NEW new \in Task,
           Free(c), i \in made, task[t].at = "idle",
           new.at \in {"use", "mark"}, new.conn = c, new.invite = i,
           new.at = "use" => /\ new.count = count[i] + 1 /\ i \notin revoked
                             /\ max[i] > 0 => new.count <= max[i],
           task' = [task EXCEPT ![t] = new],
           through' = [through EXCEPT ![i] = @ \cup {c}],
           active' \subseteq made,
           UNCHANGED <<made, max, expires, count, revoked, shares, now, granted, withdrawn>>
    PROVE  IInv'
<1>1. /\ task'[t] = new /\ \A u \in Tasks : u # t => task'[u] = task[u]
      /\ through'[i] = through[i] \cup {c} /\ \A j \in Invites : j # i => through'[j] = through[j]
  BY DEF IInv, TypeOK
<1>2. TypeOK'
  BY DEF IInv, TypeOK
<1>3. \A j \in Invites : Serial(j)' => Serial(j)
  BY <1>1 DEF Serial
<1>4. LockInv'
  <2> SUFFICES ASSUME NEW u \in Tasks, NEW v \in Tasks, task'[u].at # "idle", task'[v].at # "idle",
                      task'[u].conn = task'[v].conn, u # v
               PROVE  FALSE
    BY DEF LockInv, Busy
  <2>1. CASE u = t
    BY <1>1, <2>1, FreeMeans DEF Busy
  <2>2. CASE v = t
    BY <1>1, <2>2, FreeMeans DEF Busy
  <2>3. CASE u # t /\ v # t
    BY <1>1, <2>3 DEF IInv, LockInv, Busy
  <2>4. QED
    BY <2>1, <2>2, <2>3
<1>5. ThroughInv'
  <2> SUFFICES ASSUME NEW u \in Tasks, task'[u].at # "idle"
               PROVE  task'[u].conn \in through'[task'[u].invite] /\ task'[u].invite \in made
    BY DEF ThroughInv, Busy
  <2>1. CASE u = t
    BY <1>1, <2>1
  <2>2. CASE u # t
    <3>1. task'[u] = task[u] /\ task[u].invite \in Invites
      BY <1>1, <2>2, TaskFields DEF IInv
    <3>2. task[u].conn \in through[task[u].invite] /\ task[u].invite \in made
      BY <3>1 DEF IInv, ThroughInv, Busy
    <3>3. QED
      BY <1>1, <3>1, <3>2
  <2>3. QED
    BY <2>1, <2>2
<1>6. FreshInv'
  BY DEF IInv, FreshInv
<1>7. CopyInv'
  <2> SUFFICES ASSUME NEW u \in Tasks, Serial(task[u].invite)'
               PROVE  /\ task'[u].at = "use" => /\ task'[u].count = count[task'[u].invite] + 1
                                                /\ task'[u].invite \notin revoked
                                                /\ max[task'[u].invite] > 0 => task'[u].count <= max[task'[u].invite]
                      /\ task'[u].at = "share" => granted[task'[u].invite] < count[task'[u].invite]
                      /\ task'[u].at = "store" => task'[u].count = count[task'[u].invite]
    BY DEF CopyInv
  <2>1. CASE u = t
    BY <1>1, <2>1
  <2>2. CASE u # t
    <3>1. task'[u] = task[u] /\ task[u].invite \in Invites
      BY <1>1, <2>2, TaskFields DEF IInv
    <3>2. Serial(task[u].invite)
      BY <1>1, <3>1 DEF Serial
    <3>3. QED
      BY <3>1, <3>2 DEF IInv, CopyInv
  <2>3. QED
    BY <2>1, <2>2
<1>8. CountInv'
  BY <1>3 DEF IInv, CountInv
<1>9. QED
  BY <1>2, <1>4, <1>5, <1>6, <1>7, <1>8 DEF IInv

\* accept_invite reads the invite it will write back.
LEMMA AcceptInv ==
    ASSUME IInv, NEW t \in Tasks, NEW c \in Conns, NEW i \in Invites, NEW u \in Users,
           Accept(t, c, i, u)
    PROVE  IInv'
<1> DEFINE new == [at |-> "use", conn |-> c, invite |-> i, user |-> u, count |-> count[i] + 1]
<1>1. count[i] \in Nat /\ max[i] \in Nat /\ count[i] <= MaxCount /\ MaxCount \in Nat
  BY SharingAssumption DEF IInv, TypeOK, Accept
<1>2. new \in Task
  BY <1>1 DEF Task, Points
<1>3. i \notin revoked /\ (max[i] > 0 => new.count <= max[i])
  BY <1>1 DEF Accept, IsValid
<1>4. active' \subseteq made
  BY DEF Accept, invites, IInv, TypeOK
<1>5. QED
  BY <1>2, <1>3, <1>4, TakeInv DEF Accept, invites

\* revoke_invite begins on a free connection and clears the row's flag.
LEMMA RevokeInv ==
    ASSUME IInv, NEW t \in Tasks, NEW c \in Conns, NEW i \in Invites, Revoke(t, c, i)
    PROVE  IInv'
<1> DEFINE new == [task[t] EXCEPT !.at = "mark", !.conn = c, !.invite = i]
<1>1. new \in Task /\ new.at = "mark" /\ new.conn = c /\ new.invite = i
  BY TaskFields DEF IInv, Task, Points
<1>2. task' = [task EXCEPT ![t] = new]
  BY TaskFields DEF Revoke, IInv, TypeOK, Task
<1>3. active' \subseteq made
  BY DEF Revoke, IInv, TypeOK
<1>4. QED
  BY <1>1, <1>2, <1>3, TakeInv DEF Revoke

\* A request goes on with its invite.  What it has to bring along is what the
\* invariant says of itself and of the invite, if that is used through one
\* connection: then no other request is at work on it.
LEMMA WorkInv ==
    ASSUME IInv, NEW t \in Tasks, NEW i \in Invites, i = task[t].invite, Busy(t),
           NEW new \in Task, new.conn = task[t].conn, new.invite = i,
           task' = [task EXCEPT ![t] = new],
           UNCHANGED <<made, max, expires, now, through>>,
           active' \subseteq made, shares' \subseteq Users,
           revoked' \subseteq made, withdrawn' \subseteq made,
           count' \in [Invites -> 0..(MaxCount + 1)], granted' \in [Invites -> 0..MaxGrants],
           \A j \in Invites : j # i => /\ count'[j] = count[j] /\ granted'[j] = granted[j]
                                       /\ j \in revoked' <=> j \in revoked
                                       /\ j \in withdrawn' <=> j \in withdrawn,
           Serial(i) =>
             /\ granted'[i] <= count'[i]
             /\ max[i] > 0 => count'[i] <= max[i]
             /\ i \in withdrawn' => i \in revoked'
             /\ new.at # "use"
             /\ new.at = "share" => granted'[i] < count'[i]
             /\ new.at = "store" => new.count = count'[i]
    PROVE  IInv'
<1>1. task'[t] = new /\ \A u \in Tasks : u # t => task'[u] = task[u]
  BY DEF IInv, TypeOK
<1>2. \A j \in Invites : Serial(j)' <=> Serial(j)
  BY DEF Serial
<1>3. TypeOK'
  BY DEF IInv, TypeOK
<1>4. LockInv'
  BY <1>1 DEF IInv, LockInv, Busy
<1>5. ThroughInv' /\ i \in made
  BY <1>1 DEF IInv, ThroughInv, Busy
<1>6. FreshInv'
  BY <1>5 DEF IInv, FreshInv
<1>7. CopyInv'
  <2> SUFFICES ASSUME NEW u \in Tasks, Serial(task[u].invite)', task'[u].at # "idle"
               PROVE  /\ task'[u].at = "use" => /\ task'[u].count = count'[task'[u].invite] + 1
                                                /\ task'[u].invite \notin revoked'
                                                /\ max[task'[u].invite] > 0 => task'[u].count <= max[task'[u].invite]
                      /\ task'[u].at = "share" => granted'[task'[u].invite] < count'[task'[u].invite]
                      /\ task'[u].at = "store" => task'[u].count = count'[task'[u].invite]
    BY DEF CopyInv
  <2>1. CASE u = t
    BY <1>1, <1>2, <2>1
  <2>2. CASE u # t
    <3>1. task'[u] = task[u] /\ task[u].invite \in Invites /\ Serial(task[u].invite) /\ Busy(u)
      BY <1>1, <1>2, <2>2, TaskFields DEF IInv, Busy
    <3>2. task[u].invite # i
      BY <2>2, <3>1, OneAtATime
    <3>3. QED
      BY <3>1, <3>2 DEF IInv, CopyInv
  <2>3. QED
    BY <2>1, <2>2
<1>8. CountInv'
  <2> SUFFICES ASSUME NEW j \in Invites, Serial(j)
               PROVE  /\ granted'[j] <= count'[j]
                      /\ max[j] > 0 => count'[j] <= max[j]
                      /\ j \in withdrawn' => j \in revoked'
    BY <1>2 DEF CountInv
  <2>1. QED
    BY DEF IInv, CountInv
<1>9. QED
  BY <1>3, <1>4, <1>5, <1>6, <1>7, <1>8 DEF IInv

\* The copy with one more use is written back.
LEMMA UseInv == ASSUME IInv, NEW t \in Tasks, Use(t) PROVE IInv'
<1> DEFINE i == task[t].invite
           new == [task[t] EXCEPT !.at = "share"]
<1>1. task[t].at = "use" /\ Busy(t) /\ i \in Invites /\ i \in made
  BY TaskFields DEF Use, Busy, IInv, ThroughInv
<1>2. CASE Fails(t)
  BY <1>2, FailsInv
<1>3. CASE /\ count' = [count EXCEPT ![i] = task[t].count]
           /\ revoked' = revoked \ {i}
           /\ active' = active \cup {i}
           /\ task' = [task EXCEPT ![t].at = "share"]
           /\ UNCHANGED <<made, max, expires, shares, now, granted, through, withdrawn>>
  <2>1. /\ new \in Task /\ new.conn = task[t].conn /\ new.invite = i /\ new.at = "share"
        /\ task' = [task EXCEPT ![t] = new]
    BY <1>3, TaskFields DEF IInv, TypeOK, Task, Points
  <2>2. /\ active' \subseteq made /\ shares' \subseteq Users /\ revoked' \subseteq made
        /\ withdrawn' \subseteq made /\ granted' \in [Invites -> 0..MaxGrants]
        /\ count' \in [Invites -> 0..(MaxCount + 1)]
    BY <1>1, <1>3, TaskFields DEF IInv, TypeOK
  <2>3. \A j \in Invites : j # i => /\ count'[j] = count[j] /\ granted'[j] = granted[j]
                                    /\ j \in revoked' <=> j \in revoked
                                    /\ j \in withdrawn' <=> j \in withdrawn
    BY <1>3 DEF IInv, TypeOK
  <2>4. count[i] \in Nat /\ granted[i] \in Nat /\ max[i] \in Nat /\ count'[i] = task[t].count
    BY <1>1, <1>3 DEF IInv, TypeOK
  <2>5. ASSUME Serial(i)
        PROVE  /\ granted'[i] <= count'[i] /\ granted'[i] < count'[i]
               /\ max[i] > 0 => count'[i] <= max[i]
               /\ i \in withdrawn' => i \in revoked'
    <3>1. /\ task[t].count = count[i] + 1 /\ i \notin revoked
          /\ max[i] > 0 => task[t].count <= max[i]
      BY <1>1, <2>5 DEF IInv, CopyInv
    <3>2. granted[i] <= count[i] /\ i \notin withdrawn
      BY <1>1, <2>5, <3>1 DEF IInv, CountInv
    <3>3. QED
      BY <1>3, <2>4, <3>1, <3>2
  <2>6. UNCHANGED <<made, max, expires, now, through>>
    BY <1>3
  <2>7. Serial(i) =>
             /\ granted'[i] <= count'[i]
             /\ max[i] > 0 => count'[i] <= max[i]
             /\ i \in withdrawn' => i \in revoked'
             /\ new.at # "use"
             /\ new.at = "share" => granted'[i] < count'[i]
             /\ new.at = "store" => new.count = count'[i]
    BY <2>1, <2>5
  <2>8. i = task[t].invite
    OBVIOUS
  <2> HIDE DEF i, new
  <2>9. QED
    BY <1>1, <2>1, <2>2, <2>3, <2>6, <2>7, <2>8, WorkInv
<1>4. QED
  BY <1>2, <1>3 DEF Use

\* The share is inserted after its use was counted.
LEMMA ShareInv == ASSUME IInv, NEW t \in Tasks, Share(t) PROVE IInv'
<1> DEFINE i == task[t].invite
           new == [task[t] EXCEPT !.at = "idle"]
<1>1. task[t].at = "share" /\ Busy(t) /\ i \in Invites /\ i \in made
  BY TaskFields DEF Share, Busy, IInv, ThroughInv
<1>2. CASE Fails(t)
  BY <1>2, FailsInv
<1>3. CASE /\ granted[i] < MaxGrants
           /\ shares' = shares \cup {task[t].user}
           /\ granted' = [granted EXCEPT ![i] = @ + 1]
           /\ Finish(t)
           /\ UNCHANGED <<invites, now, through, withdrawn>>
  <2>1. /\ new \in Task /\ new.conn = task[t].conn /\ new.invite = i /\ new.at = "idle"
        /\ task' = [task EXCEPT ![t] = new]
    BY <1>3, TaskFields DEF IInv, TypeOK, Task, Points, Finish
  <2>2. UNCHANGED <<made, max, expires, count, revoked, active, now, through, withdrawn>>
    BY <1>3 DEF invites
  <2>3. /\ granted[i] \in Nat /\ granted'[i] = granted[i] + 1 /\ MaxGrants \in Nat
        /\ granted' \in [Invites -> 0..MaxGrants] /\ count[i] \in Nat
    BY <1>1, <1>3, SharingAssumption DEF IInv, TypeOK
  <2>4. /\ active' \subseteq made /\ shares' \subseteq Users /\ revoked' \subseteq made
        /\ withdrawn' \subseteq made /\ count' \in [Invites -> 0..(MaxCount + 1)]
    BY <1>3, <2>2, TaskFields DEF IInv, TypeOK
  <2>5. \A j \in Invites : j # i => granted'[j] = granted[j]
    BY <1>3 DEF IInv, TypeOK
  <2>6. ASSUME Serial(i)
        PROVE  /\ granted'[i] <= count'[i]
               /\ max[i] > 0 => count'[i] <= max[i]
               /\ i \in withdrawn' => i \in revoked'
    <3>1. granted[i] < count[i]
      BY <1>1, <2>6 DEF IInv, CopyInv
    <3>2. (max[i] > 0 => count[i] <= max[i]) /\ (i \in withdrawn => i \in revoked)
      BY <1>1, <2>6 DEF IInv, CountInv
    <3>3. QED
      BY <2>2, <2>3, <3>1, <3>2
  <2>7. QED
    BY <1>1, <2>1, <2>2, <2>3, <2>4, <2>5, <2>6, WorkInv
<1>4. QED
  BY <1>2, <1>3 DEF Share

\* revoke_invite reads the invite that it will write back.
LEMMA MarkInv == ASSUME IInv, NEW t \in Tasks, Mark(t) PROVE IInv'
<1> DEFINE i == task[t].invite
           new == [task[t] EXCEPT !.at = "store", !.count = count[i]]
<1>1. task[t].at = "mark" /\ Busy(t) /\ i \in Invites /\ i \in made
  BY TaskFields DEF Mark, Busy, IInv, ThroughInv
<1>2. CASE Fails(t)
  BY <1>2, FailsInv
<1>3. CASE /\ task' = [task EXCEPT ![t].at = "store", ![t].count = count[i]]
           /\ UNCHANGED <<invites, shares, now, granted, through, withdrawn>>
  <2>1. count[i] \in 0..(MaxCount + 1)
    BY <1>1 DEF IInv, TypeOK
  <2>2. /\ new \in Task /\ new.conn = task[t].conn /\ new.invite = i /\ new.at = "store"
        /\ new.count = count[i] /\ task' = [task EXCEPT ![t] = new]
    BY <1>3, <2>1, TaskFields DEF IInv, TypeOK, Task, Points
  <2>3. UNCHANGED <<made, max, expires, count, revoked, active, shares, now, granted, through, withdrawn>>
    BY <1>3 DEF invites
  <2>4. /\ active' \subseteq made /\ shares' \subseteq Users /\ revoked' \subseteq made
        /\ withdrawn' \subseteq made /\ count' \in [Invites -> 0..(MaxCount + 1)]
        /\ granted' \in [Invites -> 0..MaxGrants]
    BY <2>3 DEF IInv, TypeOK
  <2>5. Serial(i) => /\ granted[i] <= count[i] /\ (max[i] > 0 => count[i] <= max[i])
                     /\ (i \in withdrawn => i \in revoked)
    BY <1>1 DEF IInv, CountInv
  <2>6. QED
    BY <1>1, <2>2, <2>3, <2>4, <2>5, WorkInv
<1>4. QED
  BY <1>2, <1>3 DEF Mark

\* The marked copy is written back.
LEMMA StoreInv == ASSUME IInv, NEW t \in Tasks, Store(t) PROVE IInv'
<1> DEFINE i == task[t].invite
           new == [task[t] EXCEPT !.at = "idle"]
<1>1. task[t].at = "store" /\ Busy(t) /\ i \in Invites /\ i \in made
  BY TaskFields DEF Store, Busy, IInv, ThroughInv
<1>2. CASE Fails(t)
  BY <1>2, FailsInv
<1>3. CASE /\ count' = [count EXCEPT ![i] = task[t].count]
           /\ revoked' = revoked \cup {i}
           /\ active' = active \ {i}
           /\ withdrawn' = withdrawn \cup {i}
           /\ Finish(t)
           /\ UNCHANGED <<made, max, expires, shares, now, granted, through>>
  <2>1. /\ new \in Task /\ new.conn = task[t].conn /\ new.invite = i /\ new.at = "idle"
        /\ task' = [task EXCEPT ![t] = new]
    BY <1>3, TaskFields DEF IInv, TypeOK, Task, Points, Finish
  <2>2. /\ active' \subseteq made /\ shares' \subseteq Users /\ revoked' \subseteq made
        /\ withdrawn' \subseteq made /\ granted' \in [Invites -> 0..MaxGrants]
        /\ count' \in [Invites -> 0..(MaxCount + 1)]
    BY <1>1, <1>3, TaskFields DEF IInv, TypeOK
  <2>3. \A j \in Invites : j # i => /\ count'[j] = count[j] /\ granted'[j] = granted[j]
                                    /\ j \in revoked' <=> j \in revoked
                                    /\ j \in withdrawn' <=> j \in withdrawn
    BY <1>3 DEF IInv, TypeOK
  <2>4. count'[i] = task[t].count /\ i \in revoked'
    BY <1>1, <1>3 DEF IInv, TypeOK
  <2>5. Serial(i) => /\ task[t].count = count[i] /\ granted[i] <= count[i]
                     /\ (max[i] > 0 => count[i] <= max[i])
    BY <1>1 DEF IInv, CopyInv, CountInv
  <2>6. QED
    BY <1>1, <1>3, <2>1, <2>2, <2>3, <2>4, <2>5, WorkInv
<1>4. QED
  BY <1>2, <1>3 DEF Store

\* The end of a process ends the requests of its connection.
LEMMA CrashInv == ASSUME IInv, NEW c \in Conns, Crash(c) PROVE IInv'
<1>1. /\ task' = [t \in Tasks |-> IF Holds(t, c) THEN [task[t] EXCEPT !.at = "idle"] ELSE task[t]]
      /\ shares' = shares /\ now' = now /\ UNCHANGED <<invites, granted, through, withdrawn>>
  BY DEF Crash
<1>2. task' \in [Tasks -> Task] /\ \A t \in Tasks : task'[t].at = "idle" \/ task'[t] = task[t]
  BY <1>1 DEF IInv, TypeOK, Task, Points
<1>3. shares' \subseteq Users /\ now' \in 1..(MaxTime + 1)
  BY <1>1 DEF IInv, TypeOK
<1>4. QED
  BY <1>1, <1>2, <1>3, EndInv

\* The steps that the invariant says nothing of.
LEMMA OtherInv ==
    ASSUME IInv,
           \/ \E c \in Conns, u \in Users : CreateShare(c, u) \/ RevokeShare(c, u)
           \/ Tick
           \/ UNCHANGED vars
    PROVE  IInv'
<1>1. task' = task /\ UNCHANGED <<invites, granted, through, withdrawn>>
  BY DEF CreateShare, RevokeShare, Tick, vars
<1>2. shares' \subseteq Users /\ now' \in 1..(MaxTime + 1)
  BY SharingAssumption DEF CreateShare, RevokeShare, Tick, vars, IInv, TypeOK
<1>3. task' \in [Tasks -> Task]
  BY <1>1 DEF IInv, TypeOK
<1>4. QED
  BY <1>1, <1>2, <1>3, EndInv

\* The inductive invariant holds in every reachable state.
THEOREM SharingInvariant == Spec => []IInv
<1>1. ASSUME IInv, [Next]_vars PROVE IInv'
  BY <1>1, CreateInviteInv, AcceptInv, RevokeInv, UseInv, ShareInv, MarkInv, StoreInv, CrashInv, OtherInv
     DEF Next
<1>2. QED
  BY InitInv, <1>1, PTL DEF Spec

-----------------------------------------------------------------------------
\* The tables, the requests and the clock have their types.
THEOREM SharingTypeCorrect == Spec => []TypeOK
<1>1. IInv => TypeOK
  BY DEF IInv
<1>2. QED
  BY SharingInvariant, <1>1, PTL

\* For any number of requests, failures and crashes: an invite whose requests
\* come through one connection makes at most max_uses shares.
THEOREM UsesStayWithinMax == Spec => []UsesWithinMax
<1>1. IInv => UsesWithinMax
  <2> SUFFICES ASSUME IInv, NEW i \in Invites, Serial(i), max[i] > 0 PROVE granted[i] <= max[i]
    BY DEF UsesWithinMax
  <2>1. granted[i] \in Nat /\ count[i] \in Nat /\ max[i] \in Nat
    BY DEF IInv, TypeOK
  <2>2. granted[i] <= count[i] /\ count[i] <= max[i]
    BY DEF IInv, CountInv
  <2>3. QED
    BY <2>1, <2>2
<1>2. QED
  BY SharingInvariant, <1>1, PTL

\* ... every share it makes has been counted before,
THEOREM SharesArePaid == Spec => []GrantsPaid
<1>1. IInv => GrantsPaid
  BY DEF IInv, CountInv, GrantsPaid
<1>2. QED
  BY SharingInvariant, <1>1, PTL

\* ... and once it is marked as revoked no request makes it valid again.
THEOREM RevokeIsFinal == Spec => []RevokedIsFinal
<1>1. IInv => RevokedIsFinal
  BY DEF IInv, TypeOK, CountInv, RevokedIsFinal
<1>2. QED
  BY SharingInvariant, <1>1, PTL
=============================================================================
