------------------------------ MODULE Sharing ------------------------------
(***************************************************************************)
(* The invites and shares of one volume: SharingService and the command    *)
(* line over SharingStore and the rules of Invite.                         *)
(*                                                                         *)
(* A request holds the mutex of its session's connection from its first    *)
(* statement to its last, but no operation is a transaction: accepting and *)
(* revoking an invite read the row, change the copy and write all of it    *)
(* back.  Requests on the same connection are serial; the requests of a    *)
(* session that was closed or replaced while they ran, and those of the    *)
(* session after it, are on two connections (Volumes shows how that comes  *)
(* about), and the command line has one of its own.  Statements fail, the  *)
(* clock goes on and a process can end between two statements.             *)
(***************************************************************************)
EXTENDS Naturals, FiniteSets

CONSTANTS
    Conns,      \* the connections to the volume's database
    Tasks,      \* the requests
    Invites,    \* the ids of invites
    Users,      \* the users shares are for
    MaxUses,    \* bound: on max_uses
    MaxCount,   \* bound: on use_count of an unlimited invite
    MaxGrants,  \* bound: on the shares an invite is ever used for
    MaxTime     \* bound: on the clock

ASSUME SharingAssumption ==
    /\ MaxUses \in Nat /\ MaxCount \in Nat /\ MaxGrants \in Nat /\ MaxTime \in Nat
    /\ MaxUses <= MaxCount

VARIABLES
    made,      \* the invites in the table
    max,       \* invite -> max_uses, 0 for unlimited
    expires,   \* invite -> expires_at, 0 for never
    count,     \* invite -> use_count in the encrypted data
    revoked,   \* the invites whose encrypted data says revoked
    active,    \* the invites whose column says active
    shares,    \* the users whose share is active
    now,       \* the clock
    task,      \* request -> the operation it is in
    granted,   \* history: invite -> how many accepts have made a share
    through,   \* history: invite -> the connections it was accepted or revoked on
    withdrawn  \* history: the invites that a revoke has marked as revoked

invites == <<made, max, expires, count, revoked, active>>
vars == <<invites, shares, now, task, granted, through, withdrawn>>

Points == {"idle", "use", "share", "mark", "store"}

\* at: the statement it is at; count: use_count of its copy of the invite.
Task == [at: Points, conn: Conns, invite: Invites, user: Users, count: 0..(MaxCount + 1)]

TypeOK ==
    /\ made \subseteq Invites /\ revoked \subseteq made /\ active \subseteq made
    /\ max \in [Invites -> 0..MaxUses]
    /\ expires \in [Invites -> 0..MaxTime]
    /\ count \in [Invites -> 0..(MaxCount + 1)]
    /\ shares \subseteq Users
    /\ now \in 1..(MaxTime + 1)
    /\ task \in [Tasks -> Task]
    /\ granted \in [Invites -> 0..MaxGrants]
    /\ through \in [Invites -> SUBSET Conns]
    /\ withdrawn \subseteq made

-----------------------------------------------------------------------------
(* The mutex of a connection, and how an operation ends.                    *)

Holds(t, c) == task[t].at # "idle" /\ task[t].conn = c

\* Mutant: the connection is not locked.
FreeOrNot(c) == TRUE

Free(c) == \A t \in Tasks : ~Holds(t, c)

\* The request replies and lets go of the connection.
Finish(t) == task' = [task EXCEPT ![t].at = "idle"]

\* The statement fails, and with it the request.
Fails(t) == Finish(t) /\ UNCHANGED <<invites, shares, now, granted, through, withdrawn>>

-----------------------------------------------------------------------------
(* Operations of one statement.                                             *)

CreateInvite(c, i, uses, until) ==
    /\ Free(c)
    /\ i \notin made
    /\ made' = made \cup {i}
    /\ active' = active \cup {i}
    /\ max' = [max EXCEPT ![i] = uses]
    /\ expires' = [expires EXCEPT ![i] = until]
    /\ UNCHANGED <<count, revoked, shares, now, task, granted, through, withdrawn>>

\* Inserts the share or replaces the one the user had.
CreateShare(c, u) ==
    /\ Free(c)
    /\ shares' = shares \cup {u}
    /\ UNCHANGED <<invites, now, task, granted, through, withdrawn>>

\* Clears the column; list_shares looks at nothing else.
RevokeShare(c, u) ==
    /\ Free(c)
    /\ shares' = shares \ {u}
    /\ UNCHANGED <<invites, now, task, granted, through, withdrawn>>

-----------------------------------------------------------------------------
(* accept_invite: use_invite, then insert_share.                            *)

\* Mutant: an invite of max_uses can be used once more.
IsValidOnceMore(i) ==
    /\ i \notin revoked
    /\ max[i] > 0 => count[i] <= max[i]
    /\ expires[i] > 0 => now <= expires[i]

\* Invite::is_valid.
IsValid(i) ==
    /\ i \notin revoked
    /\ max[i] > 0 => count[i] < max[i]
    /\ expires[i] > 0 => now <= expires[i]

\* get_invite and try_use, with the connection locked.
Accept(t, c, i, u) ==
    /\ task[t].at = "idle" /\ Free(c)
    /\ i \in made /\ IsValid(i)
    /\ count[i] <= MaxCount
    /\ task' = [task EXCEPT ![t] = [at |-> "use", conn |-> c, invite |-> i, user |-> u,
                                    count |-> count[i] + 1]]
    /\ through' = [through EXCEPT ![i] = @ \cup {c}]
    /\ UNCHANGED <<invites, shares, now, granted, withdrawn>>

\* Mutant: the share is made before the use is stored.
UseAfterShare(t) ==
    LET i == task[t].invite IN
    /\ task[t].at = "use"
    /\ granted[i] < MaxGrants
    /\ shares' = shares \cup {task[t].user}
    /\ granted' = [granted EXCEPT ![i] = @ + 1]
    /\ task' = [task EXCEPT ![t].at = "share"]
    /\ UNCHANGED <<invites, now, through, withdrawn>>

\* insert_invite writes the whole copy back: its count, and that the invite is
\* not revoked.
Use(t) ==
    LET i == task[t].invite IN
    /\ task[t].at = "use"
    /\ \/ /\ count' = [count EXCEPT ![i] = task[t].count]
          /\ revoked' = revoked \ {i}
          /\ active' = active \cup {i}
          /\ task' = [task EXCEPT ![t].at = "share"]
          /\ UNCHANGED <<made, max, expires, shares, now, granted, through, withdrawn>>
       \/ Fails(t)

\* insert_share; when it fails the use stays counted.
Share(t) ==
    LET i == task[t].invite IN
    /\ task[t].at = "share"
    /\ \/ /\ granted[i] < MaxGrants
          /\ shares' = shares \cup {task[t].user}
          /\ granted' = [granted EXCEPT ![i] = @ + 1]
          /\ Finish(t)
          /\ UNCHANGED <<invites, now, through, withdrawn>>
       \/ Fails(t)

-----------------------------------------------------------------------------
(* revoke_invite.                                                           *)

\* The column is cleared.
Revoke(t, c, i) ==
    /\ task[t].at = "idle" /\ Free(c)
    /\ i \in made
    /\ active' = active \ {i}
    /\ task' = [task EXCEPT ![t].at = "mark", ![t].conn = c, ![t].invite = i]
    /\ through' = [through EXCEPT ![i] = @ \cup {c}]
    /\ UNCHANGED <<made, max, expires, count, revoked, shares, now, granted, withdrawn>>

\* get_invite, whose failure is ignored.
Mark(t) ==
    /\ task[t].at = "mark"
    /\ \/ /\ task' = [task EXCEPT ![t].at = "store", ![t].count = count[task[t].invite]]
          /\ UNCHANGED <<invites, shares, now, granted, through, withdrawn>>
       \/ Fails(t)

\* insert_invite writes the copy back, revoked; a failure is ignored, too.
Store(t) ==
    LET i == task[t].invite IN
    /\ task[t].at = "store"
    /\ \/ /\ count' = [count EXCEPT ![i] = task[t].count]
          /\ revoked' = revoked \cup {i}
          /\ active' = active \ {i}
          /\ withdrawn' = withdrawn \cup {i}
          /\ Finish(t)
          /\ UNCHANGED <<made, max, expires, shares, now, granted, through>>
       \/ Fails(t)

-----------------------------------------------------------------------------
\* The process of a connection ends.
Crash(c) ==
    /\ ~Free(c)
    /\ task' = [t \in Tasks |-> IF Holds(t, c) THEN [task[t] EXCEPT !.at = "idle"] ELSE task[t]]
    /\ UNCHANGED <<invites, shares, now, granted, through, withdrawn>>

Tick ==
    /\ now <= MaxTime
    /\ now' = now + 1
    /\ UNCHANGED <<invites, shares, task, granted, through, withdrawn>>

Init ==
    /\ made = {} /\ revoked = {} /\ active = {}
    /\ max = [i \in Invites |-> 0]
    /\ expires = [i \in Invites |-> 0]
    /\ count = [i \in Invites |-> 0]
    /\ shares = {}
    /\ now = 1
    /\ task \in [Tasks -> [at: {"idle"}, conn: Conns, invite: Invites, user: Users, count: {0}]]
    /\ granted = [i \in Invites |-> 0]
    /\ through = [i \in Invites |-> {}]
    /\ withdrawn = {}

Next ==
    \/ \E c \in Conns, i \in Invites, uses \in 0..MaxUses, until \in 0..MaxTime :
         CreateInvite(c, i, uses, until)
    \/ \E c \in Conns, u \in Users : CreateShare(c, u) \/ RevokeShare(c, u)
    \/ \E t \in Tasks, c \in Conns, i \in Invites :
         Revoke(t, c, i) \/ \E u \in Users : Accept(t, c, i, u)
    \/ \E t \in Tasks : Use(t) \/ Share(t) \/ Mark(t) \/ Store(t)
    \/ \E c \in Conns : Crash(c)
    \/ Tick

Spec == Init /\ [][Next]_vars

-----------------------------------------------------------------------------
(* Properties.                                                              *)

\* All who have accepted or revoked the invite did so on one connection.
Serial(i) == \E c \in Conns : through[i] \subseteq {c}

\* An invite of max_uses makes at most that many shares, whatever fails and
\* whatever is retried, as long as its users come through one connection.
\* (Two connections read the same count and lose one of the uses.)
UsesWithinMax == \A i \in Invites : Serial(i) /\ max[i] > 0 => granted[i] <= max[i]

\* The use is stored before the share is made: a crash or a failed statement
\* between the two can cost the invite a use, and never makes a share for free.
GrantsPaid == \A i \in Invites : Serial(i) => granted[i] <= count[i]

\* A revoke that has marked the invite is final: no accept that was under way
\* writes its older copy back.
RevokedIsFinal == \A i \in withdrawn : Serial(i) => i \in revoked
=============================================================================
