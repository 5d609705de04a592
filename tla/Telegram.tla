------------------------------ MODULE Telegram ------------------------------
(***************************************************************************)
(* TelegramClient: the transport of blocks to the user's Saved Messages,   *)
(* and the login that it needs.                                            *)
(*                                                                         *)
(* Any number of tasks call one client.  An upload or a download waits for *)
(* a permit of its semaphore and keeps it over all of its attempts; every  *)
(* attempt, every delete and every step of a login waits for the mutex     *)
(* around the grammers client and keeps it over all of its network         *)
(* requests.  tokio's semaphore and mutex serve their waiters in order of  *)
(* arrival, so each is a line here, and the first ones of it are inside.   *)
(*                                                                         *)
(* A network request can fail, can succeed without its answer arriving,    *)
(* and is assumed to end.                                                  *)
(***************************************************************************)
EXTENDS Naturals, Sequences, SequencesExt, FiniteSetsExt

CONSTANTS
    Calls,                     \* the tasks that call the client
    max_concurrent_uploads,
    max_concurrent_downloads,
    max_retries,
    MAX_CODE_ATTEMPTS,
    MAX_PASSWORD_ATTEMPTS,
    MaxMessages                \* bound: on the messages ever sent

ASSUME TelegramAssumption ==
    /\ max_concurrent_uploads \in Nat \ {0} /\ max_concurrent_downloads \in Nat \ {0}
    /\ max_retries \in Nat \ {0}
    /\ MAX_CODE_ATTEMPTS \in Nat \ {0} /\ MAX_PASSWORD_ATTEMPTS \in Nat \ {0}
    /\ MaxMessages \in Nat

VARIABLES
    connected,  \* the flag that ensure_connected looks at
    inner,      \* the grammers client is there
    token,      \* the password token is cached
    session,    \* the session file: "none", "blank" (not logged in) or "authorized"
    loaded,     \* the copy of the session that a login has loaded to connect with
    outdated,   \* history: the session file has changed since that
    line,       \* for both semaphores and the mutex: who is inside or waits, in order
    call,       \* what each task is doing
    messages,   \* the ids in Saved Messages
    last,       \* the last id given out
    acked,      \* history: the ids that an upload has returned
    dropped,    \* history: the ids that a delete was called with
    loggedIn    \* history: Telegram has accepted a login, or the session of one, and
                \* neither a logout nor a save that failed has come after it

copy == <<loaded, outdated>>
auth == <<connected, inner, token, session, copy, loggedIn>>
cloud == <<messages, last, acked, dropped>>
vars == <<auth, line, call, cloud>>

Locks == {"upload", "download", "inner"}
Permits(l) == CASE l = "upload" -> max_concurrent_uploads
                [] l = "download" -> max_concurrent_downloads
                [] l = "inner" -> 1

Sessions == {"none", "blank", "authorized"}
OnWire == {"me", "send", "scan", "media", "delete", "install", "ask", "sign in", "check"}

\* op: what was called; at: the step that comes next; target: the message to
\* download or delete; cursor: where the scan for it is; strays: the messages
\* this upload has made and got no answer for; result: how the call ended.
Call == [op: {"none", "upload", "download", "delete", "login"},
         at: {"idle", "permit", "backoff", "connect", "phone", "code", "password"} \cup OnWire,
         attempt: Nat, target: 0..MaxMessages, cursor: 0..(MaxMessages + 1),
         strays: Nat, result: {"none", "ok", "missing", "error"}]
Idle == [op |-> "none", at |-> "idle", attempt |-> 0, target |-> 0, cursor |-> 0,
         strays |-> 0, result |-> "none"]

TypeOK ==
    /\ connected \in BOOLEAN /\ inner \in BOOLEAN /\ token \in BOOLEAN /\ loggedIn \in BOOLEAN
    /\ session \in Sessions /\ loaded \in Sessions /\ outdated \in BOOLEAN
    /\ line \in [Locks -> Seq(Calls)]
    /\ call \in [Calls -> Call]
    /\ last \in 0..MaxMessages
    /\ messages \subseteq 1..last /\ acked \subseteq 1..last /\ dropped \subseteq 1..last

-----------------------------------------------------------------------------
(* The lines, and how attempts and calls end.                               *)

Inside(l, t) == \E i \in 1..Min({Permits(l), Len(line[l])}) : line[l][i] = t

\* t's next step is at, inside of the mutex once it is t's turn.
Enter(t, at) ==
    /\ call' = [call EXCEPT ![t].at = at]
    /\ line' = [line EXCEPT !["inner"] = Append(@, t)]

\* t is at a step of at and has the mutex.
Has(t, at) == call[t].at = at /\ Inside("inner", t)

Goto(t, at) == call' = [call EXCEPT ![t].at = at] /\ UNCHANGED line

\* Mutant: the permit is forgotten, not dropped.
ReturnKeepingPermit(t, result, lost) ==
    /\ call' = [call EXCEPT ![t] = [Idle EXCEPT !.result = result, !.strays = call[t].strays + lost,
                                  !.target = IF result = "missing" THEN call[t].target ELSE 0]]
    /\ line' = [l \in Locks |-> IF l = "upload" /\ call[t].op = l THEN Append(RemoveFirst(line[l], t), t)
                                                                ELSE RemoveFirst(line[l], t)]

\* The call returns; guard and permit are dropped.
ReturnStraying(t, result, lost) ==
    /\ call' = [call EXCEPT ![t] = [Idle EXCEPT !.result = result, !.strays = call[t].strays + lost,
                                  !.target = IF result = "missing" THEN call[t].target ELSE 0]]
    /\ line' = [l \in Locks |-> RemoveFirst(line[l], t)]

Return(t, result) == ReturnStraying(t, result, 0)

\* Mutant: one attempt too many.
AttemptFailsOnceMore(t, error, lost) ==
    IF call[t].attempt < max_retries
      THEN /\ call' = [call EXCEPT ![t].at = "backoff", ![t].attempt = @ + 1, ![t].strays = @ + lost]
           /\ line' = [line EXCEPT !["inner"] = RemoveFirst(@, t)]
      ELSE ReturnStraying(t, error, lost)

\* An attempt of upload_block or download_block has failed, lost messages of it
\* have arrived, and its guard is dropped: the call sleeps with its permit, or
\* returns the last error.
AttemptFails(t, error, lost) ==
    IF call[t].attempt + 1 < max_retries
      THEN /\ call' = [call EXCEPT ![t].at = "backoff", ![t].attempt = @ + 1, ![t].strays = @ + lost]
           /\ line' = [line EXCEPT !["inner"] = RemoveFirst(@, t)]
      ELSE ReturnStraying(t, error, lost)

-----------------------------------------------------------------------------
(* upload_block and download_block.                                         *)

\* ensure_connected, validate_upload_size, and the line for a permit.
Begin(t, op, target) ==
    /\ call[t].at = "idle"
    /\ \/ /\ connected
          /\ call' = [call EXCEPT ![t] = [Idle EXCEPT !.op = op, !.at = "permit", !.target = target]]
          /\ line' = [line EXCEPT ![op] = Append(@, t)]
       \/ /\ ~connected \/ op = "upload"
          /\ Return(t, "error")
    /\ UNCHANGED <<auth, cloud>>

Upload(t) == Begin(t, "upload", 0)

\* The id is one that an upload has returned.
Download(t, id) == id \in acked /\ Begin(t, "download", id)

\* The permit is there: the first attempt.
Acquire(t) ==
    /\ call[t].at = "permit" /\ Inside(call[t].op, t)
    /\ Enter(t, "me")
    /\ UNCHANGED <<auth, cloud>>

\* The sleep is over: the next attempt.
Wake(t) ==
    /\ call[t].at = "backoff"
    /\ Enter(t, "me")
    /\ UNCHANGED <<auth, cloud>>

\* get_me, of a client that is there.  Before it an upload sends its data with
\* upload_stream, which puts it into no message yet.
GetMe(t) ==
    /\ Has(t, "me")
    /\ \/ /\ inner
          /\ call' = [call EXCEPT ![t].cursor = IF call[t].op = "download" THEN last + 1 ELSE 0,
                                  ![t].at = CASE call[t].op = "upload" -> "send"
                                              [] call[t].op = "download" -> "scan"
                                              [] call[t].op = "delete" -> "delete"]
          /\ UNCHANGED line
       \/ call[t].op # "delete" /\ AttemptFails(t, "error", 0)
       \/ call[t].op = "delete" /\ Return(t, "error")
    /\ UNCHANGED <<auth, cloud>>

Arrives == last < MaxMessages /\ last' = last + 1 /\ messages' = messages \cup {last + 1}

\* Mutant: an error of send_message is taken for success.
SendLax(t) ==
    /\ Has(t, "send") /\ last < MaxMessages
    /\ last' = last + 1
    /\ acked' = acked \cup {last + 1}
    /\ Return(t, "ok")
    /\ UNCHANGED <<auth, messages, dropped>>

\* send_message: it arrives and its id comes back, it arrives and the answer is
\* lost, or it does not arrive.
Send(t) ==
    /\ Has(t, "send")
    /\ \/ /\ Arrives
          /\ acked' = acked \cup {last + 1}
          /\ Return(t, "ok")
       \/ /\ Arrives
          /\ AttemptFails(t, "error", 1)
          /\ UNCHANGED acked
       \/ AttemptFails(t, "error", 0) /\ UNCHANGED <<messages, last, acked>>
    /\ UNCHANGED <<auth, dropped>>

\* The ids before the cursor, newest first: what messages.next() gives.
Older(t) == {id \in messages : id < call[t].cursor}

\* Mutant: the scan stops at the first message that is newer than the one sought.
PassedWrongWay(t, id) == id > call[t].target

Passed(t, id) == id < call[t].target

\* One round of the loop over the messages.
Scan(t) ==
    /\ Has(t, "scan")
    /\ \/ /\ Older(t) # {}
          /\ LET id == Max(Older(t)) IN
             \/ id = call[t].target /\ Goto(t, "media")
             \/ id # call[t].target /\ Passed(t, id) /\ AttemptFails(t, "missing", 0)
             \/ /\ id # call[t].target /\ ~Passed(t, id)
                /\ call' = [call EXCEPT ![t].cursor = id]
                /\ UNCHANGED line
       \/ Older(t) = {} /\ AttemptFails(t, "missing", 0)
       \/ AttemptFails(t, "error", 0)
    /\ UNCHANGED <<auth, cloud>>

\* The chunks of the file; what has come so far is lost with an error.
Media(t) ==
    /\ Has(t, "media")
    /\ \/ Return(t, "ok")
       \/ AttemptFails(t, "error", 0)
    /\ UNCHANGED <<auth, cloud>>

-----------------------------------------------------------------------------
(* delete_message: one attempt, and no permit.                              *)

Delete(t, id) ==
    /\ call[t].at = "idle" /\ id \in acked
    /\ \/ /\ connected
          /\ call' = [call EXCEPT ![t] = [Idle EXCEPT !.op = "delete", !.at = "me", !.target = id]]
          /\ line' = [line EXCEPT !["inner"] = Append(@, t)]
          /\ dropped' = dropped \cup {id}
          /\ UNCHANGED <<auth, messages, last, acked>>
       \/ ~connected /\ Return(t, "error") /\ UNCHANGED <<auth, cloud>>

DoDelete(t) ==
    /\ Has(t, "delete")
    /\ \/ messages' = messages \ {call[t].target} /\ \E r \in {"ok", "error"} : Return(t, r)
       \/ Return(t, "error") /\ UNCHANGED messages
    /\ UNCHANGED <<auth, last, acked, dropped>>

-----------------------------------------------------------------------------
(* login and handle_2fa, over connect, request_login_code, sign_in and      *)
(* check_password.                                                          *)

\* The client has just been made; the session file is loaded, or created.
Login(t) ==
    /\ ~connected /\ ~inner
    /\ call[t].at = "idle" /\ \A u \in Calls : call[u].op # "login"
    /\ session' = IF session = "none" THEN "blank" ELSE session
    /\ loaded' = session' /\ outdated' = FALSE
    /\ call' = [call EXCEPT ![t] = [Idle EXCEPT !.op = "login", !.at = "connect"]]
    /\ UNCHANGED <<connected, inner, token, loggedIn, line, cloud>>

\* Client::connect and is_authorized, of the copy that was loaded: the file may
\* be gone by now.  The flag is set before the client is there to be used.
Connect(t) ==
    /\ call[t].at = "connect"
    /\ \/ /\ connected' = (connected \/ loaded = "authorized")
          /\ loggedIn' = (loggedIn \/ (loaded = "authorized" /\ ~outdated))
          /\ call' = [call EXCEPT ![t].at = "install", ![t].attempt = IF loaded = "authorized" THEN 0 ELSE 1]
          /\ line' = [line EXCEPT !["inner"] = Append(@, t)]
       \/ Return(t, "error") /\ UNCHANGED <<connected, loggedIn>>
    /\ loaded' = "none" /\ outdated' = FALSE
    /\ UNCHANGED <<inner, token, session, cloud>>

\* The client is put in its place; an authorized one ends the login.
Install(t) ==
    /\ Has(t, "install")
    /\ inner' = TRUE
    /\ IF call[t].attempt = 0
         THEN Return(t, "ok")
         ELSE /\ call' = [call EXCEPT ![t].at = "phone"]
              /\ line' = [line EXCEPT !["inner"] = RemoveFirst(@, t)]
    /\ UNCHANGED <<connected, token, session, copy, loggedIn, cloud>>

\* The user gives a phone number, or none.
Phone(t) ==
    /\ call[t].at = "phone"
    /\ Enter(t, "ask") \/ Return(t, "error")
    /\ UNCHANGED <<auth, cloud>>

\* request_login_code.
Ask(t) ==
    /\ Has(t, "ask")
    /\ \/ /\ inner
          /\ call' = [call EXCEPT ![t].at = "code"]
          /\ line' = [line EXCEPT !["inner"] = RemoveFirst(@, t)]
       \/ Return(t, "error")
    /\ UNCHANGED <<auth, cloud>>

Limit(t) == IF call[t].at \in {"code", "sign in"} THEN MAX_CODE_ATTEMPTS ELSE MAX_PASSWORD_ATTEMPTS

\* The prompt at point comes again, or the attempts are used up.
AskAgain(t, point) ==
    IF call[t].attempt < Limit(t)
      THEN /\ call' = [call EXCEPT ![t].at = point, ![t].attempt = @ + 1]
           /\ line' = [line EXCEPT !["inner"] = RemoveFirst(@, t)]
      ELSE Return(t, "error")

\* The user answers the prompt: with nothing, or with a code or a password.
Answer(t, prompt, at) ==
    /\ call[t].at = prompt
    /\ AskAgain(t, prompt) \/ Enter(t, at)
    /\ UNCHANGED <<auth, cloud>>

\* Mutant: a session that could not be saved is not an error.
SignedInLax(t, point) ==
    /\ connected' = TRUE
    /\ Return(t, "ok")
    /\ loggedIn' = TRUE
    /\ session' \in {session, "authorized"}
    /\ UNCHANGED copy

\* The file does not have what it had when it was loaded: its login is over.
Outdate == loggedIn' = FALSE /\ outdated' = (loaded # "none") /\ UNCHANGED loaded

\* The server accepts: the flag is set, then the session is saved, which can fail.
SignedIn(t, point) ==
    /\ connected' = TRUE
    /\ \/ session' = "authorized" /\ loggedIn' = TRUE /\ Return(t, "ok") /\ UNCHANGED copy
       \/ session' \in {session, "blank"} /\ Outdate /\ AskAgain(t, point)

SignIn(t) ==
    /\ Has(t, "sign in")
    /\ \/ inner /\ SignedIn(t, "code") /\ UNCHANGED token
       \/ /\ inner
          /\ token' = TRUE
          /\ call' = [call EXCEPT ![t].at = "password", ![t].attempt = 1]
          /\ line' = [line EXCEPT !["inner"] = RemoveFirst(@, t)]
          /\ UNCHANGED <<connected, session, copy, loggedIn>>
       \/ AskAgain(t, "code") /\ UNCHANGED <<connected, session, copy, loggedIn, token>>
    /\ UNCHANGED <<inner, cloud>>

\* The token is taken before the server is asked: a second password finds none.
CheckPassword(t) ==
    /\ Has(t, "check")
    /\ token' = (token /\ ~inner)
    /\ \/ inner /\ token /\ SignedIn(t, "password")
       \/ AskAgain(t, "password") /\ UNCHANGED <<connected, session, copy, loggedIn>>
    /\ UNCHANGED <<inner, cloud>>

\* remove_session of the server: the file goes, whatever the client is doing.
RemoveSession ==
    /\ session # "none"
    /\ session' = "none" /\ Outdate
    /\ UNCHANGED <<connected, inner, token, line, call, cloud>>

\* logout of the command line: it removes a file in the configuration directory,
\* which the client does not use, and only where there is none the client's.
Logout ==
    \E elsewhere \in BOOLEAN :
        \/ elsewhere /\ UNCHANGED vars
        \/ ~elsewhere /\ RemoveSession

-----------------------------------------------------------------------------
\* The process ends; the session file and the messages stay.
Restart ==
    /\ connected' = FALSE /\ inner' = FALSE /\ token' = FALSE
    /\ loaded' = "none" /\ outdated' = FALSE
    /\ line' = [l \in Locks |-> <<>>]
    /\ call' = [t \in Calls |-> Idle]
    /\ UNCHANGED <<session, loggedIn, cloud>>

Init ==
    /\ connected = FALSE /\ inner = FALSE /\ token = FALSE /\ session = "none"
    /\ loaded = "none" /\ outdated = FALSE /\ loggedIn = FALSE
    /\ line = [l \in Locks |-> <<>>]
    /\ call = [t \in Calls |-> Idle]
    /\ messages = {} /\ last = 0 /\ acked = {} /\ dropped = {}

\* The steps that the runtime and the network take for a call.
Step(t) ==
    \/ Acquire(t) \/ Wake(t) \/ GetMe(t) \/ Send(t) \/ Scan(t) \/ Media(t) \/ DoDelete(t)
    \/ Connect(t) \/ Install(t) \/ Ask(t) \/ SignIn(t) \/ CheckPassword(t)

Next ==
    \/ \E t \in Calls : Upload(t) \/ Login(t) \/ Step(t)
    \/ \E t \in Calls : Phone(t) \/ Answer(t, "code", "sign in") \/ Answer(t, "password", "check")
    \/ \E t \in Calls, id \in 1..last : Download(t, id) \/ Delete(t, id)
    \/ RemoveSession
    \/ Logout
    \/ Restart

\* Tasks are scheduled, sleeps and network requests end.  Users need not answer.
Spec == Init /\ [][Next]_vars /\ \A t \in Calls : WF_vars(Step(t))

-----------------------------------------------------------------------------
(* Properties.                                                              *)

\* An id that upload_block has returned is that of a message in Saved Messages
\* until delete_message is called with it, whatever failed, was repeated or was
\* interrupted in between.
AckedStored == acked \ dropped \subseteq messages

\* download_block reports MessageNotFound only for a message that is gone,
\* however many newer ones there are and whatever its attempts met.
NotFoundIsTrue == \A t \in Calls : call[t].result = "missing" => call[t].target \notin messages

\* A lost answer makes a retry send the block again.  However the answers are
\* lost, one upload_block leaves at most max_retries messages whose id nobody
\* knows, and one of them less when it succeeds.
StraysBounded ==
    \A t \in Calls : /\ call[t].strays <= max_retries
                     /\ call[t].result = "ok" => call[t].strays < max_retries

\* A login that has replied success finds its session on the next start, until
\* the session file is removed or a save fails.  A removal counts from when the
\* login has loaded the file: one that it overlaps makes it reply "Already
\* authenticated" without a session to find.
LoginLasts == loggedIn => session = "authorized"

\* Every upload, download and delete returns: waiting for permits and for the
\* mutex, sleeping between attempts and logins of others never stall one for good.
CallsEnd ==
    \A t \in Calls : call[t].op \in {"upload", "download", "delete"} ~> call[t].op = "none"
=============================================================================
