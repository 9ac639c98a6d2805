--------------------------- MODULE TelegramSession ---------------------------
(* The login worker behind the panel's Telegram dialogs                        *)
(* (gui/services/telegram_session.py): a thread with an event loop and one      *)
(* Telethon client.  The dialog calls a method; its coroutine starts in the     *)
(* order of the calls, waits for Telegram among the others, and answers with a  *)
(* signal that Qt queues for the dialog's thread.  No answer names the call it  *)
(* belongs to.  Calls may fail at any await; a call whose client has been        *)
(* disconnected under it fails.  sign_out is called by nobody and left out.      *)
EXTENDS Naturals, SequencesExt

CONSTANTS Phone,  \* numbers, and the Telegram users who sign in with them
          Stale,  \* a stored session that Telegram no longer accepts
          None

VARIABLES source,    \* what connect() last left for the coroutine: a session blob, whether there is a database
          stored,    \* tg_session_blob of that database: whose session it is
          unwritten, \* a session was not written there although its user had signed in (history)
          client,    \* the Telethon client, or None
          requests,  \* coroutines not yet started
          running,   \* coroutines waiting for Telegram
          inbox      \* signals queued for the dialog

Session == Phone \union {Stale, None}
PhoneOrNone == Phone \union {None}

Op == {"connect", "send_code", "sign_in", "password", "me", "dialogs", "snapshot"}
Sig == {"authorized", "unauthorized", "code_sent", "password_required", "signed_in", "me", "dialogs", "snapshot",
        "error"}
Client == [session: Session, up: BOOLEAN, keyed: BOOLEAN, twofa: PhoneOrNone]

ASSUME StaleIsNobody == Phone # {} /\ Stale \notin Phone /\ None \notin Phone \union {Stale} \union Client

Coroutine == [op: Op, of: PhoneOrNone, hash: PhoneOrNone]
Waiter == [op: Op, of: PhoneOrNone, hash: PhoneOrNone, stage: {"asking", "disconnecting", "lost"}]
Answered == [sig: Sig \ {"snapshot"}, of: PhoneOrNone] \union [sig: {"snapshot"}, of: Session]

SessionTypeOK ==
    /\ source \in [blob: Session, db: BOOLEAN]
    /\ stored \in Session /\ unwritten \in BOOLEAN
    /\ client = None \/ client \in Client
    /\ requests \in Seq(Coroutine) /\ running \in Seq(Waiter) /\ inbox \in Seq(Answered)

SessionInit ==
    /\ source = [blob |-> None, db |-> FALSE]
    /\ stored \in {None, Stale, CHOOSE p \in Phone : TRUE}
    /\ unwritten = FALSE
    /\ client = None
    /\ requests = <<>> /\ running = <<>> /\ inbox = <<>>

\* of: the phone of a code request or of a sign-in; hash: the phone whose code request it answers
Request(op, of, hash) == [op |-> op, of |-> of, hash |-> hash]
Call(op) == Request(op, None, None)

Signal(sig, of) == [sig |-> sig, of |-> of]
Emit(sig, of) == inbox' = Append(inbox, Signal(sig, of))

Quiet == requests = <<>> /\ running = <<>> /\ inbox = <<>>

Submit(calls) == requests' = requests \o calls

\* connect() sets the attributes at once, the coroutine reads them when it gets there
Connect(blob, db) ==
    /\ source' = [blob |-> blob, db |-> db]
    /\ Submit(<<Call("connect")>>)

------------------------------------------------------------------------------
\* changed: the session of the client that was there is kept
NewClientKept ==
    LET existing == IF client # None THEN client.session
                    ELSE IF source.blob # None THEN source.blob ELSE IF source.db THEN stored ELSE None
    IN  [session |-> existing, up |-> FALSE, keyed |-> existing # None, twofa |-> None]

NewClient ==
    LET existing == IF source.blob # None THEN source.blob ELSE IF source.db THEN stored ELSE None
    IN  [session |-> existing, up |-> FALSE, keyed |-> existing # None, twofa |-> None]

Task(r, stage) == [op |-> r.op, of |-> r.of, hash |-> r.hash, stage |-> stage]
Lost(tasks) == [i \in DOMAIN tasks |-> [tasks[i] EXCEPT !.stage = IF @ = "disconnecting" THEN @ ELSE "lost"]]

\* the first step of a coroutine: it finds no client, disconnects the one there is, answers at once, or waits
Start ==
    /\ requests # <<>>
    /\ requests' = Tail(requests)
    /\ LET r == Head(requests)
       IN  \/ /\ r.op = "connect" /\ client = None
              /\ client' = NewClient
              /\ running' = Append(running, Task(r, "asking"))
              /\ UNCHANGED inbox
           \/ /\ r.op = "connect" /\ client # None
              /\ client' = [client EXCEPT !.up = FALSE]
              /\ running' = Append(Lost(running), Task(r, "disconnecting"))
              /\ UNCHANGED inbox
           \/ /\ r.op = "snapshot"
              /\ Emit("snapshot", IF client # None /\ client.keyed THEN client.session ELSE None)
              /\ UNCHANGED <<client, running>>
           \/ /\ r.op \notin {"connect", "snapshot"} /\ client = None
              /\ Emit("error", None)
              /\ UNCHANGED <<client, running>>
           \/ /\ r.op \notin {"connect", "snapshot"} /\ client # None
              /\ running' = Append(running, Task(r, IF client.up THEN "asking" ELSE "lost"))
              /\ UNCHANGED <<client, inbox>>
    /\ UNCHANGED <<source, stored, unwritten>>

\* the old client is gone; the new one takes what the attributes hold by now
Replace(i) ==
    /\ running[i].stage = "disconnecting"
    /\ client' = NewClient
    /\ running' = [Lost(running) EXCEPT ![i].stage = "asking"]
    /\ UNCHANGED <<source, stored, unwritten, requests, inbox>>

Ended(i) == running' = RemoveAt(running, i) /\ UNCHANGED <<source, requests>>

Fail(i) ==
    /\ Emit("error", None)
    /\ Ended(i)
    /\ UNCHANGED <<stored, unwritten, client>>

\* a client that is connected with nobody's session, or one Telegram refuses, is unauthorized
Welcome == IF client.session \in Phone THEN "authorized" ELSE "unauthorized"

\* connected: it is the client there now that is asked whether it is authorized
DoConnect(i) ==
    /\ running[i].op = "connect"
    /\ \/ running[i].stage = "asking" /\ client' = [client EXCEPT !.up = TRUE, !.keyed = TRUE]
       \/ running[i].stage = "lost" /\ client.up /\ UNCHANGED client
    /\ Emit(Welcome, None)
    /\ Ended(i) /\ UNCHANGED <<stored, unwritten>>

Asks(i, op) == running[i].op = op /\ running[i].stage = "asking"

DoSendCode(i) ==
    /\ Asks(i, "send_code")
    /\ Emit("code_sent", running[i].of)
    /\ Ended(i) /\ UNCHANGED <<stored, unwritten, client>>

\* the write of the session may fail unseen
PersistSessionBlob(of) ==
    /\ stored' \in {of, stored}
    /\ unwritten' = (unwritten \/ stored' # of)

SignedIn(i, as) ==
    /\ client' = [client EXCEPT !.session = as, !.twofa = None]
    /\ IF source.db THEN PersistSessionBlob(as) ELSE UNCHANGED <<stored, unwritten>>
    /\ Emit("signed_in", None)
    /\ Ended(i)

\* Telethon answers a client that is authorized already with its user, whatever phone and code are given;
\* otherwise the code must be the one sent for this phone, and the account may ask for a password as well
DoSignIn(i) ==
    /\ Asks(i, "sign_in")
    /\ \/ client.session \in Phone /\ SignedIn(i, client.session)
       \/ /\ client.session \notin Phone /\ running[i].hash = running[i].of /\ running[i].of # None
          /\ \/ SignedIn(i, running[i].of)
             \/ /\ client' = [client EXCEPT !.twofa = running[i].of]
                /\ Emit("password_required", None)
                /\ Ended(i) /\ UNCHANGED <<stored, unwritten>>

DoSignInWithPassword(i) ==
    /\ Asks(i, "password")
    /\ \/ client.session \in Phone /\ SignedIn(i, client.session)
       \/ client.session \notin Phone /\ client.twofa # None /\ SignedIn(i, client.twofa)

DoFetchMe(i) ==
    /\ Asks(i, "me") /\ client.session \in Phone
    /\ Emit("me", client.session)
    /\ Ended(i) /\ UNCHANGED <<stored, unwritten, client>>

DoListDialogs(i) ==
    /\ Asks(i, "dialogs") /\ client.session \in Phone
    /\ Emit("dialogs", client.session)
    /\ Ended(i) /\ UNCHANGED <<stored, unwritten, client>>

Answer(i) ==
    \/ Replace(i)
    \/ running[i].stage # "disconnecting" /\ Fail(i)
    \/ DoConnect(i) \/ DoSendCode(i) \/ DoSignIn(i) \/ DoSignInWithPassword(i) \/ DoFetchMe(i) \/ DoListDialogs(i)

Work == Start \/ \E i \in DOMAIN running : Answer(i)
=============================================================================
