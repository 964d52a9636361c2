------------------------------ MODULE ChatSession ------------------------------
(***************************************************************************)
(* A message to a session: AppController.sendMessage of apps/backend with  *)
(* ClineEngine and ClineSession of packages/engine-adapter, for one        *)
(* session.  The first message starts a session of the Cline core and      *)
(* later ones are sent to it; each call waits until the session ends or    *)
(* 120 s are over, reads the messages from the core's files and writes     *)
(* them to the session's row in the database.                              *)
(*                                                                         *)
(* Between two awaits other calls go on.  The core is external: it writes  *)
(* messages to its files and ends the session when it likes, once a start  *)
(* has reached it.  Its event "ended" reaches the handle at once.          *)
(*                                                                         *)
(* Left out: markVerified and restartSession, which nothing in the         *)
(* repository calls, so that a session that has ended stays in VERIFYING;  *)
(* token usage and collected messages; the column status of the row.       *)
(***************************************************************************)
EXTENDS Naturals

CONSTANTS
    Sender,            \* the calls of sendMessage
    MaxMessages,       \* bound: messages the core writes
    MaxReadFaults,     \* bound: reads of the core's files that fail
    MaxStops           \* bound: restarts of the backend

ASSUME ChatAssumption == {MaxMessages, MaxReadFaults, MaxStops} \subseteq Nat

VARIABLES
    registered,        \* activeSessions has a handle for the session
    isEnded,           \* isEnded of that handle
    core,              \* the core's session: absent, running or over
    written,           \* the number of messages in the core's files
    row,               \* the number of messages in the session's row
    at,                \* where each call is
    fetched,           \* what each call has read from the files
    starts,            \* how often this process has asked the core to start
    shown,             \* history: the most messages a call has returned
    overlapped,        \* history: a call read while another was about to write
    unread,            \* history: reads that failed so far
    stops              \* restarts so far

chatVars == <<registered, isEnded, core, written, row, at, fetched, starts, shown, overlapped,
              unread, stops>>

Places == {"idle", "dispatch", "starting", "sending", "waiting", "fetch", "update"}

Goes(s, from, to) == at[s] = from /\ at' = [at EXCEPT ![s] = to]

-----------------------------------------------------------------------------
ChatInit ==
    /\ registered = FALSE /\ isEnded = FALSE
    /\ core = "absent"
    /\ written = 0 /\ row = 0
    /\ at = [s \in Sender |-> "idle"]
    /\ fetched = [s \in Sender |-> 0]
    /\ starts = 0
    /\ shown = 0 /\ overlapped = FALSE /\ unread = 0
    /\ stops = 0

\* The request comes in: its row and the provider's keys are read.
SendMessage(s) ==
    /\ Goes(s, "idle", "dispatch")
    /\ UNCHANGED <<registered, isEnded, core, written, row, fetched, starts, shown, overlapped,
                   unread, stops>>

\* Faulty variant of StartSession: the handle is registered when the start is over.
StartSessionLate(s) ==
    /\ ~registered
    /\ Goes(s, "dispatch", "starting")
    /\ starts' = starts + 1
    /\ UNCHANGED <<registered, isEnded, core, written, row, fetched, shown, overlapped, unread,
                   stops>>

\* getSession and, when there is no handle, startSession up to its await: the
\* handle subscribes to the core's events and is registered before the start.
StartSession(s) ==
    /\ ~registered
    /\ Goes(s, "dispatch", "starting")
    /\ registered' = TRUE /\ isEnded' = FALSE
    /\ starts' = starts + 1
    /\ UNCHANGED <<core, written, row, fetched, shown, overlapped, unread, stops>>

\* ClineSession.sendMessage: a session that has ended takes no more messages.
FollowUp(s) ==
    /\ registered
    /\ IF isEnded THEN Goes(s, "dispatch", "fetch") ELSE Goes(s, "dispatch", "sending")
    /\ UNCHANGED <<registered, isEnded, core, written, row, fetched, starts, shown, overlapped,
                   unread, stops>>

\* The core answers start or send, or fails to; the caller logs a failure and
\* goes on, and a handle whose start has failed stays registered.
CoreAnswers(s) ==
    /\ core # "absent"
    /\ \/ Goes(s, "starting", IF isEnded THEN "fetch" ELSE "waiting")
       \/ Goes(s, "sending", IF isEnded THEN "fetch" ELSE "waiting")
    /\ UNCHANGED <<registered, isEnded, core, written, row, fetched, starts, shown, overlapped,
                   unread, stops>>

CoreFails(s) ==
    /\ Goes(s, "starting", "fetch") \/ Goes(s, "sending", "fetch")
    /\ UNCHANGED <<registered, isEnded, core, written, row, fetched, starts, shown, overlapped,
                   unread, stops>>

\* waitForCompletion returns: the session has ended or the time is up.
WaitIsOver(s) ==
    /\ Goes(s, "waiting", "fetch")
    /\ UNCHANGED <<registered, isEnded, core, written, row, fetched, starts, shown, overlapped,
                   unread, stops>>

\* getFormattedMessages, which returns none when it cannot read the files.
Fetch(s) ==
    /\ Goes(s, "fetch", "update")
    /\ \/ fetched' = [fetched EXCEPT ![s] = written] /\ UNCHANGED unread
       \/ /\ unread < MaxReadFaults
          /\ fetched' = [fetched EXCEPT ![s] = 0] /\ unread' = unread + 1
    /\ overlapped' = (overlapped \/ \E o \in Sender \ {s} : at[o] = "update")
    /\ UNCHANGED <<registered, isEnded, core, written, row, starts, shown, stops>>

\* Faulty variant of Update: a row that has messages keeps them.
UpdateOnce(s) ==
    /\ Goes(s, "update", "idle")
    /\ row' = IF row = 0 THEN fetched[s] ELSE row
    /\ shown' = IF fetched[s] > shown THEN fetched[s] ELSE shown
    /\ fetched' = [fetched EXCEPT ![s] = 0]
    /\ UNCHANGED <<registered, isEnded, core, written, starts, overlapped, unread, stops>>

\* The row takes the messages that were read, and so does the answer.
Update(s) ==
    /\ Goes(s, "update", "idle")
    /\ row' = fetched[s]
    /\ shown' = IF fetched[s] > shown THEN fetched[s] ELSE shown
    /\ fetched' = [fetched EXCEPT ![s] = 0]
    /\ UNCHANGED <<registered, isEnded, core, written, starts, overlapped, unread, stops>>

-----------------------------------------------------------------------------
\* The core sets a session up that it was asked to start.
CoreStarts ==
    /\ core = "absent" /\ \E s \in Sender : at[s] = "starting"
    /\ core' = "running"
    /\ UNCHANGED <<registered, isEnded, written, row, at, fetched, starts, shown, overlapped,
                   unread, stops>>

CoreWrites ==
    /\ core = "running" /\ written < MaxMessages
    /\ written' = written + 1
    /\ UNCHANGED <<registered, isEnded, core, row, at, fetched, starts, shown, overlapped,
                   unread, stops>>

\* The event "ended", or the hook session_shutdown, at the handle's listener.
CoreEnds ==
    /\ core = "running"
    /\ core' = "over"
    /\ isEnded' = registered
    /\ UNCHANGED <<registered, written, row, at, fetched, starts, shown, overlapped, unread,
                   stops>>

\* The backend stops, with or without ClineEngine.dispose, and comes back.
Restart ==
    /\ stops < MaxStops
    /\ stops' = stops + 1
    /\ registered' = FALSE /\ isEnded' = FALSE
    /\ core' = "absent" /\ starts' = 0
    /\ at' = [s \in Sender |-> "idle"]
    /\ fetched' = [s \in Sender |-> 0]
    /\ UNCHANGED <<written, row, shown, overlapped, unread>>

ChatSteps(s) == StartSession(s) \/ FollowUp(s) \/ CoreAnswers(s) \/ CoreFails(s)
                    \/ WaitIsOver(s) \/ Fetch(s) \/ Update(s)

ChatNext ==
    \/ \E s \in Sender : SendMessage(s) \/ ChatSteps(s)
    \/ CoreStarts \/ CoreWrites \/ CoreEnds \/ Restart

ChatSpec == ChatInit /\ [][ChatNext]_chatVars

-----------------------------------------------------------------------------
\* Type correctness of the session, its row and the calls.
ChatTypeOK ==
    /\ {registered, isEnded, overlapped} \subseteq BOOLEAN
    /\ core \in {"absent", "running", "over"}
    /\ {written, row, shown} \subseteq 0..MaxMessages
    /\ at \in [Sender -> Places] /\ fetched \in [Sender -> 0..MaxMessages]
    /\ starts \in Nat /\ unread \in 0..MaxReadFaults /\ stops \in 0..MaxStops

\* However messages overlap, a process asks the core once to start a session,
\* and the handle that does so hears it end: two first messages do not start it
\* twice, and no call waits out its 120 s for a session that is over.
OneHandle ==
    /\ starts <= 1
    /\ core # "absent" => registered
    /\ core = "over" => isEnded

\* The row, which answers for the session when the core's files cannot be
\* read, never falls behind what a caller was shown, also across restarts.  The
\* two exceptions are calls that read while another is about to write, and may
\* write first, and a read that failed, whose empty result is written.
RowKeepsUp == (~overlapped /\ unread = 0) => row >= shown
=============================================================================
