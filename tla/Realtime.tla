------------------------------ MODULE Realtime ------------------------------
(***************************************************************************)
(* The way of an event to a page: the websocket server of apps/realtime    *)
(* (ConnectionManager, SubscriptionManager, EventRouter) and the           *)
(* WSConnectionProvider of apps/web that connects to it, here one browser  *)
(* with one provider.                                                      *)
(*                                                                         *)
(* A login stands for a token with its tenant.  A socket is used once.     *)
(* The client's messages arrive in order, and none after its connection    *)
(* is lost.  Left out: the client's own PING, which changes nothing, the   *)
(* length of the backoff, and what pages do with an event.                 *)
(***************************************************************************)
EXTENDS Integers, SequencesExt

CONSTANTS
    Login, NoLogin,
    DefaultLogin,      \* the identity of every client when the server has no AuthValidator
    TenantChannel,     \* the channel tenant:<id> of each login
    PageChannel,       \* the channels that pages subscribe to
    Admits,            \* for each channel the logins that may subscribe to it
    MaxSockets,        \* bound: sockets the client opens
    Cases              \* records: validating, whether the server has an AuthValidator, which
                       \* takes a while, and the bounds of the behaviour: sockets, beats
                       \* (heartbeats), underWay (messages on their way) and pages (channels)

Socket == 1..MaxSockets
Identity == Login \cup {DefaultLogin}
Channel == PageChannel \cup {TenantChannel[l] : l \in Identity}

ASSUME RealtimeAssumption ==
    /\ NoLogin \notin Identity
    /\ Admits \in [Channel -> SUBSET Identity]
    /\ \A l \in Identity : Admits[TenantChannel[l]] = {l} /\ TenantChannel[l] \notin PageChannel
    /\ MaxSockets \in Nat
    /\ Cases \subseteq [validating : BOOLEAN, sockets : 0..MaxSockets, beats : Nat,
                        underWay : Nat, pages : SUBSET PageChannel]

VARIABLES
    login,             \* token and tenantId of useAuth
    subs,              \* activeSubscriptions
    current,           \* socketRef, 0 for null
    timer,             \* reconnectTimeoutRef: the login of the closure that will connect
    ws,                \* readyState of each socket of the client
    opened,            \* the login each socket was opened with
    up,                \* messages from the client under way
    handler,           \* the server's connection handler of each socket
    conns,             \* connections
    beat,              \* isAlive
    listens,           \* channelSubscribers, and subscriptions of each client
    cut, gone,         \* sockets the server has terminated; whose close it has seen
    case,              \* the case a behaviour belongs to, with the heartbeats it has left
    refused, told,     \* sockets closed with 4001; those whose onclose was told so
    deaf, missed        \* history: sockets with messages, or a close, before the handlers

clientVars == <<login, subs, current, timer, ws, opened, told>>
serverVars == <<handler, conns, beat, listens, cut, gone, case, refused, deaf, missed>>
realtimeVars == <<clientVars, up, serverVars>>

-----------------------------------------------------------------------------
RealtimeInit ==
    /\ login \in Login \cup {NoLogin}
    /\ subs = {} /\ current = 0 /\ timer = NoLogin
    /\ ws = [s \in Socket |-> "unused"] /\ opened = [s \in Socket |-> NoLogin]
    /\ up = [s \in Socket |-> <<>>]
    /\ handler = [s \in Socket |-> "none"]
    /\ conns = {} /\ listens = {} /\ beat = [s \in Socket |-> FALSE]
    /\ cut = {} /\ gone = {} /\ refused = {} /\ told = {} /\ deaf = {} /\ missed = {}
    /\ case \in Cases

-----------------------------------------------------------------------------
\* connect, in a closure that was made with login l.
Live(s) == s # 0 /\ ws[s] \in {"connecting", "open"}
Connect(l) ==
    LET closed == [s \in Socket |-> IF s = current /\ Live(s) THEN "closing" ELSE ws[s]]
        unused == {s \in 1..case.sockets : ws[s] = "unused"}
        s == CHOOSE x \in unused : \A y \in unused : x <= y
    IN  IF l = NoLogin
        THEN ws' = closed /\ current' = 0 /\ UNCHANGED opened
        ELSE /\ unused # {}
             /\ ws' = [closed EXCEPT ![s] = "connecting"]
             /\ current' = s
             /\ opened' = [opened EXCEPT ![s] = l]

\* The provider is mounted, or the login changes: the effect is cleaned up and
\* connect of the new closure called.
SetLogin(l) ==
    /\ l # login \/ (current = 0 /\ l # NoLogin)
    /\ login' = l
    /\ timer' = NoLogin
    /\ Connect(l)
    /\ UNCHANGED <<subs, told, up, serverVars>>

\* A page calls reconnect.
Reconnect == Connect(login) /\ UNCHANGED <<login, subs, timer, told, up, serverVars>>

ReconnectTimer ==
    /\ timer # NoLogin
    /\ timer' = NoLogin
    /\ Connect(timer)
    /\ UNCHANGED <<login, subs, told, up, serverVars>>

\* Faulty variant of Resubscribed: only the tenant's channel is asked for again.
ResubscribedTenant(s) == <<<<"SUBSCRIBE", TenantChannel[opened[s]]>>>>

Resubscribed(s) ==
    LET asked == SetToSeq(subs)
    IN  <<<<"SUBSCRIBE", TenantChannel[opened[s]]>>>>
            \o [i \in DOMAIN asked |-> <<"SUBSCRIBE", asked[i]>>]

\* onopen, once the server has accepted the connection.
Opens(s) ==
    /\ ws[s] = "connecting" /\ handler[s] # "none"
    /\ ws' = [ws EXCEPT ![s] = "open"]
    /\ up' = [up EXCEPT ![s] = Resubscribed(s)]
    /\ UNCHANGED <<login, subs, current, timer, opened, told, serverVars>>

\* onclose, of whichever socket: it has been closed, refused, or its connection
\* is lost.  Unless it was refused, the closure it belongs to will connect again.
Closes(s) ==
    /\ ws[s] \in {"connecting", "open", "closing"}
    /\ ws' = [ws EXCEPT ![s] = "over"]
    /\ \/ s \in refused /\ told' = told \cup {s} /\ UNCHANGED timer
       \/ timer' = opened[s] /\ UNCHANGED told
    /\ UNCHANGED <<login, subs, current, opened, up, serverVars>>

\* subscribe and unsubscribe of a page.  The function that subscribe returns
\* removes the listener and leaves the subscription.
Send(message) ==
    IF current # 0 /\ ws[current] = "open"
    THEN up' = [up EXCEPT ![current] = Append(@, message)] ELSE UNCHANGED up
Room == current # 0 => Len(up[current]) < case.underWay

Subscribe(ch) ==
    /\ Room /\ ch \in case.pages
    /\ subs' = subs \cup {ch}
    /\ Send(<<"SUBSCRIBE", ch>>)
    /\ UNCHANGED <<login, current, timer, ws, opened, told, serverVars>>

Leave(ch) ==
    /\ Room /\ ch \in case.pages
    /\ subs' = subs \ {ch}
    /\ Send(<<"UNSUBSCRIBE", ch>>)
    /\ UNCHANGED <<login, current, timer, ws, opened, told, serverVars>>

-----------------------------------------------------------------------------
\* authenticateConnection has succeeded: the client is registered, subscribed to
\* its tenant and has its handlers.  Without a validator nobody reads the token.
ServerLogin(s) == IF case.validating THEN opened[s] ELSE DefaultLogin

Register(s) ==
    /\ handler' = [handler EXCEPT ![s] = "serving"]
    /\ conns' = conns \cup {s}
    /\ beat' = [beat EXCEPT ![s] = TRUE]
    /\ listens' = listens \cup {<<s, TenantChannel[ServerLogin(s)]>>}

\* The server's event "connection"; without a validator nothing comes in between.
Accept(s) ==
    /\ ws[s] \in {"connecting", "closing"} /\ handler[s] = "none" /\ s \notin gone
    /\ IF case.validating
       THEN /\ handler' = [handler EXCEPT ![s] = "auth"]
            /\ UNCHANGED <<conns, beat, listens>>
       ELSE Register(s)
    /\ UNCHANGED <<clientVars, up, cut, gone, case, refused, deaf, missed>>

Verified(s) ==
    /\ handler[s] = "auth"
    /\ \/ Register(s) /\ UNCHANGED refused
       \/ /\ handler' = [handler EXCEPT ![s] = "refused"]
          /\ refused' = refused \cup {s}
          /\ UNCHANGED <<conns, beat, listens>>
    /\ UNCHANGED <<clientVars, up, cut, gone, case, deaf, missed>>

\* subscribe and unsubscribe of SubscriptionManager, on a message of a client.
Listening(s, message) ==
    LET channel == <<s, message[2]>>
    IN  CASE message[1] = "UNSUBSCRIBE" -> listens \ {channel}
          [] message[1] = "SUBSCRIBE" /\ ServerLogin(s) \in Admits[message[2]] ->
                 listens \cup {channel}
          [] OTHER -> listens

Message(s) ==
    /\ up[s] # <<>> /\ s \notin gone \cup cut
    /\ up' = [up EXCEPT ![s] = Tail(@)]
    /\ IF handler[s] = "serving"
       THEN listens' = Listening(s, Head(up[s])) /\ UNCHANGED deaf
       ELSE deaf' = deaf \cup {s} /\ UNCHANGED listens
    /\ UNCHANGED <<clientVars, handler, conns, beat, cut, gone, case, refused, missed>>

\* The close of a socket at the server; its handler is there when the client was
\* registered in time.
Close(s) ==
    /\ handler[s] # "none" /\ s \notin gone
    /\ ws[s] \in {"closing", "over"} \/ s \in cut \cup refused
    /\ gone' = gone \cup {s}
    /\ up' = [up EXCEPT ![s] = <<>>]
    /\ IF handler[s] = "serving"
       THEN /\ listens' = {t \in listens : t[1] # s}
            /\ conns' = conns \ {s}
            /\ UNCHANGED missed
       ELSE missed' = missed \cup {s} /\ UNCHANGED <<listens, conns>>
    /\ UNCHANGED <<clientVars, handler, beat, cut, case, refused, deaf>>

\* The interval of startHeartbeat: who has not answered the last ping is
\* terminated, the others are sent one.
Heartbeat ==
    LET dead == {s \in conns : ~beat[s]}
    IN  /\ conns # {} /\ case.beats > 0
        /\ case' = [case EXCEPT !.beats = @ - 1]
        /\ conns' = conns \ dead
        /\ cut' = cut \cup dead
        /\ beat' = [s \in Socket |-> beat[s] /\ s \notin conns]
        /\ UNCHANGED <<clientVars, up, handler, listens, gone, refused, deaf, missed>>

Pong(s) ==
    /\ s \in conns \ (gone \cup cut) /\ ws[s] \in {"connecting", "open"} /\ ~beat[s]
    /\ beat' = [beat EXCEPT ![s] = TRUE]
    /\ UNCHANGED <<clientVars, up, handler, conns, listens, cut, gone, case, refused, deaf,
                   missed>>

RealtimeNext ==
    \/ \E l \in Login \cup {NoLogin} : SetLogin(l)
    \/ Reconnect \/ ReconnectTimer \/ Heartbeat
    \/ \E ch \in PageChannel : Subscribe(ch) \/ Leave(ch)
    \/ \E s \in Socket : Opens(s) \/ Closes(s) \/ Accept(s) \/ Verified(s) \/ Message(s)
                             \/ Close(s) \/ Pong(s)

RealtimeSpec == RealtimeInit /\ [][RealtimeNext]_realtimeVars

-----------------------------------------------------------------------------
\* Type correctness of client and server.
RealtimeTypeOK ==
    /\ {login, timer} \subseteq Login \cup {NoLogin} /\ subs \subseteq PageChannel
    /\ current \in Socket \cup {0}
    /\ ws \in [Socket -> {"unused", "connecting", "open", "closing", "over"}]
    /\ opened \in [Socket -> Login \cup {NoLogin}]
    /\ handler \in [Socket -> {"none", "auth", "serving", "refused"}]
    /\ listens \subseteq Socket \X Channel
    /\ UNION {conns, cut, gone, refused, told, deaf, missed} \subseteq Socket

\* routeEvent: who is sent an event of l's tenant that is of interest for ch.
Receivers(l, ch) ==
    {s \in conns : /\ ServerLogin(s) = l /\ ws[s] = "open"
                   /\ \E c \in {TenantChannel[l], ch} : <<s, c>> \in listens}

\* When nothing is under way the server's subscriptions of an open connection are
\* those the pages have asked for, as far as the login admits them, and the
\* events of its tenant reach it; whatever was subscribed or left while sockets
\* were opened, lost and replaced.  The exception are sockets whose first
\* messages came before the server listened to them.
InEffect ==
    (current # 0 /\ ws[current] = "open" /\ up[current] = <<>> /\ handler[current] = "serving"
        /\ current \notin UNION {cut, gone, deaf}) =>
    LET l == ServerLogin(current)
        wanted == {ch \in subs : l \in Admits[ch]} \cup {TenantChannel[l]}
    IN  /\ {ch \in Channel : <<current, ch>> \in listens} = wanted
        /\ \A tenant \in Identity, ch \in Channel :
               current \in Receivers(tenant, ch) <=> tenant = l

\* The client has one connection at a time, and while somebody is logged in
\* it has one, or a timer to connect again, unless the server has refused it.
NeverStranded ==
    /\ {s \in Socket : Live(s)} \subseteq {current}
    /\ (login # NoLogin /\ current # 0) => (timer # NoLogin \/ ws[current] # "over" \/ current \in told)

\* Of a socket whose close the server has seen nothing is left, unless it came
\* before the handlers were there.
NothingLeft == \A s \in gone \ missed : s \notin conns /\ \A t \in listens : t[1] # s

\* A client that connects, loses its connection, logs in or out and subscribes
\* as it likes stays connected, is subscribed to what it asked for, and is
\* forgotten by the server when it has gone.
ConnectionKept == InEffect /\ NeverStranded /\ NothingLeft
=============================================================================
