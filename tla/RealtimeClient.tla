----------------------------- MODULE RealtimeClient -----------------------------
(***************************************************************************)
(* Realtime (packages/realtime): the browser client of Keryx, with its     *)
(* connection tickets, its current socket, its subscriptions and commands. *)
(*                                                                         *)
(* JavaScript runs one callback at a time: an action is one callback or    *)
(* one call of the application.  Between them wait tickets (any number, of *)
(* which one is current), the two wires of the socket, and the timers.     *)
(* The other end of the wires is what Keryx's #receive does.  Connection   *)
(* state "connecting" stands for 'reconnecting' too: the code tests for    *)
(* 'authenticated' alone.  A socket delivers nothing once it is closing.   *)
(***************************************************************************)
EXTENDS Integers, Sequences, FiniteSets, SequencesExt

CONSTANTS
    Channels,    \* keys of #subscriptions
    Commands,    \* command ids
    AppSteps,    \* bound on the calls of the application
    Faults       \* bound on failed tickets, lost sockets, rejections, timeouts

ASSUME ChannelsAssumption == IsFiniteSet(Channels)
ASSUME BoundsAssumption == AppSteps \in Nat /\ Faults \in Nat

VARIABLES
    conn,        \* #state
    explicit,    \* #explicitlyDisconnected
    terminal,    \* #terminalFailure
    seq,         \* #connectionSequence
    auth,        \* #authorizationPending
    tickets,     \* sequences whose ticket request is under way
    sock,        \* readyState of #socket; "rejecting": closing with code 4403
    strays,      \* sockets that were live when #socket was replaced
    up, down,    \* frames on the wires of #socket
    server,      \* channels Keryx has this socket subscribed to
    sub,         \* state of the subscription; "none": not in #subscriptions
    subTimer,    \* #subscriptionTimers
    connTimer,   \* #connectionTimer
    reTimer,     \* #reconnectTimer
    cmd,         \* the promise of a command; "stranded": the socket it is
                 \* pending on was replaced.  Both have their timer
    asked,       \* what the application last asked of a channel
    steps, faults

linkVars == <<sock, strays, up, down, server, connTimer>>
dialVars == <<explicit, seq, auth, tickets>>
subVars == <<sub, subTimer>>
vars == <<conn, terminal, dialVars, linkVars, subVars, reTimer, cmd, asked, steps, faults>>

Live == {"connecting", "open"}
CommandState == {"idle", "pending", "stranded", "settled"}
SubState == {"none", "pending", "subscribing", "subscribed", "failed", "leaving"}

TypeOK ==
    /\ conn \in {"idle", "connecting", "transport-open", "authenticated", "disconnected"}
    /\ {explicit, terminal, auth, connTimer, reTimer} \subseteq BOOLEAN
    /\ tickets \subseteq 1..seq
    /\ auth => seq \in tickets
    /\ sock \in Live \cup {"none", "closing", "rejecting"}
    /\ sock = "none" => up = <<>> /\ down = <<>> /\ server = {} /\ ~connTimer
    /\ server \subseteq Channels
    /\ sub \in [Channels -> SubState]
    /\ subTimer \in [Channels -> BOOLEAN]
    /\ cmd \in [Commands -> CommandState]

Init ==
    /\ conn = "idle"
    /\ explicit = FALSE /\ terminal = FALSE
    /\ seq = 0 /\ auth = FALSE /\ tickets = {}
    /\ sock = "none" /\ strays = 0 /\ up = <<>> /\ down = <<>> /\ server = {}
    /\ sub = [c \in Channels |-> "none"]
    /\ subTimer = [c \in Channels |-> FALSE]
    /\ connTimer = FALSE /\ reTimer = FALSE
    /\ cmd = [k \in Commands |-> "idle"]
    /\ asked = [c \in Channels |-> "never"]
    /\ steps = 0 /\ faults = 0

AppStep == steps < AppSteps /\ steps' = steps + 1 /\ UNCHANGED faults
Fault == faults < Faults /\ faults' = faults + 1 /\ UNCHANGED steps
Quietly == UNCHANGED <<steps, faults>>

-----------------------------------------------------------------------------
(* What several handlers do.                                                *)

(* #send: nothing leaves unless the socket is open.                         *)
Send(frame) == up' = IF sock = "open" THEN Append(up, frame) ELSE up

(* connect(): a live socket or a pending ticket is left to do its work.     *)
Connect ==
    IF sock \in Live \/ auth
    THEN UNCHANGED <<conn, explicit, terminal, seq, auth, tickets>>
    ELSE /\ explicit' = FALSE
         /\ terminal' = FALSE
         /\ conn' = "connecting"
         /\ seq' = seq + 1
         /\ auth' = TRUE
         /\ tickets' = tickets \cup {seq + 1}

(* Mutation: no timer is ever set.                                          *)
ForgetReconnect(isTerminal, otherwise) ==
    /\ conn' = otherwise
    /\ UNCHANGED reTimer

(* #scheduleReconnect, as the end of a handler that put #state so.          *)
ScheduleReconnect(isTerminal, otherwise) ==
    IF reTimer \/ explicit \/ isTerminal
    THEN conn' = otherwise /\ UNCHANGED reTimer
    ELSE conn' = "connecting" /\ reTimer' = TRUE

(* Mutation: promises are left to their own timers.                         *)
AbandonCommands == UNCHANGED cmd

SettleCommands ==
    cmd' = [k \in Commands |-> IF cmd[k] = "idle" THEN "idle" ELSE "settled"]

(* Whatever comes of their socket is ignored from here on.                  *)
StrandCommands ==
    cmd' = [k \in Commands |-> IF cmd[k] = "pending" THEN "stranded" ELSE cmd[k]]

ClearSubscriptionTimers == subTimer' = [c \in Channels |-> FALSE]

(* With the socket go its wires, Keryx's connection and #connectionTimer.   *)
DropWires == up' = <<>> /\ down' = <<>> /\ server' = {} /\ connTimer' = FALSE

-----------------------------------------------------------------------------
(* Calls of the application.                                                *)

(* channel(): a subscription in the map is returned as it is.               *)
AppChannel(c) ==
    /\ AppStep
    /\ asked' = [asked EXCEPT ![c] = IF @ \in {"left", "again"} THEN "again" ELSE "asked"]
    /\ \/ /\ sub[c] # "none"
          /\ UNCHANGED <<conn, terminal, dialVars, up, subVars>>
       \/ /\ sub[c] = "none"
          /\ Connect
          /\ IF conn' = "authenticated"
             THEN /\ sub' = [sub EXCEPT ![c] = "subscribing"]
                  /\ subTimer' = [subTimer EXCEPT ![c] = TRUE]
                  /\ Send(<<"subscribe", c>>)
             ELSE /\ sub' = [sub EXCEPT ![c] = "pending"]
                  /\ UNCHANGED <<subTimer, up>>
    /\ UNCHANGED <<sock, strays, down, server, connTimer, reTimer, cmd>>

(* leave(): the entry goes at once, unless Keryx can be told.               *)
AppLeave(c) ==
    /\ AppStep
    /\ sub[c] # "none"
    /\ asked' = [asked EXCEPT ![c] = "left"]
    /\ IF conn = "authenticated"
       THEN /\ sub' = [sub EXCEPT ![c] = "leaving"]
            /\ subTimer' = [subTimer EXCEPT ![c] = TRUE]
            /\ Send(<<"unsubscribe", c>>)
       ELSE /\ sub' = [sub EXCEPT ![c] = "none"]
            /\ subTimer' = [subTimer EXCEPT ![c] = FALSE]
            /\ UNCHANGED up
    /\ UNCHANGED <<conn, terminal, dialVars, sock, strays, down, server, connTimer, reTimer,
                   cmd>>

AppConnect ==
    /\ AppStep
    /\ Connect
    /\ UNCHANGED <<linkVars, subVars, reTimer, cmd, asked>>

(* disconnect(): even a channel that is being left starts anew.             *)
AppDisconnect ==
    /\ AppStep
    /\ seq' = seq + 1
    /\ auth' = FALSE
    /\ explicit' = TRUE
    /\ terminal' = FALSE
    /\ conn' = "disconnected"
    /\ reTimer' = FALSE
    /\ sock' = "none"
    /\ DropWires
    /\ ClearSubscriptionTimers
    /\ SettleCommands
    /\ sub' = [c \in Channels |-> IF sub[c] = "none" THEN "none" ELSE "pending"]
    /\ UNCHANGED <<tickets, strays, asked>>

AppCommand(k) ==
    /\ AppStep
    /\ cmd[k] = "idle"
    /\ IF conn = "authenticated"
       THEN cmd' = [cmd EXCEPT ![k] = "pending"] /\ Send(<<"command", k>>)
       ELSE cmd' = [cmd EXCEPT ![k] = "settled"] /\ UNCHANGED up
    /\ UNCHANGED <<conn, terminal, dialVars, sock, strays, down, server, connTimer, subVars,
                   reTimer, asked>>

-----------------------------------------------------------------------------
(* The ticket request of one sequence.                                      *)

Answered(q) ==
    /\ q \in tickets
    /\ tickets' = tickets \ {q}
    /\ UNCHANGED <<seq, explicit, subVars, asked>>

(* Mutation: the end of a failed request does not say so.                   *)
StillPending(q) == UNCHANGED auth

(* The finally clause: only the current sequence ends the pending state.    *)
NoLongerPending(q) == auth' = (auth /\ q # seq)

(* Mutation: whatever ticket arrives opens a socket.                        *)
AnyIsCurrent(q) == ~explicit

IsCurrent(q) == q = seq /\ ~explicit

(* #openSocket replaces #socket, which may still be closing.                *)
TicketArrives(q) ==
    /\ Answered(q)
    /\ NoLongerPending(q)
    /\ \/ /\ ~IsCurrent(q)
          /\ Quietly
          /\ UNCHANGED <<linkVars, conn, reTimer, cmd>>
       \/ /\ IsCurrent(q)
          /\ Quietly
          /\ strays' = strays + IF sock \in Live THEN 1 ELSE 0
          /\ sock' = "connecting"
          /\ up' = <<>> /\ down' = <<>> /\ server' = {}
          /\ connTimer' = TRUE
          /\ StrandCommands
          /\ UNCHANGED <<conn, reTimer>>
       \/ /\ IsCurrent(q)              \* the factory throws
          /\ Fault
          /\ ScheduleReconnect(terminal, conn)
          /\ UNCHANGED <<linkVars, cmd>>
    /\ UNCHANGED terminal

TicketFails(q) ==
    /\ Answered(q)
    /\ Fault
    /\ NoLongerPending(q)
    /\ IF IsCurrent(q)
       THEN \E fatal \in BOOLEAN :
              /\ terminal' = fatal
              /\ ScheduleReconnect(fatal, "disconnected")
       ELSE UNCHANGED <<terminal, conn, reTimer>>
    /\ UNCHANGED <<linkVars, cmd>>

-----------------------------------------------------------------------------
(* Events of the current socket.                                            *)

(* Keryx admits the connection and says so.                                 *)
SocketOpens ==
    /\ sock = "connecting"
    /\ sock' = "open"
    /\ conn' = "transport-open"
    /\ down' = <<<<"connected">>>>
    /\ UNCHANGED <<terminal, dialVars, strays, up, server, connTimer, subVars, reTimer, cmd,
                   asked>>
    /\ Quietly

(* onclose; "rejected": with code 4401 or 4403.                             *)
Closed(rejected) ==
    /\ sock' = "none"
    /\ DropWires
    /\ ClearSubscriptionTimers
    /\ SettleCommands
    /\ sub' = [c \in Channels |-> IF sub[c] \in {"none", "leaving"} THEN sub[c] ELSE "pending"]
    /\ terminal' = (terminal \/ rejected)
    /\ ScheduleReconnect(terminal', "disconnected")
    /\ UNCHANGED <<dialVars, strays, asked>>

ClosingEnds ==
    /\ sock \in {"closing", "rejecting"}
    /\ Closed(sock = "rejecting")
    /\ Quietly

ConnectionLost ==
    /\ sock \in Live
    /\ Fault
    /\ \E rejected \in BOOLEAN : Closed(rejected)

(* A fatal error frame: Keryx refuses the connection, not one channel.      *)
ServerRefuses ==
    /\ sock = "open"
    /\ Fault
    /\ down' = Append(down, <<"fatal">>)
    /\ UNCHANGED <<conn, terminal, dialVars, sock, strays, up, server, connTimer, subVars,
                   reTimer, cmd, asked>>

-----------------------------------------------------------------------------
(* Frames.                                                                  *)

(* Keryx takes up the next frame, and answers it.                           *)
ServerHandles ==
    /\ sock = "open"
    /\ up # <<>>
    /\ up' = Tail(up)
    /\ LET kind == Head(up)[1]
           x == Head(up)[2]
           Reply(type) == down' = Append(down, <<type, x>>)
       IN  \/ kind = "subscribe" /\ server' = server \cup {x} /\ Reply("subscribed") /\ Quietly
           \/ /\ kind = "subscribe" /\ x \notin server
              /\ Reply("denied") /\ UNCHANGED server /\ Fault
           \/ kind = "unsubscribe" /\ server' = server \ {x} /\ Reply("unsubscribed") /\ Quietly
           \/ kind = "unsubscribe" /\ server' = server \ {x} /\ Reply("denied") /\ Fault
           \/ kind = "command" /\ Reply("ack") /\ UNCHANGED server /\ Quietly
    /\ UNCHANGED <<conn, terminal, dialVars, sock, strays, connTimer, subVars, reTimer, cmd,
                   asked>>

(* Mutation: what was subscribed before the connection is taken to be.      *)
UnheardSubscriptions == {c \in Channels : sub[c] \in {"pending", "subscribing", "failed"}}

(* The subscriptions the frame 'connected' asks for: all but those left.    *)
Resubscribed == {c \in Channels : sub[c] \notin {"none", "leaving"}}

Authenticate ==
    /\ conn' = "authenticated"
    /\ connTimer' = FALSE
    /\ sub' = [c \in Channels |-> IF c \in Resubscribed THEN "subscribing" ELSE sub[c]]
    /\ subTimer' = [c \in Channels |-> c \in Resubscribed \/ subTimer[c]]
    /\ up' = up \o [i \in 1..Cardinality(Resubscribed) |->
                      <<"subscribe", SetToSeq(Resubscribed)[i]>>]
    /\ UNCHANGED <<terminal, sock, cmd>>

Refused ==
    /\ terminal' = TRUE
    /\ sock' = "rejecting"
    /\ UNCHANGED <<conn, connTimer, up, subVars, cmd>>

Acknowledged(k) ==
    /\ cmd' = [cmd EXCEPT ![k] = "settled"]
    /\ UNCHANGED <<conn, terminal, sock, connTimer, up, subVars>>

(* A frame about a channel that is not in the map is ignored.               *)
ChannelFrame(type, c) ==
    /\ sub' = [sub EXCEPT ![c] =
         IF @ = "none" \/ type = "unsubscribed" THEN "none"
         ELSE IF type = "denied" THEN "failed" ELSE "subscribed"]
    /\ subTimer' = [subTimer EXCEPT ![c] = FALSE]
    /\ UNCHANGED <<conn, terminal, sock, connTimer, up, cmd>>

ClientReceives ==
    /\ sock = "open"
    /\ down # <<>>
    /\ down' = Tail(down)
    /\ LET kind == Head(down)[1]
       IN  \/ kind = "connected" /\ Authenticate
           \/ kind = "fatal" /\ Refused
           \/ kind = "ack" /\ Acknowledged(Head(down)[2])
           \/ /\ kind \in {"subscribed", "unsubscribed", "denied"}
              /\ ChannelFrame(kind, Head(down)[2])
    /\ UNCHANGED <<dialVars, strays, server, reTimer, asked>>
    /\ Quietly

-----------------------------------------------------------------------------
(* Timers.                                                                  *)

ConnectionTimesOut ==
    /\ connTimer
    /\ Fault
    /\ connTimer' = FALSE
    /\ sock' = IF sock \in Live /\ conn # "authenticated" THEN "closing" ELSE sock
    /\ UNCHANGED <<conn, terminal, dialVars, strays, up, down, server, subVars, reTimer, cmd,
                   asked>>

SubscriptionTimesOut(c) ==
    /\ subTimer[c]
    /\ subTimer' = [subTimer EXCEPT ![c] = FALSE]
    /\ sub' = [sub EXCEPT ![c] = "failed"]
    /\ Fault
    /\ UNCHANGED <<conn, terminal, dialVars, linkVars, reTimer, cmd, asked>>

CommandTimesOut(k) ==
    /\ cmd[k] \in {"pending", "stranded"}
    /\ cmd' = [cmd EXCEPT ![k] = "settled"]
    /\ Fault
    /\ UNCHANGED <<conn, terminal, dialVars, linkVars, subVars, reTimer, asked>>

ReconnectFires ==
    /\ reTimer
    /\ reTimer' = FALSE
    /\ Connect
    /\ UNCHANGED <<linkVars, subVars, cmd, asked>>
    /\ Quietly

Next ==
    \/ \E c \in Channels : AppChannel(c) \/ AppLeave(c) \/ SubscriptionTimesOut(c)
    \/ \E k \in Commands : AppCommand(k) \/ CommandTimesOut(k)
    \/ AppConnect \/ AppDisconnect
    \/ \E q \in tickets : TicketArrives(q) \/ TicketFails(q)
    \/ SocketOpens \/ ClosingEnds \/ ConnectionLost \/ ServerRefuses
    \/ ServerHandles \/ ClientReceives
    \/ ConnectionTimesOut \/ ReconnectFires

(* Answers come, closing sockets close, timers fire; faults need not.       *)
Fairness ==
    /\ WF_vars(\E q \in tickets : TicketArrives(q))
    /\ WF_vars(SocketOpens)
    /\ WF_vars(ClosingEnds)
    /\ WF_vars(ServerHandles)
    /\ WF_vars(ClientReceives)
    /\ WF_vars(ReconnectFires)

Spec == Init /\ [][Next]_vars /\ Fairness

-----------------------------------------------------------------------------
(* The client never has two live sockets: a ticket that comes back after   *)
(* disconnect() and connect() must not open a second one (the sequence     *)
(* test of #openSocket).                                                    *)
OneLiveSocket == strays = 0

(* A client that has been connected, was not told to disconnect and has no *)
(* terminal failure always has something under way that leads to a         *)
(* connection: its ticket request, a socket, or the reconnect timer.        *)
NeverStranded ==
    conn = "idle" \/ explicit \/ terminal \/ seq \in tickets \/ sock # "none" \/ reTimer

(* A channel shown as subscribed on an authenticated socket is one Keryx    *)
(* delivers to, unless a frame that ends it is on one of the wires.         *)
SubscribedMeansListening ==
    \A c \in Channels :
        conn = "authenticated" /\ sock = "open" /\ sub[c] = "subscribed" =>
            \/ c \in server
            \/ <<"unsubscribe", c>> \in Range(up)
            \/ <<"unsubscribed", c>> \in Range(down)
            \/ <<"denied", c>> \in Range(down)

(* What settles a pending command is always on its way: its frame or its   *)
(* answer is on a wire of the open socket, or the socket is closing and     *)
(* onclose will settle it.  A command left behind by a socket replaced      *)
(* while it was closing ("stranded") has its own timer and the next close,  *)
(* and is settled too, as is every subscription deadline, once the client   *)
(* has no socket.                                                           *)
NoPromiseIsLost ==
    /\ \A k \in Commands : cmd[k] = "pending" =>
         \/ sock \in {"closing", "rejecting"}
         \/ /\ sock = "open"
            /\ <<"command", k>> \in Range(up) \/ <<"ack", k>> \in Range(down)
    /\ sock = "none" =>
         /\ \A k \in Commands : cmd[k] # "stranded"
         /\ \A c \in Channels : ~subTimer[c]

(* A channel the application asked for and never left is subscribed or     *)
(* failed in the end, whatever sockets are lost and tickets fail, unless    *)
(* the client disconnects or fails for good.                                *)
ActiveChannelsSettle ==
    \A c \in Channels :
        asked[c] = "asked" ~>
            explicit \/ terminal \/ asked[c] # "asked" \/ sub[c] \in {"subscribed", "failed"}

=============================================================================
