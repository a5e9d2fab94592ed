-------------------------- MODULE RealtimeClientProofs --------------------------
(***************************************************************************)
(* Proofs about RealtimeClient, for any channels, commands, faults and     *)
(* calls of the application.                                               *)
(*                                                                         *)
(* A ticket is the current one exactly while authorization is pending, and *)
(* then no socket is live; this is why a ticket that opens a socket never  *)
(* replaces a live one.                                                    *)
(***************************************************************************)
EXTENDS RealtimeClient, FiniteSetTheorems, SequenceTheorems, TLAPS

Sockets == Live \cup {"none", "closing", "rejecting"}

(* #authorizationPending, the tickets and the sequence.                    *)
OneTicket ==
    /\ seq \in Nat
    /\ tickets \subseteq 1..seq
    /\ auth \in BOOLEAN
    /\ auth <=> seq \in tickets
    /\ auth => sock \notin Live /\ ~explicit /\ conn # "authenticated"
    /\ strays = 0

(* What is authenticated has a socket.                                     *)
Connected ==
    /\ sock \in Sockets
    /\ conn = "authenticated" => sock \notin {"none", "connecting"}

(* Promises of commands and deadlines of subscriptions.                    *)
NothingWaits ==
    sock = "none" =>
        /\ \A k \in Commands : cmd[k] \notin {"pending", "stranded"}
        /\ \A c \in Channels : ~subTimer[c]
Waiting ==
    /\ subTimer \in [Channels -> BOOLEAN]
    /\ cmd \in [Commands -> CommandState]
    /\ NothingWaits

RInv == OneTicket /\ Connected /\ Waiting /\ NeverStranded

LEMMA RInvInit == Init => RInv
<1> SUFFICES ASSUME Init PROVE RInv
  OBVIOUS
<1>1. OneTicket
  <2>1. auth \in BOOLEAN /\ explicit \in BOOLEAN /\ ~auth
    BY Zenon DEF Init
  <2>2. seq = 0 /\ tickets = {} /\ strays = 0
    BY DEF Init
  <2>3. QED
    BY <2>1, <2>2 DEF OneTicket
<1>2. Connected
  BY DEF Init, Connected, Sockets, Live
<1>3. Waiting /\ NeverStranded
  BY DEF Init, Waiting, NothingWaits, NeverStranded, CommandState
<1>4. QED
  BY <1>1, <1>2, <1>3 DEF RInv

-----------------------------------------------------------------------------
(* connect() leaves something that leads to a connection.                  *)
LEMMA ConnectDials ==
    ASSUME OneTicket, Connect, UNCHANGED <<sock, strays>>
    PROVE  /\ OneTicket'
           /\ conn' = "authenticated" => conn = "authenticated"
           /\ sock' # "none" \/ seq' \in tickets'
<1>1. CASE sock \in Live \/ auth
  <2>1. UNCHANGED <<conn, explicit, seq, auth, tickets, sock, strays>>
    BY <1>1, Zenon DEF Connect
  <2>2. OneTicket'
    BY <2>1 DEF OneTicket
  <2>3. sock # "none" \/ seq \in tickets
    BY <1>1 DEF OneTicket, Live
  <2>4. QED
    BY <2>1, <2>2, <2>3
<1>2. CASE ~(sock \in Live \/ auth)
  <2>1. /\ ~explicit' /\ conn' = "connecting" /\ seq' = seq + 1 /\ auth'
        /\ auth' \in BOOLEAN /\ tickets' = tickets \cup {seq + 1}
    BY <1>2, Zenon DEF Connect
  <2>2. seq' \in Nat /\ tickets' \subseteq 1..seq' /\ seq' \in tickets'
    BY <2>1 DEF OneTicket
  <2>3. QED
    BY <1>2, <2>1, <2>2 DEF OneTicket
<1>3. QED
  BY <1>1, <1>2

(* #scheduleReconnect sets a timer unless the client is done for.          *)
LEMMA ReconnectIsScheduled ==
    ASSUME NEW isTerminal, NEW otherwise, ScheduleReconnect(isTerminal, otherwise),
           isTerminal => terminal', UNCHANGED explicit
    PROVE  /\ explicit' \/ terminal' \/ reTimer'
           /\ conn' \in {"connecting", otherwise}
BY DEF ScheduleReconnect

(* Losing the socket settles what waited for it.                           *)
LEMMA LossSettles ==
    ASSUME Waiting, SettleCommands, ClearSubscriptionTimers
    PROVE  Waiting'
BY DEF Waiting, SettleCommands, ClearSubscriptionTimers, NothingWaits, CommandState

LEMMA ClosedKeeps ==
    ASSUME RInv, NEW rejected \in BOOLEAN, Closed(rejected)
    PROVE  RInv'
<1>1. conn' \in {"connecting", "disconnected"} /\ (explicit' \/ terminal' \/ reTimer')
  BY ReconnectIsScheduled DEF Closed, dialVars
<1>2. OneTicket'
  BY <1>1 DEF RInv, OneTicket, Closed, dialVars, Live
<1>3. Connected'
  BY <1>1 DEF Closed, Connected, Sockets
<1>4. Waiting'
  BY LossSettles DEF RInv, Closed
<1>5. NeverStranded'
  BY <1>1 DEF NeverStranded
<1>6. QED
  BY <1>2, <1>3, <1>4, <1>5 DEF RInv

-----------------------------------------------------------------------------
(* Steps that leave the ticket, the connection and the timers alone.       *)
LEMMA LinkKept ==
    ASSUME RInv, UNCHANGED <<explicit, terminal, seq, auth, tickets, strays, reTimer>>,
           conn' = conn, sock' = sock
    PROVE  OneTicket' /\ Connected' /\ NeverStranded'
BY DEF RInv, OneTicket, Connected, NeverStranded

LEMMA AppStepsKeep ==
    ASSUME RInv,
           \/ \E c \in Channels : AppChannel(c) \/ AppLeave(c)
           \/ \E k \in Commands : AppCommand(k)
           \/ AppConnect \/ AppDisconnect
    PROVE  RInv'
<1>1. ASSUME NEW c \in Channels, AppChannel(c) PROVE RInv'
  <2>1. CASE sub[c] # "none"
    <3>1. /\ UNCHANGED <<explicit, terminal, seq, auth, tickets, strays, reTimer, conn, sock>>
          /\ UNCHANGED <<subTimer, cmd>>
      BY <1>1, <2>1 DEF AppChannel, dialVars, subVars
    <3>2. Waiting'
      BY <3>1 DEF RInv, Waiting, NothingWaits
    <3>3. QED
      BY <3>1, <3>2, LinkKept DEF RInv
  <2>2. CASE sub[c] = "none"
    <3>1. Connect /\ UNCHANGED <<sock, strays, reTimer, cmd>>
      BY <1>1, <2>2 DEF AppChannel
    <3>2. OneTicket' /\ NeverStranded' /\ (conn' = "authenticated" => conn = "authenticated")
      BY <3>1, ConnectDials DEF RInv, NeverStranded
    <3>3. Connected'
      BY <3>1, <3>2 DEF RInv, Connected
    <3>4. \/ subTimer' = [subTimer EXCEPT ![c] = TRUE] /\ conn' = "authenticated"
          \/ subTimer' = subTimer
      BY <1>1, <2>2 DEF AppChannel
    <3>5. Waiting'
      BY <3>1, <3>3, <3>4 DEF RInv, Waiting, Connected, NothingWaits, CommandState
    <3>6. QED
      BY <3>2, <3>3, <3>5 DEF RInv
  <2>3. QED
    BY <2>1, <2>2
<1>2. ASSUME NEW c \in Channels, AppLeave(c) PROVE RInv'
  <2>1. UNCHANGED <<explicit, terminal, seq, auth, tickets, strays, reTimer, conn, sock, cmd>>
    BY <1>2 DEF AppLeave, dialVars
  <2>2. subTimer' \in {[subTimer EXCEPT ![c] = TRUE], [subTimer EXCEPT ![c] = FALSE]}
        /\ (subTimer' = [subTimer EXCEPT ![c] = FALSE] \/ conn = "authenticated")
    BY <1>2 DEF AppLeave
  <2>3. Waiting'
    BY <2>1, <2>2 DEF RInv, Waiting, Connected, NothingWaits, CommandState
  <2>4. QED
    BY <2>1, <2>3, LinkKept DEF RInv
<1>3. ASSUME NEW k \in Commands, AppCommand(k) PROVE RInv'
  <2>1. /\ UNCHANGED <<explicit, terminal, seq, auth, tickets, strays, reTimer, conn, sock>>
        /\ UNCHANGED subTimer
    BY <1>3 DEF AppCommand, dialVars, subVars
  <2>2. \/ cmd' = [cmd EXCEPT ![k] = "pending"] /\ conn = "authenticated"
        \/ cmd' = [cmd EXCEPT ![k] = "settled"]
    BY <1>3 DEF AppCommand
  <2>3. Waiting'
    BY <2>1, <2>2 DEF RInv, Waiting, Connected, NothingWaits, CommandState
  <2>4. QED
    BY <2>1, <2>3, LinkKept DEF RInv
<1>4. CASE AppConnect
  <2>1. Connect /\ UNCHANGED <<sock, strays, reTimer, cmd, subTimer>>
    BY <1>4 DEF AppConnect, linkVars, subVars
  <2>2. OneTicket' /\ NeverStranded' /\ Connected'
    BY <2>1, ConnectDials DEF RInv, NeverStranded, Connected
  <2>3. Waiting'
    BY <2>1 DEF RInv, Waiting, NothingWaits
  <2>4. QED
    BY <2>2, <2>3 DEF RInv
<1>5. CASE AppDisconnect
  <2>1. /\ explicit' /\ ~auth' /\ auth' \in BOOLEAN
        /\ seq' = seq + 1 /\ sock' = "none" /\ conn' = "disconnected"
        /\ UNCHANGED <<tickets, strays>>
    BY <1>5, Zenon DEF AppDisconnect
  <2>2. seq' \in Nat /\ tickets' \subseteq 1..seq' /\ seq' \notin tickets'
    BY <2>1 DEF RInv, OneTicket
  <2>3. OneTicket' /\ Connected' /\ NeverStranded'
    BY <2>1, <2>2 DEF RInv, OneTicket, Connected, NeverStranded, Sockets
  <2>4. Waiting'
    BY <1>5, LossSettles DEF AppDisconnect, RInv
  <2>5. QED
    BY <2>3, <2>4 DEF RInv
<1>6. QED
  BY <1>1, <1>2, <1>3, <1>4, <1>5

LEMMA TicketStepsKeep ==
    ASSUME RInv, NEW q \in tickets, TicketArrives(q) \/ TicketFails(q)
    PROVE  RInv'
<1>1. /\ tickets' = tickets \ {q} /\ auth' = (auth /\ q # seq) /\ auth' \in BOOLEAN
      /\ UNCHANGED <<seq, explicit, subTimer>>
  BY Zenon DEF TicketArrives, TicketFails, Answered, NoLongerPending, subVars
<1>2. q \in Nat /\ seq \in Nat /\ (seq \in tickets' <=> seq \in tickets /\ q # seq)
  BY <1>1 DEF RInv, OneTicket
<1>3. CASE ~IsCurrent(q)
  <2>1. UNCHANGED <<conn, sock, strays, reTimer, terminal, cmd>>
    BY <1>3 DEF TicketArrives, TicketFails, linkVars
  <2>2. OneTicket' /\ Connected'
    BY <1>1, <1>2, <2>1 DEF RInv, OneTicket, Connected
  <2>3. NeverStranded'
    BY <1>1, <1>2, <1>3, <2>1 DEF RInv, NeverStranded, IsCurrent
  <2>4. Waiting'
    BY <1>1, <2>1 DEF RInv, Waiting, NothingWaits
  <2>5. QED
    BY <2>2, <2>3, <2>4 DEF RInv
<1>4. CASE IsCurrent(q)
  <2>1. q = seq /\ ~explicit /\ auth /\ sock \notin Live /\ conn # "authenticated"
    BY <1>4 DEF IsCurrent, RInv, OneTicket
  <2>2. CASE sock' = "connecting" /\ strays' = strays /\ conn' = conn /\ StrandCommands
    <3>1. OneTicket' /\ Connected' /\ NeverStranded'
      BY <1>1, <1>2, <2>1, <2>2 DEF RInv, OneTicket, Connected, NeverStranded, Sockets, Live
    <3>2. Waiting'
      BY <1>1, <2>2 DEF RInv, Waiting, NothingWaits, StrandCommands, CommandState
    <3>3. QED
      BY <3>1, <3>2 DEF RInv
  <2>3. CASE /\ UNCHANGED <<sock, strays, cmd>>
             /\ conn' \in {"connecting", "disconnected", conn}
             /\ explicit' \/ terminal' \/ reTimer'
    <3>1. OneTicket' /\ Connected' /\ NeverStranded'
      BY <1>1, <1>2, <2>1, <2>3 DEF RInv, OneTicket, Connected, NeverStranded
    <3>2. Waiting'
      BY <1>1, <2>3 DEF RInv, Waiting, NothingWaits
    <3>3. QED
      BY <3>1, <3>2 DEF RInv
  <2>4. CASE TicketArrives(q)
    <3>1. CASE /\ strays' = strays + IF sock \in Live THEN 1 ELSE 0
               /\ sock' = "connecting" /\ StrandCommands /\ UNCHANGED conn
      BY <2>1, <2>2, <3>1 DEF RInv, OneTicket
    <3>2. CASE ScheduleReconnect(terminal, conn) /\ UNCHANGED <<linkVars, cmd>>
      <4>1. terminal' = terminal /\ UNCHANGED explicit
        BY <1>1, <2>4 DEF TicketArrives
      <4>2. (explicit' \/ terminal' \/ reTimer') /\ conn' \in {"connecting", conn}
        BY <3>2, <4>1, ReconnectIsScheduled
      <4>3. QED
        BY <2>3, <3>2, <4>2 DEF linkVars
    <3>3. QED
      BY <1>4, <2>4, <3>1, <3>2 DEF TicketArrives
  <2>5. CASE TicketFails(q)
    <3>1. PICK fatal \in BOOLEAN :
            terminal' = fatal /\ ScheduleReconnect(fatal, "disconnected")
      BY <1>4, <2>5 DEF TicketFails
    <3>2. (explicit' \/ terminal' \/ reTimer') /\ conn' \in {"connecting", "disconnected"}
      BY <1>1, <3>1, ReconnectIsScheduled
    <3>3. UNCHANGED <<sock, strays, cmd>>
      BY <2>5 DEF TicketFails, linkVars
    <3>4. QED
      BY <2>3, <3>2, <3>3
  <2>6. QED
    BY <2>4, <2>5
<1>5. QED
  BY <1>3, <1>4

(* Frames, on either wire.                                                 *)
LEMMA FrameStepsKeep ==
    ASSUME RInv, SocketOpens \/ ServerRefuses \/ ServerHandles \/ ClientReceives
    PROVE  RInv'
<1>1. sock \in Live /\ sock' \in {"open", "rejecting"}
  BY DEF SocketOpens, ServerRefuses, ServerHandles, ClientReceives, Authenticate, Refused,
         Acknowledged, ChannelFrame, Live
<1>2. UNCHANGED <<explicit, seq, auth, tickets, strays>>
  BY DEF SocketOpens, ServerRefuses, ServerHandles, ClientReceives, dialVars
<1>3. ~auth
  BY <1>1 DEF RInv, OneTicket
<1>4. OneTicket' /\ Connected' /\ NeverStranded'
  BY <1>1, <1>2, <1>3 DEF RInv, OneTicket, Connected, NeverStranded, Sockets, Live
<1>5. Waiting'
  <2>1. subTimer' \in [Channels -> BOOLEAN]
    <3>1. CASE ClientReceives
      <4>1. CASE Authenticate
        BY <4>1 DEF Authenticate, RInv, Waiting, Resubscribed
      <4>2. CASE \E c : subTimer' = [subTimer EXCEPT ![c] = FALSE]
        BY <4>2 DEF RInv, Waiting
      <4>3. CASE UNCHANGED subTimer
        BY <4>3 DEF RInv, Waiting
      <4>4. QED
        BY <3>1, <4>1, <4>2, <4>3
        DEF ClientReceives, Refused, Acknowledged, ChannelFrame, subVars
    <3>2. CASE SocketOpens \/ ServerRefuses \/ ServerHandles
      BY <3>2 DEF SocketOpens, ServerRefuses, ServerHandles, subVars, RInv, Waiting
    <3>3. QED
      BY <3>1, <3>2
  <2>2. cmd' \in [Commands -> CommandState]
    BY DEF SocketOpens, ServerRefuses, ServerHandles, ClientReceives, Authenticate, Refused,
           Acknowledged, ChannelFrame, RInv, Waiting, CommandState
  <2>3. QED
    BY <1>1, <2>1, <2>2 DEF Waiting, NothingWaits
<1>6. QED
  BY <1>4, <1>5 DEF RInv

LEMMA TimerStepsKeep ==
    ASSUME RInv,
           \/ \E c \in Channels : SubscriptionTimesOut(c)
           \/ \E k \in Commands : CommandTimesOut(k)
           \/ ConnectionTimesOut \/ ReconnectFires
    PROVE  RInv'
<1>1. ASSUME NEW c \in Channels, SubscriptionTimesOut(c) PROVE RInv'
  <2>1. /\ UNCHANGED <<explicit, terminal, seq, auth, tickets, strays, reTimer, conn, sock, cmd>>
        /\ subTimer' = [subTimer EXCEPT ![c] = FALSE]
    BY <1>1 DEF SubscriptionTimesOut, dialVars, linkVars
  <2>2. Waiting'
    BY <2>1 DEF RInv, Waiting, NothingWaits
  <2>3. QED
    BY <2>1, <2>2, LinkKept DEF RInv
<1>2. ASSUME NEW k \in Commands, CommandTimesOut(k) PROVE RInv'
  <2>1. /\ UNCHANGED <<explicit, terminal, seq, auth, tickets, strays, reTimer, conn, sock>>
        /\ UNCHANGED subTimer /\ cmd' = [cmd EXCEPT ![k] = "settled"]
    BY <1>2 DEF CommandTimesOut, dialVars, linkVars, subVars
  <2>2. Waiting'
    BY <2>1 DEF RInv, Waiting, NothingWaits, CommandState
  <2>3. QED
    BY <2>1, <2>2, LinkKept DEF RInv
<1>3. CASE ConnectionTimesOut
  <2>1. /\ UNCHANGED <<conn, explicit, terminal, seq, auth, tickets, strays, reTimer>>
        /\ UNCHANGED <<subTimer, cmd>>
        /\ sock' \in {sock, "closing"} /\ (sock' = "closing" => sock # "none")
    BY <1>3 DEF ConnectionTimesOut, dialVars, subVars, Live
  <2>2. OneTicket' /\ Connected' /\ NeverStranded'
    BY <2>1 DEF RInv, OneTicket, Connected, NeverStranded, Sockets, Live
  <2>3. Waiting'
    BY <2>1 DEF RInv, Waiting, NothingWaits
  <2>4. QED
    BY <2>2, <2>3 DEF RInv
<1>4. CASE ReconnectFires
  <2>1. Connect /\ UNCHANGED <<sock, strays, cmd, subTimer>>
    BY <1>4 DEF ReconnectFires, linkVars, subVars
  <2>2. OneTicket' /\ NeverStranded' /\ Connected'
    BY <2>1, ConnectDials DEF RInv, NeverStranded, Connected
  <2>3. Waiting'
    BY <2>1 DEF RInv, Waiting, NothingWaits
  <2>4. QED
    BY <2>2, <2>3 DEF RInv
<1>5. QED
  BY <1>1, <1>2, <1>3, <1>4

LEMMA RInvStep == RInv /\ [Next]_vars => RInv'
<1> SUFFICES ASSUME RInv, [Next]_vars PROVE RInv'
  OBVIOUS
<1>1. CASE ClosingEnds \/ ConnectionLost
  BY <1>1, ClosedKeeps DEF ClosingEnds, ConnectionLost
<1>2. CASE UNCHANGED vars
  BY <1>2, LinkKept
  DEF vars, dialVars, linkVars, subVars, RInv, Waiting, NothingWaits
<1>3. QED
  BY <1>1, <1>2, AppStepsKeep, TicketStepsKeep, FrameStepsKeep, TimerStepsKeep DEF Next

LEMMA RInvHolds == Spec => []RInv
BY RInvInit, RInvStep, PTL DEF Spec

-----------------------------------------------------------------------------
(* However tickets, losses, disconnect() and connect() cross, #openSocket  *)
(* never replaces a live socket.                                           *)
THEOREM SocketsAreNeverTwo == Spec => []OneLiveSocket
<1>1. RInv => OneLiveSocket
  BY DEF RInv, OneTicket, OneLiveSocket
<1>2. QED
  BY <1>1, RInvHolds, PTL

(* Every handler of a loss leaves a ticket, a socket or a reconnect timer, *)
(* or has been told that the client is done.                               *)
THEOREM AlwaysOnTheWay == Spec => []NeverStranded
<1>1. RInv => NeverStranded
  BY DEF RInv
<1>2. QED
  BY <1>1, RInvHolds, PTL

-----------------------------------------------------------------------------
(* What the wires of an open socket say of the subscriptions.              *)

Named == Channels \cup Commands
UpFrame == {"subscribe", "unsubscribe", "command"} \X Named
DownFrame == {<<"connected">>, <<"fatal">>}
                \cup ({"subscribed", "unsubscribed", "denied", "ack"} \X Named)

Wires ==
    /\ up \in Seq(UpFrame) /\ down \in Seq(DownFrame)
    /\ server \subseteq Named
    /\ sub \in [Channels -> SubState]

(* Frames that end a subscription, asked for or already on their way.      *)
Ender(f, c) == f = <<"unsubscribed", c>> \/ f = <<"denied", c>>
EndAsked(c) == \E k \in 1..Len(up) : up[k] = <<"unsubscribe", c>>
EndComes(c, i) == \E j \in 1..Len(down) : j > i /\ Ender(down[j], c)
Listening(c, i) == c \in server \/ EndAsked(c) \/ EndComes(c, i)

(* What the client takes to be subscribed, and what it will take to be so   *)
(* once it comes to the i-th frame, is listened to or ends after that.      *)
Believed(c) == conn = "authenticated" /\ sub[c] = "subscribed" => Listening(c, 0)
Announced(c) ==
    \A i \in 1..Len(down) : down[i] = <<"subscribed", c>> => Listening(c, i)

WireInv == Wires /\ (sock = "open" => \A c \in Channels : Believed(c) /\ Announced(c))

LEMMA WireInit == Init => WireInv
<1>1. ASSUME Init PROVE Wires
  BY <1>1, EmptySeq DEF Init, Wires, SubState
<1>2. QED
  BY <1>1 DEF Init, WireInv

-----------------------------------------------------------------------------
(* What is sent: the wire to Keryx only grows at its end.                  *)

UpGrows ==
    \/ up' = up
    \/ \E f \in UpFrame : up' = Append(up, f)
    \/ \E s \in Seq(UpFrame) : up' = up \o s

LEMMA UpKept ==
    ASSUME Wires, UpGrows
    PROVE  up' \in Seq(UpFrame) /\ \A c : EndAsked(c) => EndAsked(c)'
<1>1. up \in Seq(UpFrame)
  BY DEF Wires
<1>2. CASE up' = up
  BY <1>1, <1>2 DEF EndAsked
<1>3. ASSUME NEW f \in UpFrame, up' = Append(up, f)
      PROVE  up' \in Seq(UpFrame) /\ \A c : EndAsked(c) => EndAsked(c)'
  <2>1. /\ up' \in Seq(UpFrame) /\ Len(up') = Len(up) + 1 /\ Len(up) \in Nat
        /\ \A i \in 1..Len(up) : up'[i] = up[i]
    BY <1>1, <1>3, AppendProperties, LenProperties
  <2>2. \A i \in 1..Len(up) : i \in 1..Len(up')
    BY <2>1
  <2>3. QED
    BY <2>1, <2>2 DEF EndAsked
<1>4. ASSUME NEW s \in Seq(UpFrame), up' = up \o s
      PROVE  up' \in Seq(UpFrame) /\ \A c : EndAsked(c) => EndAsked(c)'
  <2>1. Len(up) \in Nat /\ Len(s) \in Nat
    BY <1>1, LenProperties
  <2>2. /\ up' \in Seq(UpFrame) /\ Len(up') = Len(up) + Len(s)
        /\ \A i \in 1..Len(up) + Len(s) :
             up'[i] = IF i <= Len(up) THEN up[i] ELSE s[i - Len(up)]
    BY <1>1, <1>4, ConcatProperties
  <2>3. \A i \in 1..Len(up) : i \in 1..Len(up') /\ up'[i] = up[i]
    BY <2>1, <2>2
  <2>4. QED
    BY <2>2, <2>3 DEF EndAsked
<1>5. QED
  BY <1>2, <1>3, <1>4 DEF UpGrows

LEMMA SendGrows ==
    ASSUME NEW f \in UpFrame, Send(f)
    PROVE  UpGrows
BY DEF Send, UpGrows

(* The subscriptions a new connection asks for again, as frames.           *)
LEMMA ResubscribeGrows ==
    ASSUME Authenticate
    PROVE  UpGrows
<1> DEFINE n == Cardinality(Resubscribed)
           e(i) == <<"subscribe", SetToSeq(Resubscribed)[i]>>
<1>1. Resubscribed \in SUBSET Channels
  BY DEF Resubscribed
<1>2. IsFiniteSet(Resubscribed)
  BY <1>1, ChannelsAssumption, FS_Subset
<1>3. n \in Nat /\ ExistsBijection(1..n, Resubscribed)
  BY <1>2, FS_CardinalityType
<1>4. PICK f \in [1..n -> Resubscribed] : IsInjective(f)
  BY <1>3 DEF ExistsBijection, Bijection, Injection
<1>5. SetToSeq(Resubscribed) \in [1..n -> Resubscribed]
  BY <1>4 DEF SetToSeq
<1>6. \A i \in 1..n : e(i) \in UpFrame
  BY <1>1, <1>5 DEF UpFrame, Named
<1>7. [i \in 1..n |-> e(i)] \in Seq(UpFrame)
  <2> HIDE DEF n, e
  <2>1. QED
    BY <1>3, <1>6, IsASeq
<1>8. up' = up \o [i \in 1..n |-> e(i)]
  BY DEF Authenticate
<1>9. QED
  BY <1>7, <1>8 DEF UpGrows

(* A closed socket says nothing.                                           *)
LEMMA SilentKeeps ==
    ASSUME WireInv, sock' # "open", sub' \in [Channels -> SubState],
           \/ up' = <<>> /\ down' = <<>> /\ server' = {}
           \/ UNCHANGED <<up, down, server>>
    PROVE  WireInv'
<1>1. CASE up' = <<>> /\ down' = <<>> /\ server' = {}
  BY <1>1, EmptySeq DEF WireInv, Wires
<1>2. CASE UNCHANGED <<up, down, server>>
  BY <1>2 DEF WireInv, Wires
<1>3. QED
  BY <1>1, <1>2

(* A step that hears nothing and makes no subscription of its own.         *)
LEMMA DeafKeeps ==
    ASSUME WireInv, UpGrows, UNCHANGED <<down, server>>,
           sock' = "open" => sock = "open",
           sub' \in [Channels -> SubState],
           \A c \in Channels : conn' = "authenticated" /\ sub'[c] = "subscribed" =>
                                 conn = "authenticated" /\ sub[c] = "subscribed"
    PROVE  WireInv'
<1>1. Wires /\ up' \in Seq(UpFrame) /\ \A c : EndAsked(c) => EndAsked(c)'
  BY UpKept DEF WireInv
<1>2. Wires'
  BY <1>1 DEF Wires
<1>3. ASSUME NEW c \in Channels, sock' = "open"
      PROVE  Believed(c)' /\ Announced(c)'
  <2>1. Believed(c) /\ Announced(c)
    BY <1>3 DEF WireInv
  <2>2. \A i : Listening(c, i) => Listening(c, i)'
    BY <1>1 DEF Listening, EndComes, Ender
  <2>3. Believed(c)'
    BY <2>1, <2>2 DEF Believed
  <2>4. Announced(c)'
    BY <2>1, <2>2 DEF Announced
  <2>5. QED
    BY <2>3, <2>4
<1>4. QED
  BY <1>2, <1>3 DEF WireInv

LEMMA AppStepsListen ==
    ASSUME RInv, WireInv,
           \/ \E c \in Channels : AppChannel(c) \/ AppLeave(c)
           \/ \E k \in Commands : AppCommand(k)
           \/ AppConnect \/ AppDisconnect
    PROVE  WireInv'
<1>0. sub \in [Channels -> SubState]
  BY DEF WireInv, Wires
<1>1. ASSUME NEW c \in Channels, AppChannel(c) PROVE WireInv'
  <2>1. UNCHANGED <<sock, strays, down, server>>
    BY <1>1 DEF AppChannel
  <2>2. UpGrows
    <3>1. <<"subscribe", c>> \in UpFrame
      BY DEF UpFrame, Named
    <3>2. QED
      BY <1>1, <3>1, SendGrows DEF AppChannel, UpGrows
  <2>3. \/ UNCHANGED <<conn, sub>>
        \/ /\ conn' = "authenticated" => conn = "authenticated"
           /\ \E to \in {"subscribing", "pending"} : sub' = [sub EXCEPT ![c] = to]
    <3>1. CASE sub[c] # "none"
      BY <1>1, <3>1 DEF AppChannel, subVars
    <3>2. CASE sub[c] = "none"
      <4>1. Connect
        BY <1>1, <3>2 DEF AppChannel
      <4>2. conn' = "authenticated" => conn = "authenticated"
        BY <4>1, <2>1, ConnectDials DEF RInv
      <4>3. QED
        BY <1>1, <3>2, <4>2 DEF AppChannel
    <3>3. QED
      BY <3>1, <3>2
  <2>4. /\ sub' \in [Channels -> SubState]
        /\ \A d \in Channels : conn' = "authenticated" /\ sub'[d] = "subscribed" =>
                                 conn = "authenticated" /\ sub[d] = "subscribed"
    BY <1>0, <2>3 DEF SubState
  <2>5. QED
    BY <2>1, <2>2, <2>4, DeafKeeps
<1>2. ASSUME NEW c \in Channels, AppLeave(c) PROVE WireInv'
  <2>1. UNCHANGED <<conn, sock, down, server>>
    BY <1>2 DEF AppLeave
  <2>2. UpGrows
    <3>1. <<"unsubscribe", c>> \in UpFrame
      BY DEF UpFrame, Named
    <3>2. QED
      BY <1>2, <3>1, SendGrows DEF AppLeave, UpGrows
  <2>3. \E to \in {"leaving", "none"} : sub' = [sub EXCEPT ![c] = to]
    BY <1>2 DEF AppLeave
  <2>4. /\ sub' \in [Channels -> SubState]
        /\ \A d \in Channels : sub'[d] = "subscribed" => sub[d] = "subscribed"
    BY <1>0, <2>3 DEF SubState
  <2>5. QED
    BY <2>1, <2>2, <2>4, DeafKeeps
<1>3. ASSUME NEW k \in Commands, AppCommand(k) PROVE WireInv'
  <2>1. UNCHANGED <<conn, sock, down, server, sub>>
    BY <1>3 DEF AppCommand, subVars
  <2>2. UpGrows
    <3>1. <<"command", k>> \in UpFrame
      BY DEF UpFrame, Named
    <3>2. QED
      BY <1>3, <3>1, SendGrows DEF AppCommand, UpGrows
  <2>3. QED
    BY <1>0, <2>1, <2>2, DeafKeeps
<1>4. CASE AppConnect
  <2>1. UNCHANGED <<sock, strays, up, down, server, sub>> /\ Connect
    BY <1>4 DEF AppConnect, linkVars, subVars
  <2>2. conn' = "authenticated" => conn = "authenticated"
    BY <2>1, ConnectDials DEF RInv
  <2>3. QED
    BY <1>0, <2>1, <2>2, DeafKeeps DEF UpGrows
<1>5. CASE AppDisconnect
  <2>1. /\ sock' = "none" /\ up' = <<>> /\ down' = <<>> /\ server' = {}
        /\ sub' = [c \in Channels |-> IF sub[c] = "none" THEN "none" ELSE "pending"]
    BY <1>5 DEF AppDisconnect, DropWires
  <2>2. sub' \in [Channels -> SubState]
    BY <2>1 DEF SubState
  <2>3. QED
    BY <2>1, <2>2, SilentKeeps
<1>6. QED
  BY <1>1, <1>2, <1>3, <1>4, <1>5

(* Tickets, timers and the end of a socket.                                *)
LEMMA OtherStepsListen ==
    ASSUME RInv, WireInv,
           \/ \E q \in tickets : TicketArrives(q) \/ TicketFails(q)
           \/ ClosingEnds \/ ConnectionLost
           \/ \E c \in Channels : SubscriptionTimesOut(c)
           \/ \E k \in Commands : CommandTimesOut(k)
           \/ ConnectionTimesOut \/ ReconnectFires
    PROVE  WireInv'
<1>0. sub \in [Channels -> SubState]
  BY DEF WireInv, Wires
<1>1. ASSUME NEW q \in tickets, TicketArrives(q) \/ TicketFails(q) PROVE WireInv'
  <2>1. UNCHANGED sub
    BY <1>1 DEF TicketArrives, TicketFails, Answered, subVars
  <2>2. CASE UNCHANGED linkVars
    <3>1. conn' = "authenticated" => conn = "authenticated"
      BY <1>1, <2>2
         DEF TicketArrives, TicketFails, ScheduleReconnect, linkVars
    <3>2. QED
      BY <1>0, <2>1, <2>2, <3>1, DeafKeeps DEF linkVars, UpGrows
  <2>3. CASE sock' = "connecting" /\ up' = <<>> /\ down' = <<>> /\ server' = {}
    BY <1>0, <2>1, <2>3, SilentKeeps
  <2>4. QED
    BY <1>1, <2>2, <2>3 DEF TicketArrives, TicketFails
<1>2. ASSUME NEW rejected \in BOOLEAN, Closed(rejected) PROVE WireInv'
  <2>1. /\ sock' = "none" /\ up' = <<>> /\ down' = <<>> /\ server' = {}
        /\ sub' = [c \in Channels |-> IF sub[c] \in {"none", "leaving"} THEN sub[c] ELSE "pending"]
    BY <1>2 DEF Closed, DropWires
  <2>2. sub' \in [Channels -> SubState]
    BY <1>0, <2>1 DEF SubState
  <2>3. QED
    BY <2>1, <2>2, SilentKeeps
<1>3. ASSUME NEW c \in Channels, SubscriptionTimesOut(c) PROVE WireInv'
  <2>1. /\ UNCHANGED <<conn, sock, up, down, server>>
        /\ sub' = [sub EXCEPT ![c] = "failed"]
    BY <1>3 DEF SubscriptionTimesOut, linkVars
  <2>2. /\ sub' \in [Channels -> SubState]
        /\ \A d \in Channels : sub'[d] = "subscribed" => sub[d] = "subscribed"
    BY <1>0, <2>1 DEF SubState
  <2>3. QED
    BY <2>1, <2>2, DeafKeeps DEF UpGrows
<1>4. ASSUME NEW k \in Commands, CommandTimesOut(k) PROVE WireInv'
  BY <1>0, <1>4, DeafKeeps DEF CommandTimesOut, linkVars, subVars, UpGrows
<1>5. CASE ConnectionTimesOut
  <2>1. /\ UNCHANGED <<conn, up, down, server, sub>>
        /\ sock' \in {sock, "closing"}
    BY <1>5 DEF ConnectionTimesOut, subVars
  <2>2. QED
    BY <1>0, <2>1, DeafKeeps DEF UpGrows
<1>6. CASE ReconnectFires
  <2>1. UNCHANGED <<sock, strays, up, down, server, sub>> /\ Connect
    BY <1>6 DEF ReconnectFires, linkVars, subVars
  <2>2. conn' = "authenticated" => conn = "authenticated"
    BY <2>1, ConnectDials DEF RInv
  <2>3. QED
    BY <1>0, <2>1, <2>2, DeafKeeps DEF UpGrows
<1>7. QED
  BY <1>1, <1>2, <1>3, <1>4, <1>5, <1>6 DEF ClosingEnds, ConnectionLost

-----------------------------------------------------------------------------
(* What is heard.                                                          *)

LEMMA DownGrows ==
    ASSUME Wires, NEW f \in DownFrame, down' = Append(down, f)
    PROVE  /\ down' \in Seq(DownFrame) /\ Len(down) \in Nat /\ Len(down') = Len(down) + 1
           /\ \A i \in 1..Len(down) : i \in 1..Len(down') /\ down'[i] = down[i]
           /\ Len(down) + 1 \in 1..Len(down') /\ down'[Len(down) + 1] = f
           /\ \A i \in 1..Len(down') : i \in 1..Len(down) \/ i = Len(down) + 1
<1>1. down \in Seq(DownFrame)
  BY DEF Wires
<1>2. /\ down' \in Seq(DownFrame) /\ Len(down) \in Nat /\ Len(down') = Len(down) + 1
      /\ \A i \in 1..Len(down) : down'[i] = down[i]
      /\ down'[Len(down) + 1] = f
  BY <1>1, AppendProperties, LenProperties
<1>3. QED
  BY <1>2

LEMMA RefusalListens ==
    ASSUME WireInv, ServerRefuses
    PROVE  WireInv'
<1>1. /\ UNCHANGED <<conn, sock, up, server, sub>>
      /\ down' = Append(down, <<"fatal">>) /\ Wires /\ <<"fatal">> \in DownFrame
  BY DEF ServerRefuses, subVars, WireInv, DownFrame
<1>2. /\ down' \in Seq(DownFrame) /\ Len(down) \in Nat
      /\ \A i \in 1..Len(down) : i \in 1..Len(down') /\ down'[i] = down[i]
      /\ down'[Len(down) + 1] = <<"fatal">>
      /\ \A i \in 1..Len(down') : i \in 1..Len(down) \/ i = Len(down) + 1
  BY <1>1, DownGrows
<1>3. Wires'
  BY <1>1, <1>2 DEF Wires
<1>4. ASSUME NEW c \in Channels, sock' = "open"
      PROVE  Believed(c)' /\ Announced(c)'
  <2>1. Believed(c) /\ Announced(c)
    BY <1>1, <1>4 DEF WireInv
  <2>2. \A i : Listening(c, i) => Listening(c, i)'
    BY <1>1, <1>2 DEF Listening, EndAsked, EndComes, Ender
  <2>3. Believed(c)'
    BY <1>1, <2>1, <2>2 DEF Believed
  <2>4. <<"fatal">> # <<"subscribed", c>>
    OBVIOUS
  <2>5. Announced(c)'
    BY <1>2, <2>1, <2>2, <2>4 DEF Announced
  <2>6. QED
    BY <2>3, <2>5
<1>5. QED
  BY <1>3, <1>4 DEF WireInv

LEMMA OpeningListens ==
    ASSUME WireInv, SocketOpens
    PROVE  WireInv'
<1>1. /\ UNCHANGED <<up, server, sub>> /\ down' = <<<<"connected">>>>
      /\ conn' = "transport-open"
  BY DEF SocketOpens, subVars
<1>2. down' \in Seq(DownFrame) /\ Len(down') = 1 /\ down'[1] = <<"connected">>
  BY <1>1 DEF DownFrame
<1>3. \A c : <<"connected">> # <<"subscribed", c>>
  OBVIOUS
<1>4. \A c : Announced(c)'
  BY <1>2, <1>3 DEF Announced
<1>5. QED
  BY <1>1, <1>2, <1>4 DEF WireInv, Wires, Believed

(* Keryx takes a frame up; if it ends a subscription, its answer says so.  *)
LEMMA HandlingListens ==
    ASSUME WireInv, ServerHandles
    PROVE  WireInv'
<1> DEFINE kind == Head(up)[1]
           x == Head(up)[2]
<1>1. /\ Wires /\ up \in Seq(UpFrame) /\ up # <<>> /\ sock = "open" /\ sock' = "open"
      /\ up' = Tail(up) /\ UNCHANGED <<conn, sub>>
  BY DEF ServerHandles, WireInv, Wires, subVars
<1>2. /\ Head(up) = up[1] /\ Len(up) \in Nat /\ 1 \in 1..Len(up) /\ up[1] = <<kind, x>>
      /\ up[1] \in UpFrame
      /\ up' \in Seq(UpFrame)
      /\ \A k \in 1..Len(up) : k = 1 \/ (k - 1 \in 1..Len(up') /\ up'[k - 1] = up[k])
  <2>1. /\ Head(up) \in UpFrame /\ Tail(up) \in Seq(UpFrame) /\ Len(Tail(up)) = Len(up) - 1
        /\ \A i \in 1..Len(Tail(up)) : Tail(up)[i] = up[i + 1]
    BY <1>1, HeadTailProperties
  <2>2. Len(up) \in Nat \ {0}
    BY <1>1, EmptySeq
  <2>3. Head(up) = up[1]
    BY <1>1
  <2>4. Head(up) = <<kind, x>>
    BY <2>1 DEF UpFrame
  <2>5. \A k \in 1..Len(up) : k = 1 \/ (k - 1 \in 1..Len(up') /\ up'[k - 1] = up[k])
    <3> SUFFICES ASSUME NEW k \in 1..Len(up), k # 1
                 PROVE  k - 1 \in 1..Len(up') /\ up'[k - 1] = up[k]
      OBVIOUS
    <3>1. k - 1 \in 1..Len(Tail(up)) /\ (k - 1) + 1 = k
      BY <2>1, <2>2
    <3>2. QED
      BY <1>1, <2>1, <3>1
  <2>6. QED
    BY <1>1, <2>1, <2>2, <2>3, <2>4, <2>5
<1>3. kind \in {"subscribe", "unsubscribe", "command"} /\ x \in Named
  BY <1>2 DEF UpFrame
<1>4. PICK type \in {"subscribed", "unsubscribed", "denied", "ack"} :
        /\ down' = Append(down, <<type, x>>)
        /\ server' \in {server, server \cup {x}, server \ {x}}
        /\ x \notin server' /\ x \in server =>
             kind = "unsubscribe" /\ type \in {"unsubscribed", "denied"}
        /\ kind = "unsubscribe" => type \in {"unsubscribed", "denied"}
        /\ type = "subscribed" => x \in server'
  BY <1>3 DEF ServerHandles
<1>5. <<type, x>> \in DownFrame
  BY <1>3 DEF DownFrame
<1>6. /\ down' \in Seq(DownFrame) /\ Len(down) \in Nat
      /\ \A i \in 1..Len(down) : i \in 1..Len(down') /\ down'[i] = down[i]
      /\ Len(down) + 1 \in 1..Len(down') /\ down'[Len(down) + 1] = <<type, x>>
      /\ \A i \in 1..Len(down') : i \in 1..Len(down) \/ i = Len(down) + 1
  BY <1>1, <1>4, <1>5, DownGrows
<1>7. Wires'
  BY <1>1, <1>2, <1>3, <1>4, <1>6 DEF Wires
<1>8. ASSUME NEW c \in Channels PROVE Believed(c)' /\ Announced(c)'
  <2>1. Believed(c) /\ Announced(c)
    BY <1>1 DEF WireInv
  <2>2. ASSUME NEW i \in 0..Len(down), Listening(c, i) PROVE Listening(c, i)'
    <3>1. ASSUME kind = "unsubscribe", x = c PROVE Listening(c, i)'
      <4>1. Ender(<<type, x>>, c)
        BY <1>4, <3>1 DEF Ender
      <4>2. Len(down) + 1 > i
        BY <1>6
      <4>3. QED
        BY <4>1, <4>2, <1>6 DEF Listening, EndComes
    <3>2. CASE c \in server
      BY <3>1, <3>2, <1>4 DEF Listening
    <3>3. CASE EndAsked(c)
      <4>1. PICK k \in 1..Len(up) : up[k] = <<"unsubscribe", c>>
        BY <3>3 DEF EndAsked
      <4>2. CASE k = 1
        BY <4>1, <4>2, <3>1, <1>2
      <4>3. CASE k # 1
        BY <4>1, <4>3, <1>2 DEF Listening, EndAsked
      <4>4. QED
        BY <4>2, <4>3
    <3>4. CASE EndComes(c, i)
      BY <3>4, <1>6 DEF Listening, EndComes
    <3>5. QED
      BY <2>2, <3>2, <3>3, <3>4 DEF Listening
  <2>3. Believed(c)'
    <3>1. 0 \in 0..Len(down)
      BY <1>6
    <3>2. QED
      BY <1>1, <2>1, <2>2, <3>1 DEF Believed
  <2>4. ASSUME NEW i \in 1..Len(down'), down'[i] = <<"subscribed", c>>
        PROVE  Listening(c, i)'
    <3>1. CASE i \in 1..Len(down)
      <4>1. Listening(c, i) /\ i \in 0..Len(down)
        BY <3>1, <2>1, <2>4, <1>6 DEF Announced
      <4>2. QED
        BY <4>1, <2>2
    <3>2. CASE i = Len(down) + 1
      BY <3>2, <2>4, <1>4, <1>6 DEF Listening
    <3>3. QED
      BY <3>1, <3>2, <1>6
  <2>5. QED
    BY <2>3, <2>4 DEF Announced
<1>9. QED
  BY <1>7, <1>8 DEF WireInv

(* The client comes to a frame: what it says of a channel was announced.   *)
LEMMA ReceivingListens ==
    ASSUME WireInv, ClientReceives
    PROVE  WireInv'
<1> DEFINE kind == Head(down)[1]
           x == Head(down)[2]
<1>1. /\ Wires /\ down \in Seq(DownFrame) /\ down # <<>> /\ sock = "open"
      /\ down' = Tail(down) /\ UNCHANGED server
      /\ sub \in [Channels -> SubState]
  BY DEF ClientReceives, WireInv, Wires
<1>2. /\ Head(down) = down[1] /\ Len(down) \in Nat \ {0} /\ down[1] \in DownFrame
      /\ down' \in Seq(DownFrame) /\ Len(down') = Len(down) - 1
      /\ \A i \in 1..Len(down') : down'[i] = down[i + 1] /\ i + 1 \in 1..Len(down)
  <2>1. /\ Head(down) \in DownFrame /\ Tail(down) \in Seq(DownFrame)
        /\ Len(Tail(down)) = Len(down) - 1
        /\ \A i \in 1..Len(Tail(down)) : Tail(down)[i] = down[i + 1]
    BY <1>1, HeadTailProperties
  <2>2. Len(down) \in Nat \ {0}
    BY <1>1, EmptySeq
  <2>3. Head(down) = down[1]
    BY <1>1
  <2>4. QED
    BY <1>1, <2>1, <2>2, <2>3
<1>3. \/ Authenticate
      \/ Refused
      \/ kind = "ack" /\ Acknowledged(x)
      \/ kind \in {"subscribed", "unsubscribed", "denied"} /\ ChannelFrame(kind, x)
  BY DEF ClientReceives
<1>4. ASSUME kind \in {"ack", "subscribed", "unsubscribed", "denied"}
      PROVE  down[1] = <<kind, x>>
  BY <1>2, <1>4 DEF DownFrame
<1>5. UpGrows
  BY <1>3, ResubscribeGrows DEF Refused, Acknowledged, ChannelFrame, UpGrows
<1>6. up' \in Seq(UpFrame) /\ \A c : EndAsked(c) => EndAsked(c)'
  BY <1>1, <1>5, UpKept
<1>7. sub' \in [Channels -> SubState]
  BY <1>1, <1>3 DEF Authenticate, Refused, Acknowledged, ChannelFrame, subVars, SubState
<1>8. Wires'
  BY <1>1, <1>2, <1>6, <1>7 DEF Wires
<1>9. ASSUME NEW c \in Channels, sock' = "open" PROVE Believed(c)' /\ Announced(c)'
  <2>1. Believed(c) /\ Announced(c)
    BY <1>1 DEF WireInv
  <2>2. ASSUME NEW i \in 0..Len(down), Listening(c, i + 1) PROVE Listening(c, i)'
    <3>1. CASE c \in server
      BY <3>1, <1>1 DEF Listening
    <3>2. CASE EndAsked(c)
      BY <3>2, <1>6 DEF Listening
    <3>3. CASE EndComes(c, i + 1)
      <4>1. PICK j \in 1..Len(down) : j > i + 1 /\ Ender(down[j], c)
        BY <3>3 DEF EndComes
      <4>2. j - 1 \in 1..Len(down') /\ j - 1 > i /\ (j - 1) + 1 = j
        BY <4>1, <1>2
      <4>3. down'[j - 1] = down[j]
        BY <4>2, <1>2
      <4>4. EndComes(c, i)'
        BY <4>1, <4>2, <4>3 DEF EndComes, Ender
      <4>5. QED
        BY <4>4 DEF Listening
    <3>4. QED
      BY <2>2, <3>1, <3>2, <3>3 DEF Listening
  <2>3. Announced(c)'
    <3> SUFFICES ASSUME NEW i \in 1..Len(down'), down'[i] = <<"subscribed", c>>
                 PROVE  Listening(c, i)'
      BY DEF Announced
    <3>1. Listening(c, i + 1) /\ i \in 0..Len(down)
      BY <2>1, <1>2 DEF Announced
    <3>2. QED
      BY <3>1, <2>2
  <2>4. ASSUME Listening(c, 0), ~Ender(down[1], c) PROVE Listening(c, 0)'
    <3>1. EndComes(c, 0) => EndComes(c, 0 + 1)
      <4> SUFFICES ASSUME NEW j \in 1..Len(down), j > 0, Ender(down[j], c)
                   PROVE  EndComes(c, 0 + 1)
        BY DEF EndComes
      <4>1. j # 1
        BY <2>4
      <4>2. QED
        BY <4>1, <1>2 DEF EndComes
    <3>2. Listening(c, 0 + 1) /\ 0 \in 0..Len(down)
      BY <2>4, <3>1, <1>2 DEF Listening
    <3>3. QED
      BY <2>2, <3>2
  <2>5. Believed(c)'
    <3> SUFFICES ASSUME conn' = "authenticated", sub'[c] = "subscribed"
                 PROVE  Listening(c, 0)'
      BY DEF Believed
    <3>1. ~Authenticate
      BY DEF Authenticate, Resubscribed
    <3>2. ~Refused
      BY <1>9 DEF Refused
    <3>3. CASE kind = "ack" /\ Acknowledged(x)
      <4>1. Listening(c, 0)
        BY <3>3, <2>1 DEF Acknowledged, Believed, subVars
      <4>2. ~Ender(down[1], c)
        BY <3>3, <1>4 DEF Ender
      <4>3. QED
        BY <4>1, <4>2, <2>4
    <3>4. CASE kind \in {"subscribed", "unsubscribed", "denied"} /\ ChannelFrame(kind, x)
      <4>1. UNCHANGED conn /\ down[1] = <<kind, x>>
        BY <3>4, <1>4 DEF ChannelFrame
      <4>2. CASE x = c
        <5>1. kind = "subscribed"
          BY <3>4, <4>2, <1>1 DEF ChannelFrame
        <5>2. Listening(c, 0 + 1) /\ 0 \in 0..Len(down)
          BY <4>1, <4>2, <5>1, <1>2, <2>1 DEF Announced
        <5>3. QED
          BY <5>2, <2>2
      <4>3. CASE x # c
        <5>1. sub[c] = "subscribed"
          BY <3>4, <4>3, <1>1 DEF ChannelFrame
        <5>2. ~Ender(down[1], c)
          BY <4>1, <4>3 DEF Ender
        <5>3. QED
          BY <4>1, <5>1, <5>2, <2>1, <2>4 DEF Believed
      <4>4. QED
        BY <4>2, <4>3
    <3>5. QED
      BY <1>3, <3>1, <3>2, <3>3, <3>4
  <2>6. QED
    BY <2>3, <2>5
<1>10. QED
  BY <1>8, <1>9 DEF WireInv

LEMMA WireStep == RInv /\ WireInv /\ [Next]_vars => WireInv'
<1> SUFFICES ASSUME RInv, WireInv, [Next]_vars PROVE WireInv'
  OBVIOUS
<1>1. CASE UNCHANGED vars
  BY <1>1, DeafKeeps DEF vars, linkVars, subVars, UpGrows, WireInv, Wires
<1>2. QED
  BY <1>1, AppStepsListen, OtherStepsListen, RefusalListens, OpeningListens, HandlingListens,
     ReceivingListens
     DEF Next

(* A subscription the client shows on an authenticated socket is one Keryx  *)
(* holds, or its end is on the way on one of the wires, however frames,     *)
(* leave(), channel(), deadlines and reconnections interleave.              *)
THEOREM ShownIsListenedTo == Spec => []SubscribedMeansListening
<1>1. RInv /\ WireInv => SubscribedMeansListening
  <2> SUFFICES ASSUME WireInv, NEW c \in Channels, conn = "authenticated", sock = "open",
                      sub[c] = "subscribed"
               PROVE  \/ c \in server
                      \/ <<"unsubscribe", c>> \in Range(up)
                      \/ <<"unsubscribed", c>> \in Range(down)
                      \/ <<"denied", c>> \in Range(down)
    BY DEF SubscribedMeansListening
  <2>1. DOMAIN up = 1..Len(up) /\ DOMAIN down = 1..Len(down)
    BY LenProperties DEF WireInv, Wires
  <2>2. Listening(c, 0)
    BY DEF WireInv, Believed
  <2>3. QED
    BY <2>1, <2>2 DEF Listening, EndAsked, EndComes, Ender, Range
<1>2. QED
  BY <1>1, WireInit, RInvInit, RInvStep, WireStep, PTL DEF Spec

-----------------------------------------------------------------------------
(* What settles the promise of a pending command.                          *)

AskedFor(k) == \E i \in 1..Len(up) : up[i] = <<"command", k>>
AckComes(k) == \E j \in 1..Len(down) : down[j] = <<"ack", k>>
Awaited(k) ==
    cmd[k] = "pending" =>
        sock \in {"closing", "rejecting"} \/ (sock = "open" /\ (AskedFor(k) \/ AckComes(k)))

PromiseInv == \A k \in Commands : Awaited(k)

(* No new promise, and nothing taken off the wires but by an answer.       *)
LEMMA PromisesKept ==
    ASSUME PromiseInv, sock' = sock \/ sock' \in {"closing", "rejecting"},
           \A k \in Commands : cmd'[k] = "pending" =>
               /\ cmd[k] = "pending"
               /\ AskedFor(k) => AskedFor(k)' \/ AckComes(k)'
               /\ AckComes(k) => AckComes(k)'
    PROVE  PromiseInv'
BY DEF PromiseInv, Awaited

(* What is sent stays sent.                                                *)
LEMMA AskedForKept ==
    ASSUME Wires, UpGrows
    PROVE  \A k : AskedFor(k) => AskedFor(k)'
<1>1. up \in Seq(UpFrame)
  BY DEF Wires
<1>2. CASE up' = up
  BY <1>2 DEF AskedFor
<1>3. ASSUME NEW f \in UpFrame, up' = Append(up, f)
      PROVE  \A i \in 1..Len(up) : i \in 1..Len(up') /\ up'[i] = up[i]
  <2>1. /\ Len(up') = Len(up) + 1 /\ Len(up) \in Nat
        /\ \A i \in 1..Len(up) : up'[i] = up[i]
    BY <1>1, <1>3, AppendProperties, LenProperties
  <2>2. QED
    BY <2>1
<1>4. ASSUME NEW s \in Seq(UpFrame), up' = up \o s
      PROVE  \A i \in 1..Len(up) : i \in 1..Len(up') /\ up'[i] = up[i]
  <2>1. Len(up) \in Nat /\ Len(s) \in Nat
    BY <1>1, <1>4, LenProperties
  <2>2. /\ Len(up') = Len(up) + Len(s)
        /\ \A i \in 1..Len(up) + Len(s) :
             up'[i] = IF i <= Len(up) THEN up[i] ELSE s[i - Len(up)]
    BY <1>1, <1>4, ConcatProperties
  <2>3. QED
    BY <2>1, <2>2
<1>5. QED
  BY <1>2, <1>3, <1>4 DEF UpGrows, AskedFor

(* Calls, timers and tickets: nothing is heard.                            *)
LEMMA SendersPromise ==
    ASSUME RInv, WireInv, PromiseInv,
           \/ \E c \in Channels : AppChannel(c) \/ AppLeave(c) \/ SubscriptionTimesOut(c)
           \/ \E k \in Commands : CommandTimesOut(k)
           \/ AppConnect \/ ConnectionTimesOut \/ ReconnectFires
    PROVE  PromiseInv'
<1>1. UpGrows
  <2>1. \A c \in Channels : <<"subscribe", c>> \in UpFrame /\ <<"unsubscribe", c>> \in UpFrame
    BY DEF UpFrame, Named
  <2>2. ASSUME NEW c \in Channels, AppChannel(c) \/ AppLeave(c) PROVE UpGrows
    BY <2>1, <2>2, SendGrows DEF AppChannel, AppLeave, UpGrows
  <2>3. QED
    BY <2>2 DEF SubscriptionTimesOut, CommandTimesOut, AppConnect, ConnectionTimesOut,
                ReconnectFires, linkVars, UpGrows
<1>2. /\ down' = down
      /\ sock' = sock \/ sock' = "closing"
  BY DEF AppChannel, AppLeave, SubscriptionTimesOut, CommandTimesOut, AppConnect,
         ConnectionTimesOut, ReconnectFires, linkVars
<1>3. \A k \in Commands : cmd'[k] = "pending" => cmd[k] = "pending"
  BY DEF AppChannel, AppLeave, SubscriptionTimesOut, CommandTimesOut, AppConnect,
         ConnectionTimesOut, ReconnectFires, RInv, Waiting
<1>4. QED
  BY <1>1, <1>2, <1>3, AskedForKept, PromisesKept DEF WireInv, AckComes

LEMMA CommandPromises ==
    ASSUME RInv, WireInv, PromiseInv, NEW k \in Commands, AppCommand(k)
    PROVE  PromiseInv'
<1>1. /\ UNCHANGED <<conn, sock, down>>
      /\ \/ /\ conn = "authenticated" /\ cmd' = [cmd EXCEPT ![k] = "pending"]
            /\ Send(<<"command", k>>)
         \/ cmd' = [cmd EXCEPT ![k] = "settled"] /\ up' = up
  BY DEF AppCommand
<1>2. <<"command", k>> \in UpFrame /\ Wires
  BY DEF UpFrame, Named, WireInv
<1>3. UpGrows
  BY <1>1, <1>2, SendGrows DEF UpGrows
<1>4. ASSUME NEW l \in Commands, cmd'[l] = "pending", l # k
      PROVE  Awaited(l)'
  <2>1. cmd[l] = "pending"
    BY <1>1, <1>4 DEF RInv, Waiting
  <2>2. QED
    BY <1>1, <1>2, <1>3, <2>1, AskedForKept DEF PromiseInv, Awaited, AckComes
<1>5. ASSUME cmd'[k] = "pending" PROVE Awaited(k)'
  <2>1. conn = "authenticated" /\ Send(<<"command", k>>)
    BY <1>1, <1>5 DEF RInv, Waiting
  <2>2. sock \in {"open", "closing", "rejecting"}
    BY <2>1 DEF RInv, Connected, Sockets, Live
  <2>3. CASE sock = "open"
    <3>1. up' = Append(up, <<"command", k>>) /\ up \in Seq(UpFrame)
      BY <1>2, <2>1, <2>3 DEF Send, Wires
    <3>2. Len(up) \in Nat /\ Len(up') = Len(up) + 1 /\ up'[Len(up) + 1] = <<"command", k>>
      BY <1>2, <3>1, AppendProperties, LenProperties
    <3>3. Len(up) + 1 \in 1..Len(up')
      BY <3>2
    <3>4. QED
      BY <1>1, <2>3, <3>2, <3>3 DEF Awaited, AskedFor
  <2>4. QED
    BY <1>1, <2>2, <2>3 DEF Awaited
<1>6. QED
  BY <1>4, <1>5 DEF PromiseInv, Awaited

(* A ticket strands the commands of a socket it replaces; the loss of a    *)
(* socket settles them.                                                    *)
LEMMA SocketsEndPromises ==
    ASSUME RInv, WireInv, PromiseInv,
           \/ \E q \in tickets : TicketArrives(q) \/ TicketFails(q)
           \/ ClosingEnds \/ ConnectionLost \/ AppDisconnect
    PROVE  PromiseInv'
<1>1. CASE UNCHANGED <<linkVars, cmd>>
  BY <1>1, PromisesKept DEF linkVars, AskedFor, AckComes
<1>2. CASE StrandCommands \/ SettleCommands
  BY <1>2 DEF StrandCommands, SettleCommands, PromiseInv, Awaited
<1>3. QED
  BY <1>1, <1>2
     DEF TicketArrives, TicketFails, ClosingEnds, ConnectionLost, Closed, AppDisconnect

LEMMA OpeningPromises ==
    ASSUME RInv, WireInv, PromiseInv, SocketOpens \/ ServerRefuses
    PROVE  PromiseInv'
<1>1. CASE SocketOpens
  <2>1. sock = "connecting" /\ cmd' = cmd
    BY <1>1 DEF SocketOpens
  <2>2. QED
    BY <2>1 DEF PromiseInv, Awaited
<1>2. CASE ServerRefuses
  <2>1. /\ UNCHANGED <<sock, up, cmd>> /\ down' = Append(down, <<"fatal">>)
        /\ Wires /\ <<"fatal">> \in DownFrame
    BY <1>2 DEF ServerRefuses, WireInv, DownFrame
  <2>2. \A i \in 1..Len(down) : i \in 1..Len(down') /\ down'[i] = down[i]
    BY <2>1, DownGrows
  <2>3. QED
    BY <2>1, <2>2, PromisesKept DEF AskedFor, AckComes
<1>3. QED
  BY <1>1, <1>2

(* The frame Keryx takes up is replaced by its answer.                     *)
LEMMA HandlingPromises ==
    ASSUME WireInv, PromiseInv, ServerHandles
    PROVE  PromiseInv'
<1> DEFINE kind == Head(up)[1]
           x == Head(up)[2]
<1>1. /\ Wires /\ up \in Seq(UpFrame) /\ up # <<>> /\ up' = Tail(up) /\ UNCHANGED <<sock, cmd>>
  BY DEF ServerHandles, WireInv, Wires
<1>2. /\ up[1] = <<kind, x>> /\ <<kind, x>> \in UpFrame
      /\ \A i \in 1..Len(up) : i = 1 \/ (i - 1 \in 1..Len(up') /\ up'[i - 1] = up[i])
  <2>1. /\ Head(up) \in UpFrame /\ Len(Tail(up)) = Len(up) - 1
        /\ \A i \in 1..Len(Tail(up)) : Tail(up)[i] = up[i + 1]
    BY <1>1, HeadTailProperties
  <2>2. Len(up) \in Nat \ {0}
    BY <1>1, EmptySeq
  <2>3. Head(up) = up[1] /\ Head(up) = <<kind, x>>
    BY <1>1, <2>1 DEF UpFrame
  <2>4. ASSUME NEW i \in 1..Len(up), i # 1
        PROVE  i - 1 \in 1..Len(up') /\ up'[i - 1] = up[i]
    <3>1. i - 1 \in 1..Len(Tail(up)) /\ (i - 1) + 1 = i
      BY <2>1, <2>2, <2>4
    <3>2. QED
      BY <1>1, <2>1, <3>1
  <2>5. QED
    BY <2>1, <2>3, <2>4
<1>3. kind \in {"subscribe", "unsubscribe", "command"} /\ x \in Named
  BY <1>2 DEF UpFrame
<1>4. PICK type \in {"subscribed", "unsubscribed", "denied", "ack"} :
        down' = Append(down, <<type, x>>) /\ (kind = "command" => type = "ack")
  BY <1>3 DEF ServerHandles
<1>5. <<type, x>> \in DownFrame
  BY <1>3 DEF DownFrame
<1>6. /\ \A i \in 1..Len(down) : i \in 1..Len(down') /\ down'[i] = down[i]
      /\ Len(down) + 1 \in 1..Len(down') /\ down'[Len(down) + 1] = <<type, x>>
  BY <1>1, <1>4, <1>5, DownGrows
<1>7. ASSUME NEW k \in Commands, AskedFor(k) PROVE AskedFor(k)' \/ AckComes(k)'
  <2>1. PICK i \in 1..Len(up) : up[i] = <<"command", k>>
    BY <1>7 DEF AskedFor
  <2>2. CASE i = 1
    <3>1. kind = "command" /\ x = k
      BY <2>1, <2>2, <1>2
    <3>2. QED
      BY <3>1, <1>4, <1>6 DEF AckComes
  <2>3. CASE i # 1
    BY <2>1, <2>3, <1>2 DEF AskedFor
  <2>4. QED
    BY <2>2, <2>3
<1>8. \A k : AckComes(k) => AckComes(k)'
  BY <1>6 DEF AckComes
<1>9. QED
  BY <1>1, <1>7, <1>8, PromisesKept

(* An acknowledgement leaves the wire when its command is settled.         *)
LEMMA ReceivingPromises ==
    ASSUME RInv, WireInv, PromiseInv, ClientReceives
    PROVE  PromiseInv'
<1> DEFINE kind == Head(down)[1]
           x == Head(down)[2]
<1>1. /\ Wires /\ down \in Seq(DownFrame) /\ down # <<>> /\ down' = Tail(down)
  BY DEF ClientReceives, WireInv, Wires
<1>2. /\ Head(down) = down[1] /\ down[1] \in DownFrame
      /\ \A j \in 1..Len(down) : j = 1 \/ (j - 1 \in 1..Len(down') /\ down'[j - 1] = down[j])
  <2>1. /\ Head(down) \in DownFrame /\ Len(Tail(down)) = Len(down) - 1
        /\ \A i \in 1..Len(Tail(down)) : Tail(down)[i] = down[i + 1]
    BY <1>1, HeadTailProperties
  <2>2. Len(down) \in Nat \ {0}
    BY <1>1, EmptySeq
  <2>3. ASSUME NEW j \in 1..Len(down), j # 1
        PROVE  j - 1 \in 1..Len(down') /\ down'[j - 1] = down[j]
    <3>1. j - 1 \in 1..Len(Tail(down)) /\ (j - 1) + 1 = j
      BY <2>1, <2>2, <2>3
    <3>2. QED
      BY <1>1, <2>1, <3>1
  <2>4. QED
    BY <1>1, <2>1, <2>3
<1>3. \/ kind # "ack" /\ UNCHANGED cmd
      \/ kind = "ack" /\ cmd' = [cmd EXCEPT ![x] = "settled"]
  BY DEF ClientReceives, Authenticate, Refused, Acknowledged, ChannelFrame
<1>4. UpGrows /\ (sock' = sock \/ sock' = "rejecting")
  BY ResubscribeGrows
     DEF ClientReceives, Authenticate, Refused, Acknowledged, ChannelFrame, UpGrows
<1>5. ASSUME NEW k \in Commands, cmd'[k] = "pending"
      PROVE  cmd[k] = "pending" /\ (AckComes(k) => AckComes(k)')
  <2>1. cmd[k] = "pending" /\ down[1] # <<"ack", k>>
    BY <1>2, <1>3, <1>5 DEF RInv, Waiting
  <2>2. QED
    BY <1>2, <2>1 DEF AckComes
<1>6. QED
  BY <1>1, <1>4, <1>5, AskedForKept, PromisesKept

LEMMA PromiseStep == RInv /\ WireInv /\ PromiseInv /\ [Next]_vars => PromiseInv'
<1> SUFFICES ASSUME RInv, WireInv, PromiseInv, [Next]_vars PROVE PromiseInv'
  OBVIOUS
<1>1. CASE UNCHANGED vars
  BY <1>1, PromisesKept DEF vars, linkVars, AskedFor, AckComes
<1>2. QED
  BY <1>1, SendersPromise, CommandPromises, SocketsEndPromises, OpeningPromises,
     HandlingPromises, ReceivingPromises
     DEF Next

(* As long as a command is pending on the client's socket, its frame or its *)
(* answer is on a wire, or onclose is to come; and close and disconnect()   *)
(* leave neither a command nor a subscription deadline without a socket.    *)
THEOREM PromisesAreKept == Spec => []NoPromiseIsLost
<1>1. Init => PromiseInv
  BY DEF Init, PromiseInv, Awaited
<1>2. RInv /\ WireInv /\ PromiseInv => NoPromiseIsLost
  <2> SUFFICES ASSUME RInv, WireInv, PromiseInv PROVE NoPromiseIsLost
    OBVIOUS
  <2>1. DOMAIN up = 1..Len(up) /\ DOMAIN down = 1..Len(down)
    BY LenProperties DEF WireInv, Wires
  <2>2. ASSUME NEW k \in Commands
        PROVE  /\ AskedFor(k) => <<"command", k>> \in Range(up)
               /\ AckComes(k) => <<"ack", k>> \in Range(down)
    BY <2>1 DEF AskedFor, AckComes, Range
  <2>3. sock = "none" =>
          (\A k \in Commands : cmd[k] # "stranded") /\ (\A c \in Channels : ~subTimer[c])
    BY DEF RInv, Waiting, NothingWaits
  <2>4. QED
    BY <2>2, <2>3 DEF NoPromiseIsLost, PromiseInv, Awaited
<1>3. QED
  BY <1>1, <1>2, RInvInit, RInvStep, WireInit, WireStep, PromiseStep, PTL DEF Spec

=============================================================================
