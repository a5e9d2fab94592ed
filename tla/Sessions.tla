------------------------------- MODULE Sessions -------------------------------
(***************************************************************************)
(* One browser session of auth-postgres: its row in doxa_auth_sessions,    *)
(* the browser that holds its cookie, and the requests that are resolved   *)
(* with it concurrently (resolveHttp) before their routes run: renewal     *)
(* with a grace for the former token, impersonation of another identity    *)
(* and its end, logout.                                                    *)
(*                                                                         *)
(* A request reads the row, judges what it read and updates the row in     *)
(* separate statements; each UPDATE is one step with the condition of its  *)
(* WHERE.  Tokens and grants are numbered as they are made.                *)
(***************************************************************************)
EXTENDS Integers

CONSTANTS
    Requests,    \* requests of the browser: 1..n, sent in that order
    Operations,  \* what their routes do
    Idle, Absolute, Renewal, Grace, Impersonation,  \* the configured times
    MaxTime      \* bound on time

ASSUME RequestsAssumption == Requests \subseteq Nat \ {0}
ASSUME OperationsAssumption ==
    Operations \subseteq {"view", "socket", "start", "stop", "logout"}
ASSUME TimesAssumption ==
    /\ {Idle, Absolute, Renewal, Impersonation, MaxTime} \subseteq Nat \ {0}
    /\ Grace \in Nat

VARIABLES
    now,
    row,         \* the session
    eligible,    \* the target of impersonations is there and eligible
    jar,         \* the token in the browser
    sent,        \* requests sent so far
    request,     \* what each request is doing and has read
    made,        \* tokens made so far
    grants,      \* grants made so far
    disturbed    \* ghost: a response was lost, or overwrote a later cookie

counters == <<sent, made, grants>>
vars == <<now, row, eligible, jar, request, counters, disturbed>>

None == 0
Expired == -1   \* the cookie that removes the cookie

Least(a, b) == IF a < b THEN a ELSE b

Nothing == [pc |-> "unsent", op |-> "view", cookie |-> None, at |-> 0, saw |-> None,
            seen |-> 0, grant |-> None, until |-> 0, reply |-> None]

(* The row that login wrote at time 0.                                      *)
Init ==
    /\ now = 0
    /\ row = [token |-> 1, prev |-> None, prevUntil |-> 0, seen |-> 0,
              idleUntil |-> Idle, revoked |-> FALSE, grant |-> None, until |-> 0]
    /\ eligible = TRUE
    /\ jar = 1
    /\ sent = 0 /\ made = 1 /\ grants = 0
    /\ request = [r \in Requests |-> Nothing]
    /\ disturbed = FALSE

TypeOK ==
    /\ now \in 0..MaxTime
    /\ row.token \in 1..made /\ row.prev \in 0..made /\ row.prev # row.token
    /\ row.grant \in 0..grants
    /\ row.seen <= now /\ row.idleUntil <= Absolute /\ row.until <= Absolute
    /\ eligible \in BOOLEAN /\ disturbed \in BOOLEAN
    /\ jar \in 0..made
    /\ \A r \in Requests :
         /\ request[r].pc \in {"unsent", "sent", "found", "admitted", "answered", "done"}
         /\ request[r].pc = "unsent" <=> r > sent
         /\ request[r].reply \in Expired..made

-----------------------------------------------------------------------------
(* The browser.                                                             *)

Send ==
    \E r \in Requests, op \in Operations :
        /\ r = sent + 1
        /\ jar # None
        /\ sent' = r
        /\ request' = [request EXCEPT ![r] = [@ EXCEPT !.pc = "sent", !.op = op, !.cookie = jar]]
        /\ UNCHANGED <<now, row, eligible, jar, made, grants, disturbed>>

(* The browser keeps the cookie of the response that comes last.            *)
Deliver(r) ==
    /\ request[r].pc = "answered"
    /\ request' = [request EXCEPT ![r] = [Nothing EXCEPT !.pc = "done"]]
    /\ LET cookie == request[r].reply
       IN  /\ jar' = IF cookie = Expired THEN None ELSE IF cookie = None THEN jar ELSE cookie
           /\ disturbed' = (disturbed \/ (cookie # None /\ cookie < jar))
    /\ UNCHANGED <<now, row, eligible, counters>>

Lose(r) ==
    /\ request[r].pc = "answered" /\ request[r].reply # None
    /\ request' = [request EXCEPT ![r] = [Nothing EXCEPT !.pc = "done"]]
    /\ disturbed' = TRUE
    /\ UNCHANGED <<now, row, eligible, jar, counters>>

-----------------------------------------------------------------------------
(* resolveHttp.                                                             *)

IsLive == ~row.revoked /\ now < Absolute /\ now < row.idleUntil

Matches(cookie) == cookie = row.token \/ (cookie = row.prev /\ now < row.prevUntil)

(* The SELECT; a request it finds nothing for is anonymous.                 *)
Read(r) ==
    /\ request[r].pc = "sent"
    /\ request' = [request EXCEPT ![r] =
         IF IsLive /\ Matches(@.cookie)
         THEN [@ EXCEPT !.pc = "found", !.at = now, !.saw = row.token, !.seen = row.seen,
                        !.grant = row.grant, !.until = row.until]
         ELSE [Nothing EXCEPT !.pc = "answered"]]
    /\ UNCHANGED <<now, row, eligible, jar, counters, disturbed>>

(* The impersonation that was read has expired, or its target is gone.      *)
IsOver(q) == q.grant # None /\ (q.until <= q.at \/ ~eligible)

(* Mutation: whatever impersonation the session has by now is ended.        *)
MayEndAny(q) == row.grant # None /\ ~row.revoked

MayEnd(q) == row.grant = q.grant /\ ~row.revoked

(* It is ended before the request goes on, or all is resolved again.        *)
EndImpersonation(r) ==
    LET q == request[r] IN
    /\ q.pc = "found" /\ IsOver(q)
    /\ IF MayEnd(q)
       THEN /\ row' = [row EXCEPT !.grant = None, !.until = 0]
            /\ request' = [request EXCEPT ![r] = [@ EXCEPT !.grant = None]]
       ELSE /\ request' = [request EXCEPT ![r] = [@ EXCEPT !.pc = "sent"]]
            /\ UNCHANGED row
    /\ UNCHANGED <<now, eligible, jar, counters, disturbed>>

RenewalIsDue(q) == q.op # "socket" /\ q.cookie = q.saw /\ q.at - q.seen >= Renewal

(* Mutation: a token is renewed by every request that read it.              *)
MayRenewAgain(q) == ~row.revoked

MayRenew(q) == row.token = q.saw /\ ~row.revoked

Touched(q) == [row EXCEPT !.seen = q.at, !.idleUntil = Least(Absolute, q.at + Idle)]

(* Renewal, or noting the activity.                                         *)
Touch(r) ==
    LET q == request[r] IN
    /\ q.pc = "found" /\ ~IsOver(q)
    /\ IF ~RenewalIsDue(q)
       THEN /\ row' = Touched(q)
            /\ request' = [request EXCEPT ![r] = [@ EXCEPT !.pc = "admitted"]]
            /\ UNCHANGED made
       ELSE IF MayRenew(q)
       THEN /\ made' = made + 1
            /\ row' = [Touched(q) EXCEPT !.token = made', !.prev = q.saw, !.prevUntil = q.at + Grace]
            /\ request' = [request EXCEPT ![r] = [@ EXCEPT !.pc = "admitted", !.reply = made']]
       ELSE /\ request' = [request EXCEPT ![r] = [@ EXCEPT !.pc = "admitted"]]
            /\ UNCHANGED <<row, made>>
    /\ UNCHANGED <<now, eligible, jar, sent, grants, disturbed>>

-----------------------------------------------------------------------------
(* The routes.                                                              *)

Answered(cookie) == [Nothing EXCEPT !.pc = "answered", !.reply = cookie]

(* Mutation: the renewed cookie is left out of the response.                *)
AnswerAlone(r, cookie) == request' = [request EXCEPT ![r] = Answered(cookie)]

(* The response, also to an error: the cookie of the route wins over the    *)
(* renewed one.                                                             *)
Answer(r, cookie) ==
    request' = [request EXCEPT ![r] = Answered(IF cookie = None THEN @.reply ELSE cookie)]

Replaced(grant, until) ==
    [row EXCEPT !.token = made', !.prev = None, !.prevUntil = 0, !.seen = now,
                !.grant = grant, !.until = until]

(* startImpersonation, never nested, and stopImpersonation, of the grant    *)
(* that the request was resolved with.                                      *)
CanStart == eligible /\ IsLive /\ row.grant = None

CanStop(r) ==
    /\ request[r].grant # None
    /\ row.grant = request[r].grant /\ ~row.revoked /\ now < row.until

ViewRoute(r) ==
    /\ request[r].pc = "admitted" /\ request[r].op \in {"view", "socket"}
    /\ Answer(r, None)
    /\ UNCHANGED <<now, row, eligible, jar, counters, disturbed>>

StartRoute(r) ==
    /\ request[r].pc = "admitted" /\ request[r].op = "start"
    /\ IF CanStart
       THEN /\ made' = made + 1 /\ grants' = grants + 1
            /\ row' = Replaced(grants', Least(Absolute, now + Impersonation))
            /\ Answer(r, made')
       ELSE /\ Answer(r, None)
            /\ UNCHANGED <<row, made, grants>>
    /\ UNCHANGED <<now, eligible, jar, sent, disturbed>>

StopRoute(r) ==
    /\ request[r].pc = "admitted" /\ request[r].op = "stop"
    /\ IF CanStop(r)
       THEN /\ made' = made + 1
            /\ row' = Replaced(None, 0)
            /\ Answer(r, made')
       ELSE /\ Answer(r, None)
            /\ UNCHANGED <<row, made>>
    /\ UNCHANGED <<now, eligible, jar, sent, grants, disturbed>>

LogoutRoute(r) ==
    /\ request[r].pc = "admitted" /\ request[r].op = "logout"
    /\ row' = [row EXCEPT !.revoked = TRUE]
    /\ Answer(r, Expired)
    /\ UNCHANGED <<now, eligible, jar, counters, disturbed>>

-----------------------------------------------------------------------------
(* The rest of the system: other sessions and operators that revoke this    *)
(* one, the directory of identities, the clock.                             *)

RevokedElsewhere ==
    /\ ~row.revoked
    /\ row' = [row EXCEPT !.revoked = TRUE]
    /\ UNCHANGED <<now, eligible, jar, request, counters, disturbed>>

EligibilityChanges ==
    /\ eligible' = ~eligible
    /\ UNCHANGED <<now, row, jar, request, counters, disturbed>>

Tick ==
    /\ now < MaxTime
    /\ now' = now + 1
    /\ UNCHANGED <<row, eligible, jar, request, counters, disturbed>>

Next ==
    \/ Send
    \/ \E r \in Requests :
         \/ Read(r) \/ EndImpersonation(r) \/ Touch(r)
         \/ ViewRoute(r) \/ StartRoute(r) \/ StopRoute(r) \/ LogoutRoute(r)
         \/ Deliver(r) \/ Lose(r)
    \/ RevokedElsewhere \/ EligibilityChanges \/ Tick

Spec == Init /\ [][Next]_vars

-----------------------------------------------------------------------------
(* "The database atomically moves the former digest into a bounded          *)
(* previous-token slot": however many requests renew at once, the token     *)
(* that was current becomes the previous one, unless an impersonation       *)
(* starts or stops, which leaves no grace.                                  *)
RenewalKeepsCurrent ==
    [][row'.token # row.token =>
         row'.prev = row.token \/ row'.grant # row.grant]_vars

(* An impersonation is ended only by a request that was resolved with it:   *)
(* the late end of one that expired, lost its target or was stopped never   *)
(* ends the one that was started since.                                     *)
GrantsEndAlone ==
    [][row.grant # None /\ row'.grant # row.grant =>
         /\ row'.grant = None
         /\ \E r \in Requests : request[r].pc \in {"found", "admitted"}
                                 /\ request[r].grant = row.grant]_vars

(* Renewal, impersonation and errors never sign a browser out: while the    *)
(* session lives, the cookie of a browser that got its responses in the     *)
(* order of their cookies is accepted, or its replacement is on the way.    *)
ClientStaysSignedIn ==
    IsLive /\ jar # None /\ ~disturbed =>
        \/ Matches(jar)
        \/ \E r \in Requests : request[r].pc # "done" /\ request[r].reply = row.token
=============================================================================
