---------------------------- MODULE SessionsProofs ----------------------------
(***************************************************************************)
(* Proofs about Sessions, for any number of requests and any times.        *)
(*                                                                         *)
(* The browser is kept signed in because the session's token is always the *)
(* last one made, and is in the jar or in a response on its way there.     *)
(***************************************************************************)
EXTENDS Sessions, TLAPS

RowType == [token : Int, prev : Int, prevUntil : Int, seen : Int, idleUntil : Int,
            revoked : BOOLEAN, grant : Int, until : Int]

RequestType == [pc : {"unsent", "sent", "found", "admitted", "answered", "done"},
                op : Operations \cup {"view"}, cookie : Int, at : Int, saw : Int, seen : Int,
                grant : Int, until : Int, reply : Int]

Typed ==
    /\ now \in Int
    /\ row \in RowType
    /\ request \in [Requests -> RequestType]
    /\ jar \in Int
    /\ sent \in Nat /\ made \in Nat \ {0} /\ grants \in Nat

(* Only an admitted request has a cookie to set, and none that is newer    *)
(* than the session's; the one that removes it comes from a logout.        *)
Fresh(r) ==
    /\ r > sent => request[r].pc = "unsent"
    /\ request[r].pc \in {"unsent", "sent", "found"} => request[r].reply = None
    /\ request[r].reply <= made
    /\ request[r].reply = Expired => row.revoked

LastToken == row.token = made /\ \A r \in Requests : Fresh(r)

OnItsWay == \E r \in Requests : request[r].pc # "done" /\ request[r].reply = row.token

Kept == ~disturbed /\ ~row.revoked => jar = row.token \/ OnItsWay

SInv == Typed /\ LastToken /\ Kept

LEMMA NothingTyped == Nothing \in RequestType
BY DEF Nothing, RequestType, None

LEMMA SInvInit == Init => SInv
<1> SUFFICES ASSUME Init PROVE SInv
  OBVIOUS
<1>1. Typed
  BY NothingTyped, TimesAssumption DEF Init, Typed, RowType, None
<1>2. LastToken /\ Kept
  BY DEF Init, LastToken, Fresh, Kept, Nothing, None, Expired
<1>3. QED
  BY <1>1, <1>2 DEF SInv

-----------------------------------------------------------------------------
(* What the operations store in the row and in a request has their types.  *)
LEMMA RowFields ==
    ASSUME NEW x \in RowType, NEW a \in Int, NEW b \in Int, NEW c \in Int
    PROVE  /\ [x EXCEPT !.revoked = TRUE] \in RowType
           /\ [x EXCEPT !.grant = a, !.until = b] \in RowType
           /\ [x EXCEPT !.seen = a, !.idleUntil = b] \in RowType
           /\ [x EXCEPT !.token = a, !.prev = b, !.prevUntil = c] \in RowType
BY DEF RowType

LEMMA ReplacedFields ==
    ASSUME NEW x \in RowType, NEW token \in Int, NEW prev \in Int, NEW prevUntil \in Int,
           NEW seen \in Int, NEW grant \in Int, NEW until \in Int
    PROVE  [x EXCEPT !.token = token, !.prev = prev, !.prevUntil = prevUntil, !.seen = seen,
                     !.grant = grant, !.until = until] \in RowType
BY DEF RowType

LEMMA RequestFields ==
    ASSUME NEW q \in RequestType, NEW x \in Int
    PROVE  /\ [q EXCEPT !.pc = "admitted"] \in RequestType
           /\ [q EXCEPT !.pc = "sent"] \in RequestType
           /\ [q EXCEPT !.pc = "done"] \in RequestType
           /\ [q EXCEPT !.pc = "answered"] \in RequestType
           /\ [q EXCEPT !.pc = "admitted", !.reply = x] \in RequestType
           /\ [q EXCEPT !.pc = "answered", !.reply = x] \in RequestType
           /\ [q EXCEPT !.grant = x] \in RequestType
           /\ \A op \in Operations :
                [q EXCEPT !.pc = "sent", !.op = op, !.cookie = x] \in RequestType
BY DEF RequestType

LEMMA FoundFields ==
    ASSUME NEW q \in RequestType, NEW at \in Int, NEW saw \in Int, NEW seen \in Int,
           NEW grant \in Int, NEW until \in Int
    PROVE  [q EXCEPT !.pc = "found", !.at = at, !.saw = saw, !.seen = seen, !.grant = grant,
                     !.until = until] \in RequestType
BY DEF RequestType

LEMMA FieldTypes ==
    /\ \A x \in RowType : x.token \in Int /\ x.seen \in Int /\ x.grant \in Int /\ x.until \in Int
    /\ \A q \in RequestType : q.at \in Int /\ q.saw \in Int /\ q.reply \in Int
BY DEF RowType, RequestType

LEMMA RequestChanges ==
    ASSUME request \in [Requests -> RequestType], NEW r \in Requests, NEW q \in RequestType,
           request' = [request EXCEPT ![r] = q]
    PROVE  request' \in [Requests -> RequestType]
OBVIOUS

LEMMA Constants ==
    /\ None \in Int /\ Expired \in Int
    /\ Idle \in Int /\ Absolute \in Int /\ Grace \in Int /\ Impersonation \in Int
BY TimesAssumption DEF None, Expired

LEMMA LeastTyped == ASSUME NEW a \in Int, NEW b \in Int PROVE Least(a, b) \in Int
BY DEF Least

LEMMA TouchedTyped == ASSUME row \in RowType, NEW q \in RequestType PROVE Touched(q) \in RowType
<1>1. q.at \in Int /\ q.at + Idle \in Int
  BY FieldTypes, Constants
<1>2. Least(Absolute, q.at + Idle) \in Int
  BY <1>1, Constants, LeastTyped
<1>3. QED
  BY <1>1, <1>2, RowFields DEF Touched

LEMMA ReplacedTyped ==
    ASSUME row \in RowType, made' \in Int, now \in Int, NEW grant \in Int, NEW until \in Int
    PROVE  Replaced(grant, until) \in RowType
BY ReplacedFields, Constants DEF Replaced, None

LEMMA AnswerTyped ==
    ASSUME request \in [Requests -> RequestType], NEW r \in Requests, NEW cookie \in Int,
           Answer(r, cookie)
    PROVE  request' \in [Requests -> RequestType]
<1>1. (IF cookie = None THEN request[r].reply ELSE cookie) \in Int
  BY FieldTypes
<1>2. Answered(IF cookie = None THEN request[r].reply ELSE cookie) \in RequestType
  BY <1>1, NothingTyped, RequestFields DEF Answered
<1>3. QED
  BY <1>2 DEF Answer

(* Types are kept: every operation stores times, tokens and grants.        *)
LEMMA TypedStep == Typed /\ [Next]_vars => Typed'
<1> SUFFICES ASSUME Typed, [Next]_vars PROVE Typed'
  OBVIOUS
<1> USE DEF Typed, counters
<1>1. CASE Send
  <2>1. PICK r \in Requests, op \in Operations :
          /\ sent' = r /\ r = sent + 1
          /\ request' = [request EXCEPT ![r] = [request[r] EXCEPT !.pc = "sent", !.op = op,
                                                                 !.cookie = jar]]
          /\ UNCHANGED <<now, row, jar, made, grants>>
    BY <1>1 DEF Send
  <2>2. [request[r] EXCEPT !.pc = "sent", !.op = op, !.cookie = jar] \in RequestType
    BY RequestFields
  <2>3. request' \in [Requests -> RequestType]
    BY <2>1, <2>2, RequestChanges
  <2>4. QED
    BY <2>1, <2>3
<1>2. ASSUME NEW r \in Requests, Read(r) PROVE Typed'
  <2>1. request[r] \in RequestType /\ row.token \in Int /\ row.seen \in Int
        /\ row.grant \in Int /\ row.until \in Int
    BY FieldTypes
  <2>2. request' \in [Requests -> RequestType]
    BY <1>2, <2>1, FoundFields, NothingTyped, RequestFields, Constants DEF Read
  <2>3. QED
    BY <1>2, <2>2 DEF Read
<1>3. ASSUME NEW r \in Requests, EndImpersonation(r) PROVE Typed'
  <2> DEFINE q == request[r]
  <2>1. q \in RequestType
    OBVIOUS
  <2>2. CASE MayEnd(q)
    <3>1. [q EXCEPT !.grant = None] \in RequestType
      BY <2>1, RequestFields, Constants
    <3>2. [row EXCEPT !.grant = None, !.until = 0] \in RowType
      BY RowFields, Constants DEF None
    <3>3. row' \in RowType /\ request' \in [Requests -> RequestType]
      BY <1>3, <2>2, <3>1, <3>2 DEF EndImpersonation
    <3>4. QED
      BY <1>3, <3>3 DEF EndImpersonation
  <2>3. CASE ~MayEnd(q)
    <3>1. [q EXCEPT !.pc = "sent"] \in RequestType
      BY <2>1, RequestFields
    <3>2. row' \in RowType /\ request' \in [Requests -> RequestType]
      BY <1>3, <2>3, <3>1 DEF EndImpersonation
    <3>3. QED
      BY <1>3, <3>2 DEF EndImpersonation
  <2>4. QED
    BY <2>2, <2>3
<1>4. ASSUME NEW r \in Requests, Touch(r) PROVE Typed'
  <2> DEFINE q == request[r]
  <2>1. q \in RequestType /\ [q EXCEPT !.pc = "admitted"] \in RequestType
    BY RequestFields
  <2>2. Touched(q) \in RowType
    BY <2>1, TouchedTyped
  <2>3. CASE ~RenewalIsDue(q) \/ ~MayRenew(q)
    <3>1. row' \in RowType /\ request' \in [Requests -> RequestType] /\ made' = made
      BY <1>4, <2>1, <2>2, <2>3 DEF Touch
    <3>2. QED
      BY <1>4, <3>1 DEF Touch
  <2>4. CASE RenewalIsDue(q) /\ MayRenew(q)
    <3>1. made' = made + 1 /\ made' \in Nat \ {0} /\ made' \in Int
      BY <1>4, <2>4 DEF Touch
    <3>2. q.saw \in Int /\ q.at + Grace \in Int
      BY <2>1, FieldTypes, Constants
    <3>3. [Touched(q) EXCEPT !.token = made', !.prev = q.saw, !.prevUntil = q.at + Grace]
            \in RowType
      BY <2>2, <3>1, <3>2, RowFields
    <3>4. [q EXCEPT !.pc = "admitted", !.reply = made'] \in RequestType
      BY <2>1, <3>1, RequestFields
    <3>5. row' \in RowType /\ request' \in [Requests -> RequestType]
      BY <1>4, <2>4, <3>3, <3>4 DEF Touch
    <3>6. QED
      BY <1>4, <3>1, <3>5 DEF Touch
  <2>5. QED
    BY <2>3, <2>4
<1>5. ASSUME NEW r \in Requests, ViewRoute(r) PROVE Typed'
  BY <1>5, AnswerTyped, Constants DEF ViewRoute
<1>6. ASSUME NEW r \in Requests, StartRoute(r) PROVE Typed'
  <2>1. CASE CanStart
    <3>1. made' \in Nat \ {0} /\ grants' \in Nat
      BY <1>6, <2>1 DEF StartRoute
    <3>2. request' \in [Requests -> RequestType]
      BY <1>6, <2>1, <3>1, AnswerTyped DEF StartRoute
    <3>3. Least(Absolute, now + Impersonation) \in Int
      BY LeastTyped, Constants
    <3>4. row' \in RowType
      BY <1>6, <2>1, <3>1, <3>3, ReplacedTyped DEF StartRoute
    <3>5. QED
      BY <1>6, <2>1, <3>1, <3>2, <3>4 DEF StartRoute
  <2>2. CASE ~CanStart
    BY <1>6, <2>2, AnswerTyped, Constants DEF StartRoute
  <2>3. QED
    BY <2>1, <2>2
<1>7. ASSUME NEW r \in Requests, StopRoute(r) PROVE Typed'
  <2>1. CASE CanStop(r)
    <3>1. made' \in Nat \ {0}
      BY <1>7, <2>1 DEF StopRoute
    <3>2. request' \in [Requests -> RequestType]
      BY <1>7, <2>1, <3>1, AnswerTyped DEF StopRoute
    <3>3. row' \in RowType
      BY <1>7, <2>1, <3>1, ReplacedTyped, Constants DEF StopRoute, None
    <3>4. QED
      BY <1>7, <2>1, <3>1, <3>2, <3>3 DEF StopRoute
  <2>2. CASE ~CanStop(r)
    BY <1>7, <2>2, AnswerTyped, Constants DEF StopRoute
  <2>3. QED
    BY <2>1, <2>2
<1>8. ASSUME NEW r \in Requests, LogoutRoute(r) PROVE Typed'
  BY <1>8, AnswerTyped, RowFields, Constants DEF LogoutRoute
<1>9. ASSUME NEW r \in Requests, Deliver(r) \/ Lose(r) PROVE Typed'
  <2>1. request' \in [Requests -> RequestType]
    BY <1>9, NothingTyped, RequestFields, Constants DEF Deliver, Lose
  <2>2. jar' \in Int
    BY <1>9, FieldTypes, Constants DEF Deliver, Lose
  <2>3. QED
    BY <1>9, <2>1, <2>2 DEF Deliver, Lose
<1>10. CASE RevokedElsewhere \/ EligibilityChanges \/ Tick \/ UNCHANGED vars
  <2>1. row' \in RowType
    BY <1>10, RowFields, Constants DEF RevokedElsewhere, EligibilityChanges, Tick, vars
  <2>2. QED
    BY <1>10, <2>1 DEF RevokedElsewhere, EligibilityChanges, Tick, vars
<1>11. QED
  BY <1>1, <1>2, <1>3, <1>4, <1>5, <1>6, <1>7, <1>8, <1>9, <1>10 DEF Next

-----------------------------------------------------------------------------
(* A request that is not touched stays fresh while tokens are only made    *)
(* and a revocation is final.                                              *)
LEMMA FreshStays ==
    ASSUME NEW r \in Requests, Typed, Fresh(r), sent <= sent', sent' \in Nat, made <= made',
           made' \in Nat, row.revoked => row'.revoked, request'[r] = request[r]
    PROVE  Fresh(r)'
<1>1. r \in Nat /\ request[r].reply \in Int
  BY RequestsAssumption, FieldTypes DEF Typed
<1>2. QED
  BY <1>1 DEF Fresh, Typed

(* The pending response that carries the session's token is still pending. *)
LEMMA PendingStays ==
    ASSUME Typed, NEW r \in Requests, row'.token = row.token,
           \A x \in Requests \ {r} : request'[x] = request[x],
           request'[r].pc # "done", request'[r].reply = request[r].reply
    PROVE  OnItsWay => OnItsWay'
BY DEF OnItsWay

LEMMA SInvStep == SInv /\ [Next]_vars => SInv'
<1> SUFFICES ASSUME SInv, [Next]_vars PROVE LastToken' /\ Kept'
  BY TypedStep DEF SInv
<1>t. Typed'
  BY TypedStep DEF SInv
<1>i. /\ Typed /\ LastToken /\ Kept
      /\ \A r \in Requests : r \in Nat /\ Fresh(r)
  BY RequestsAssumption DEF SInv, LastToken
<1>o. ASSUME NEW r \in Requests, NEW q, request' = [request EXCEPT ![r] = q]
      PROVE  request'[r] = q /\ \A x \in Requests \ {r} : request'[x] = request[x]
  BY <1>i, <1>o DEF Typed
<1>1. CASE Send
  <2>1. PICK r \in Requests, op \in Operations :
          /\ r = sent + 1 /\ sent' = r
          /\ request' = [request EXCEPT ![r] = [request[r] EXCEPT !.pc = "sent", !.op = op,
                                                                 !.cookie = jar]]
          /\ UNCHANGED <<row, jar, made, disturbed>>
    BY <1>1 DEF Send
  <2>2. /\ request'[r] = [request[r] EXCEPT !.pc = "sent", !.op = op, !.cookie = jar]
        /\ \A x \in Requests \ {r} : request'[x] = request[x]
    BY <2>1, <1>o
  <2>3. request[r] \in RequestType /\ request[r].pc = "unsent" /\ request[r].reply = None
    BY <2>1, <1>i DEF Typed, Fresh
  <2>4. request'[r].pc = "sent" /\ request'[r].reply = None
    BY <2>2, <2>3 DEF RequestType
  <2>5. Fresh(r)'
    BY <2>1, <2>4, <1>i DEF Fresh, Typed, None, Expired
  <2>6. \A x \in Requests \ {r} : Fresh(x)'
    BY <2>1, <2>2, <1>i, FreshStays DEF Typed
  <2>7. Kept'
    BY <2>1, <2>2, <2>3, <2>4, <1>i, PendingStays DEF Kept
  <2>8. QED
    BY <2>1, <2>5, <2>6, <2>7, <1>i DEF LastToken
<1>m. ASSUME NEW r \in Requests, NEW q, request' = [request EXCEPT ![r] = q],
             request[r].pc # "unsent", UNCHANGED sent, row'.token = made',
             made <= made', row.revoked => row'.revoked,
             q.pc # "unsent", q.reply <= made', q.reply = Expired => row'.revoked,
             q.pc \in {"sent", "found"} => q.reply = None
      PROVE  LastToken'
  <2>1. Fresh(r)'
    BY <1>o, <1>m, <1>i DEF Fresh, Typed
  <2>2. \A x \in Requests \ {r} : Fresh(x)'
    BY <1>o, <1>m, <1>i, <1>t, FreshStays DEF Typed
  <2>3. QED
    BY <2>1, <2>2, <1>m DEF LastToken
<1>k. ASSUME NEW r \in Requests, NEW q, request' = [request EXCEPT ![r] = q],
             row'.token = row.token, row.revoked => row'.revoked, UNCHANGED <<jar, disturbed>>,
             q.pc # "done", q.reply = request[r].reply
      PROVE  Kept'
  BY <1>o, <1>k, <1>i, PendingStays DEF Kept
<1>n. ASSUME NEW r \in Requests, NEW q, request' = [request EXCEPT ![r] = q],
             q.pc # "done", q.reply = row'.token
      PROVE  Kept'
  BY <1>o, <1>n DEF Kept, OnItsWay
<1>s. ASSUME NEW r \in Requests, NEW q, request' = [request EXCEPT ![r] = q],
             request[r].pc # "unsent", UNCHANGED <<sent, made, jar, disturbed>>,
             row'.token = row.token, row.revoked => row'.revoked,
             q.pc \notin {"unsent", "done"}, q.reply = request[r].reply,
             q.pc \in {"sent", "found"} => request[r].pc \in {"sent", "found"}
      PROVE  LastToken' /\ Kept'
  <2>1. row'.token = made' /\ made <= made'
    BY <1>s, <1>i DEF LastToken, Typed
  <2>2. /\ q.reply <= made'
        /\ q.reply = Expired => row'.revoked
        /\ q.pc \in {"sent", "found"} => q.reply = None
    BY <1>s, <1>i DEF Fresh
  <2>3. LastToken'
    BY <1>s, <2>1, <2>2, <1>m
  <2>4. QED
    BY <1>s, <2>3, <1>k
<1>r. \A r \in Requests : request[r] \in RequestType /\ request[r].reply \in Int
  BY <1>i, FieldTypes DEF Typed
<1>2. ASSUME NEW r \in Requests, Read(r) PROVE LastToken' /\ Kept'
  <2> DEFINE q == IF IsLive /\ Matches(request[r].cookie)
                  THEN [request[r] EXCEPT !.pc = "found", !.at = now, !.saw = row.token,
                                          !.seen = row.seen, !.grant = row.grant,
                                          !.until = row.until]
                  ELSE [Nothing EXCEPT !.pc = "answered"]
  <2>1. /\ request[r].pc = "sent" /\ request[r].reply = None
        /\ UNCHANGED <<row, jar, sent, made, disturbed>>
        /\ request' = [request EXCEPT ![r] = q]
    BY <1>2, <1>i DEF Read, Fresh, counters
  <2>2. q.reply = None /\ q.pc \in {"found", "answered"}
    BY <2>1, <1>r DEF RequestType, Nothing
  <2> HIDE DEF q
  <2>3. QED
    BY <2>1, <2>2, <1>s
<1>3. ASSUME NEW r \in Requests, EndImpersonation(r) PROVE LastToken' /\ Kept'
  <2>1. /\ request[r].pc = "found" /\ request[r].reply = None
        /\ UNCHANGED <<jar, sent, made, disturbed>>
        /\ row'.token = row.token /\ row'.revoked = row.revoked
    BY <1>3, <1>i DEF EndImpersonation, Fresh, counters, Typed, RowType
  <2>2. PICK q \in {[request[r] EXCEPT !.grant = None], [request[r] EXCEPT !.pc = "sent"]} :
          request' = [request EXCEPT ![r] = q]
    BY <1>3 DEF EndImpersonation
  <2>3. q.reply = None /\ q.pc \in {"found", "sent"}
    BY <2>1, <2>2, <1>r DEF RequestType
  <2>4. QED
    BY <2>1, <2>2, <2>3, <1>s
<1>4. ASSUME NEW r \in Requests, Touch(r) PROVE LastToken' /\ Kept'
  <2>1. /\ request[r].pc = "found" /\ request[r].reply = None
        /\ UNCHANGED <<jar, sent, disturbed>>
    BY <1>4, <1>i DEF Touch, Fresh
  <2>2. CASE ~RenewalIsDue(request[r]) \/ ~MayRenew(request[r])
    <3>1. /\ request' = [request EXCEPT ![r] = [request[r] EXCEPT !.pc = "admitted"]]
          /\ UNCHANGED made
          /\ row' \in {row, Touched(request[r])}
      BY <1>4, <2>2 DEF Touch
    <3>2. row'.token = row.token /\ row'.revoked = row.revoked
      BY <3>1, <1>i DEF Touched, Typed, RowType
    <3>3. LET q == [request[r] EXCEPT !.pc = "admitted"] IN q.reply = None /\ q.pc = "admitted"
      BY <2>1, <1>r DEF RequestType
    <3>4. QED
      BY <2>1, <3>1, <3>2, <3>3, <1>s
  <2>3. CASE RenewalIsDue(request[r]) /\ MayRenew(request[r])
    <3>1. /\ made' = made + 1
          /\ request' = [request EXCEPT ![r] = [request[r] EXCEPT !.pc = "admitted",
                                                                 !.reply = made']]
          /\ row' = [Touched(request[r]) EXCEPT !.token = made', !.prev = request[r].saw,
                                               !.prevUntil = request[r].at + Grace]
      BY <1>4, <2>3 DEF Touch
    <3>2. row'.token = made' /\ row'.revoked = row.revoked
      BY <3>1, <1>i DEF Touched, Typed, RowType
    <3>3. LET q == [request[r] EXCEPT !.pc = "admitted", !.reply = made']
          IN  q.reply = made' /\ q.pc = "admitted"
      BY <2>1, <1>r DEF RequestType
    <3>4. made <= made' /\ made' <= made' /\ made' # Expired
      BY <3>1, <1>i DEF Typed, Expired
    <3>5. LastToken'
      BY <2>1, <3>1, <3>2, <3>3, <3>4, <1>m
    <3>6. QED
      BY <3>1, <3>2, <3>3, <3>5, <1>n
  <2>4. QED
    BY <2>2, <2>3
<1>a. ASSUME NEW r \in Requests, NEW cookie \in Int, request[r].pc = "admitted",
             Answer(r, cookie)
      PROVE  \E q : /\ request' = [request EXCEPT ![r] = q]
                    /\ q.pc = "answered"
                    /\ q.reply = IF cookie = None THEN request[r].reply ELSE cookie
  <2> DEFINE q == Answered(IF cookie = None THEN request[r].reply ELSE cookie)
  <2>1. request' = [request EXCEPT ![r] = q]
    BY <1>a DEF Answer
  <2>2. q.pc = "answered" /\ q.reply = IF cookie = None THEN request[r].reply ELSE cookie
    BY DEF Answered, Nothing
  <2>3. QED
    BY <2>1, <2>2
<1>5. ASSUME NEW r \in Requests, Answer(r, None), request[r].pc = "admitted",
             UNCHANGED <<row, jar, sent, made, disturbed>>
      PROVE  LastToken' /\ Kept'
  <2>1. PICK q : request' = [request EXCEPT ![r] = q] /\ q.pc = "answered"
                 /\ q.reply = request[r].reply
    BY <1>5, <1>a, Constants
  <2>2. QED
    BY <1>5, <2>1, <1>s
<1>6. ASSUME NEW r \in Requests, NEW grant \in Int, NEW until \in Int,
             Answer(r, made'), request[r].pc = "admitted", made' = made + 1,
             row' = Replaced(grant, until), UNCHANGED <<jar, sent, disturbed>>
      PROVE  LastToken' /\ Kept'
  <2>1. made' \in Int /\ made' # None /\ made' # Expired /\ made <= made' /\ made' <= made'
    BY <1>6, <1>i DEF Typed, None, Expired
  <2>2. row'.token = made' /\ row'.revoked = row.revoked
    BY <1>6, <1>i DEF Replaced, Typed, RowType
  <2>3. PICK q : request' = [request EXCEPT ![r] = q] /\ q.pc = "answered" /\ q.reply = made'
    BY <1>6, <1>a, <2>1
  <2>4. LastToken'
    BY <1>6, <2>1, <2>2, <2>3, <1>m
  <2>5. QED
    BY <2>2, <2>3, <2>4, <1>n
<1>7. ASSUME NEW r \in Requests, ViewRoute(r) PROVE LastToken' /\ Kept'
  BY <1>5, <1>7 DEF ViewRoute, counters
<1>8. ASSUME NEW r \in Requests, StartRoute(r) PROVE LastToken' /\ Kept'
  <2>1. CASE CanStart
    <3>1. Least(Absolute, now + Impersonation) \in Int /\ grants' \in Int
      BY <1>i, <1>t, LeastTyped, Constants DEF Typed
    <3>2. QED
      BY <1>6, <1>8, <2>1, <3>1 DEF StartRoute
  <2>2. CASE ~CanStart
    BY <1>5, <1>8, <2>2 DEF StartRoute
  <2>3. QED
    BY <2>1, <2>2
<1>9. ASSUME NEW r \in Requests, StopRoute(r) PROVE LastToken' /\ Kept'
  <2>1. CASE CanStop(r)
    BY <1>6, <1>9, <2>1, Constants DEF StopRoute, None
  <2>2. CASE ~CanStop(r)
    BY <1>5, <1>9, <2>2 DEF StopRoute
  <2>3. QED
    BY <2>1, <2>2
<1>10. ASSUME NEW r \in Requests, LogoutRoute(r) PROVE LastToken' /\ Kept'
  <2>1. row'.revoked /\ row'.token = row.token /\ UNCHANGED <<sent, made>>
    BY <1>10, <1>i DEF LogoutRoute, Typed, RowType, counters
  <2>2. PICK q : request' = [request EXCEPT ![r] = q] /\ q.pc = "answered" /\ q.reply = Expired
    BY <1>10, <1>a, Constants DEF LogoutRoute, None, Expired
  <2>3. row'.token = made' /\ made <= made' /\ Expired <= made'
    BY <2>1, <1>i DEF LastToken, Typed, Expired
  <2>4. LastToken'
    BY <1>10, <2>1, <2>2, <2>3, <1>m DEF LogoutRoute
  <2>5. QED
    BY <2>1, <2>4 DEF Kept
<1>11. ASSUME NEW r \in Requests, Deliver(r) \/ Lose(r) PROVE LastToken' /\ Kept'
  <2> DEFINE q == [Nothing EXCEPT !.pc = "done"]
  <2>1. /\ request' = [request EXCEPT ![r] = q]
        /\ request[r].pc = "answered" /\ UNCHANGED <<row, sent, made>>
    BY <1>11 DEF Deliver, Lose, counters
  <2>2. q.pc = "done" /\ q.reply = None
    BY DEF Nothing
  <2> HIDE DEF q
  <2>3. row'.token = made' /\ made <= made' /\ None <= made' /\ None # Expired
    BY <2>1, <1>i DEF LastToken, Typed, None, Expired
  <2>4. LastToken'
    BY <2>1, <2>2, <2>3, <1>m
  <2>5. Kept'
    <3>1. CASE Lose(r)
      BY <3>1 DEF Lose, Kept
    <3>2. CASE Deliver(r)
      <4> SUFFICES ASSUME ~disturbed', ~row.revoked PROVE jar' = row.token \/ OnItsWay'
        BY <2>1 DEF Kept
      <4>1. /\ ~disturbed /\ (request[r].reply # None => ~(request[r].reply < jar))
            /\ request[r].reply # Expired
            /\ jar' = IF request[r].reply = None THEN jar ELSE request[r].reply
        BY <3>2, <1>i DEF Deliver, Fresh
      <4>2. CASE request[r].reply = row.token
        BY <4>1, <4>2, <1>i DEF LastToken, Typed, None
      <4>3. CASE request[r].reply # row.token /\ OnItsWay
        <5>1. PICK x \in Requests : request[x].pc # "done" /\ request[x].reply = row.token
          BY <4>3 DEF OnItsWay
        <5>2. request'[x] = request[x] /\ row'.token = row.token
          BY <5>1, <4>3, <2>1, <1>o
        <5>3. QED
          BY <5>1, <5>2 DEF OnItsWay
      <4>4. CASE request[r].reply # row.token /\ ~OnItsWay
        <5>1. jar = row.token /\ request[r].reply <= made /\ row.token = made
          BY <4>1, <4>4, <1>i DEF Kept, LastToken, Fresh
        <5>2. request[r].reply = None
          BY <4>1, <4>4, <5>1, <1>r, <1>i DEF Typed
        <5>3. QED
          BY <4>1, <5>1, <5>2
      <4>5. QED
        BY <4>2, <4>3, <4>4
    <3>3. QED
      BY <1>11, <3>1, <3>2
  <2>6. QED
    BY <2>4, <2>5
<1>12. CASE RevokedElsewhere \/ EligibilityChanges \/ Tick \/ UNCHANGED vars
  <2>1. /\ UNCHANGED <<request, sent, made, jar, disturbed>>
        /\ row'.token = row.token /\ (row.revoked => row'.revoked)
    BY <1>12, <1>i DEF RevokedElsewhere, EligibilityChanges, Tick, vars, counters, Typed, RowType
  <2>2. LastToken'
    BY <2>1, <1>i DEF LastToken, Fresh
  <2>3. Kept'
    BY <2>1, <1>i DEF Kept, OnItsWay
  <2>4. QED
    BY <2>2, <2>3
<1>13. QED
  BY <1>1, <1>2, <1>3, <1>4, <1>7, <1>8, <1>9, <1>10, <1>11, <1>12 DEF Next

LEMMA SInvHolds == Spec => []SInv
BY SInvInit, SInvStep, PTL DEF Spec

-----------------------------------------------------------------------------
(* However many requests renew, impersonate and fail at once, a browser    *)
(* whose responses came in the order of their cookies stays signed in for  *)
(* as long as its session lives (touchOrRenewSession and its callers).     *)
THEOREM BrowserStaysSignedIn == Spec => []ClientStaysSignedIn
<1>1. SInv => ClientStaysSignedIn
  BY DEF SInv, Kept, OnItsWay, ClientStaysSignedIn, IsLive, Matches
<1>2. QED
  BY <1>1, SInvHolds, PTL

(* A renewal moves the token that was current into the previous slot,      *)
(* whatever else is in flight: its WHERE compares the digest it read.      *)
THEOREM CurrentTokenIsKept == Spec => RenewalKeepsCurrent
<1> DEFINE Step == row'.token # row.token => row'.prev = row.token \/ row'.grant # row.grant
<1>1. ASSUME SInv, [Next]_vars PROVE [Step]_vars
  <2> SUFFICES ASSUME row'.token # row.token
               PROVE  row'.prev = row.token \/ row'.grant # row.grant
    OBVIOUS
  <2>1. row \in RowType /\ grants \in Nat
    BY <1>1 DEF SInv, Typed
  <2>2. ASSUME NEW r \in Requests, Touch(r) PROVE row'.prev = row.token
    BY <2>1, <2>2 DEF Touch, Touched, MayRenew, RowType
  <2>3. ASSUME NEW r \in Requests, StartRoute(r) PROVE row'.grant # row.grant
    <3>1. row.grant = None /\ grants' = grants + 1
          /\ row' = Replaced(grants', Least(Absolute, now + Impersonation))
      BY <2>3 DEF StartRoute, CanStart
    <3>2. row'.grant = grants'
      BY <2>1, <3>1 DEF Replaced, RowType
    <3>3. QED
      BY <2>1, <3>1, <3>2 DEF None
  <2>4. ASSUME NEW r \in Requests, StopRoute(r) PROVE row'.grant # row.grant
    BY <2>1, <2>4 DEF StopRoute, CanStop, Replaced, RowType, None
  <2>5. ASSUME NEW r \in Requests, EndImpersonation(r) \/ LogoutRoute(r) PROVE FALSE
    BY <2>1, <2>5 DEF EndImpersonation, LogoutRoute, RowType
  <2>6. ~RevokedElsewhere
    BY <2>1 DEF RevokedElsewhere, RowType
  <2>7. QED
    BY <1>1, <2>2, <2>3, <2>4, <2>5, <2>6
    DEF Next, Send, Read, ViewRoute, Deliver, Lose, EligibilityChanges, Tick, vars
<1>2. QED
  BY <1>1, SInvHolds, PTL DEF Spec, RenewalKeepsCurrent

(* endImpersonation and stopImpersonation compare the grant: an            *)
(* impersonation ends only by a request that was resolved with it.         *)
THEOREM GrantsAreEndedByTheirOwn == Spec => GrantsEndAlone
<1> DEFINE Own == \E r \in Requests : /\ request[r].pc \in {"found", "admitted"}
                                      /\ request[r].grant = row.grant
           Step == row.grant # None /\ row'.grant # row.grant =>
                     /\ row'.grant = None
                     /\ \E r \in Requests : request[r].pc \in {"found", "admitted"}
                                             /\ request[r].grant = row.grant
<1>1. ASSUME SInv, [Next]_vars PROVE [Step]_vars
  <2> SUFFICES ASSUME row.grant # None, row'.grant # row.grant PROVE row'.grant = None /\ Own
    OBVIOUS
  <2>1. row \in RowType
    BY <1>1 DEF SInv, Typed
  <2>2. ASSUME NEW r \in Requests, EndImpersonation(r) PROVE row'.grant = None /\ Own
    BY <2>1, <2>2 DEF EndImpersonation, MayEnd, RowType
  <2>3. ASSUME NEW r \in Requests, StopRoute(r) PROVE row'.grant = None /\ Own
    BY <2>1, <2>3 DEF StopRoute, CanStop, Replaced, RowType
  <2>4. ASSUME NEW r \in Requests, StartRoute(r) PROVE FALSE
    BY <2>1, <2>4 DEF StartRoute, CanStart
  <2>5. ASSUME NEW r \in Requests, Touch(r) \/ LogoutRoute(r) PROVE FALSE
    BY <2>1, <2>5 DEF Touch, Touched, LogoutRoute, RowType
  <2>6. ~RevokedElsewhere
    BY <2>1 DEF RevokedElsewhere, RowType
  <2>7. QED
    BY <1>1, <2>2, <2>3, <2>4, <2>5, <2>6
    DEF Next, Send, Read, ViewRoute, Deliver, Lose, EligibilityChanges, Tick, vars
<1>2. QED
  BY <1>1, SInvHolds, PTL DEF Spec, GrantsEndAlone

=============================================================================
