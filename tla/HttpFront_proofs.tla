-------------------------- MODULE HttpFront_proofs --------------------------
(***************************************************************************)
(* Whatever is served at the same time, a request is admitted, numbered,   *)
(* filtered and counted by itself: for any handlers, requests and          *)
(* responses of the backend.                                               *)
(***************************************************************************)
EXTENDS HttpFront, FiniteSetTheorems, SequenceTheorems, TLAPS

-----------------------------------------------------------------------------
(***************************************************************************)
(* The inductive invariant.  About(h) is what is known of one handler; a   *)
(* step of another leaves it alone, since all it depends on is indexed by  *)
(* the handler or set at the start.                                        *)
(***************************************************************************)
UncountedEvents ==
    {"authorize_forbidden", "authorize_rejected", "authorize_approved",
     "register_rejected", "client_registered",
     "anonymous_proxy_rejected", "anonymous_proxy_allowed", "proxy_rejected"}

Events == UncountedEvents \cup {"proxy_hit", "proxy_error"}

Entry == [event : Events, request_id : Ids \cup {NoId}]

SubPaths == {<<>>} \cup {Tail(cleanPath(q)) : q \in McpRequests}

Sent == [subPath : SubPaths, request_id : Ids \cup {NoId}, body : Seq(Messages)]

Context == [request_id : Ids \cup {NoId}, client_request_id : Ids \cup {NoId},
            subPath : SubPaths, toolsList : BOOLEAN]

Bodies == [read : Seq(Messages), left : Seq(Messages)]

FrontTypes ==
    /\ setting \in Settings /\ enabled \in BOOLEAN
    /\ valid \subseteq Tokens /\ drawn \subseteq Ids
    /\ pc \in [Handlers -> {"idle", "routed", "inspected", "proxy", "backend", "done"} \cup Serving]
    /\ request \in [Handlers -> Requests \cup {NoRequest}]
    /\ ctx \in [Handlers -> Context]
    /\ body \in [Handlers -> Bodies]
    /\ response \in [Handlers -> BackendResponses \cup {NoResponse}]
    /\ shown \in [Handlers -> SUBSET ToolNames]
    /\ DOMAIN answer = Handlers
    /\ entries \in [Handlers -> Seq(Entry)]
    /\ received \in [Handlers -> Seq(Sent)]

AsksForList(h) == \E i \in DOMAIN request[h].body : request[h].body[i].method = "tools/list"

\* A body that may go to the backend for a request.
Whole(q, sent) ==
    \/ sent = q.body
    \/ /\ ~Anonymous(q) /\ q.upload = "broken" /\ Len(sent) <= Len(q.body)
       /\ \A i \in 1..Len(sent) : sent[i] = q.body[i]

\* Where the body of the request is before it is sent.
Upload(h) ==
    /\ pc[h] = "routed" /\ request[h].to = "mcp" => body[h].left = request[h].body
    /\ pc[h] = "inspected" =>
          /\ request[h] \in McpRequests /\ Anonymous(request[h]) /\ enabled
          /\ request[h].upload = "whole" /\ body[h].read = request[h].body
    /\ pc[h] = "proxy" =>
          /\ Anonymous(request[h]) => request[h].upload = "whole"
          /\ body[h].left = request[h].body
    /\ pc[h] = "backend" => body[h].left = <<>>

\* How far the exchange with the backend has come.
Exchange(h) ==
    /\ pc[h] \notin Serving => response[h] = NoResponse
    /\ pc[h] \in {"idle", "routed", "inspected", "proxy"} => received[h] = <<>>
    /\ pc[h] \in {"proxy", "backend"} \cup Serving =>
          /\ request[h] \in McpRequests
          /\ ctx[h].toolsList <=> Anonymous(request[h]) /\ AsksForList(h)
    /\ pc[h] \in {"backend", "modify", "copy", "aborted"} => received[h] # <<>>
    /\ pc[h] = "hit" => received[h] # <<>> \/ answer[h].status = 502
    /\ received[h] # <<>> => request[h] \in McpRequests
    /\ \A i \in DOMAIN received[h] : Whole(request[h], received[h][i].body)
    /\ pc[h] \in {"modify", "copy"} =>
          /\ response[h] \in BackendResponses
          /\ response[h].tools # {} => AsksForList(h)
    /\ pc[h] = "copy" =>
          shown[h] = IF ctx[h].toolsList
                     THEN filterAnonymousToolsList(response[h], publicTools)
                     ELSE response[h].tools

\* Number of the request, in all that leaves it.
Number(h) ==
    /\ pc[h] = "idle" => entries[h] = <<>>
    /\ pc[h] # "idle" => request[h] \in Requests /\ ctx[h].request_id \in drawn
    /\ \A i \in DOMAIN entries[h] : entries[h][i].request_id = ctx[h].request_id
    /\ \A i \in DOMAIN received[h] : received[h][i].request_id = ctx[h].request_id

\* What was written and counted.
Account(h) ==
    /\ pc[h] # "done" => "proxy_hit" \notin events(h)
    /\ pc[h] \notin {"hit", "done"} => "proxy_error" \notin events(h)
    /\ pc[h] \in {"hit", "done"} => (answer[h].status = 502 <=> "proxy_error" \in events(h))
    /\ pc[h] = "done" =>
          ("proxy_hit" \in events(h) <=> received[h] # <<>> \/ answer[h].status = 502)

\* An answer that leaves the server, by the kind of the request.
Settles(q, reply) ==
    /\ q.to = "authorize" => reply = HandleAuthorize(q)
    /\ q.to = "register" => reply = HandleRegister(q)
    /\ q.to = "mcp" => reply.location = {}

\* No answer is there early, and no redirection from the backend.
Outcome(h) ==
    /\ pc[h] \in {"idle", "routed", "inspected"} => answer[h] = NoAnswer
    /\ pc[h] \in {"proxy", "backend"} \cup Serving => answer[h].location = {}
    /\ pc[h] = "done" => Settles(request[h], answer[h])

About(h) == Upload(h) /\ Exchange(h) /\ Number(h) /\ Account(h) /\ Outcome(h)

NumbersDiffer ==
    \A g, h \in Handlers :
        g # h /\ pc[g] # "idle" /\ pc[h] # "idle"
            => ctx[g].request_id # ctx[h].request_id

Counted(event) == Cardinality({h \in Handlers : event \in events(h)})

Counts ==
    /\ proxyRequestsTotal = Counted("proxy_hit")
    /\ proxyErrorsTotal = Counted("proxy_error")

FrontInv ==
    FrontTypes /\ (\A h \in Handlers : About(h)) /\ NumbersDiffer /\ Counts

-----------------------------------------------------------------------------
(***************************************************************************)
(* What an audit call adds, and what it counts.                            *)
(***************************************************************************)
LEMMA Audited ==
    ASSUME FrontTypes, NEW h \in Handlers, NEW ev \in Seq(Events), auditLog(h, ev),
           \A i \in DOMAIN entries[h] : entries[h][i].request_id = ctx[h].request_id
    PROVE  /\ entries' \in [Handlers -> Seq(Entry)]
           /\ \A g \in Handlers \ {h} : entries'[g] = entries[g]
           /\ \A i \in DOMAIN entries'[h] :
                 entries'[h][i].request_id = ctx[h].request_id
           /\ events(h)' = events(h) \cup {ev[i] : i \in DOMAIN ev}
<1> DEFINE e == entries[h]
           new == [i \in DOMAIN ev |-> [event |-> ev[i], request_id |-> ctx[h].request_id]]
<1>1. DOMAIN ev = 1..Len(ev) /\ Len(ev) \in Nat /\ \A i \in 1..Len(ev) : ev[i] \in Events
  OBVIOUS
<1>2. ctx[h].request_id \in Ids \cup {NoId}
  BY DEF FrontTypes, Context
<1>3. new \in Seq(Entry) /\ Len(new) = Len(ev) /\ DOMAIN new = 1..Len(ev)
  <2>1. new \in [1..Len(ev) -> Entry]
    BY <1>1, <1>2 DEF Entry
  <2> QED
    BY <1>1, <2>1
<1>4. \A i \in 1..Len(ev) : new[i].event = ev[i] /\ new[i].request_id = ctx[h].request_id
  BY <1>1
<1>5. e \in Seq(Entry) /\ DOMAIN e = 1..Len(e) /\ Len(e) \in Nat
  BY DEF FrontTypes
<1>6. entries' = [entries EXCEPT ![h] = e \o new]
  BY DEF auditLog
<1>7. entries'[h] = e \o new /\ \A g \in Handlers \ {h} : entries'[g] = entries[g]
  BY <1>6 DEF FrontTypes
<1> HIDE DEF new, e
<1>8. /\ e \o new \in Seq(Entry)
      /\ Len(e \o new) = Len(e) + Len(ev)
      /\ \A i \in 1..Len(e) + Len(ev) :
            (e \o new)[i] = IF i <= Len(e) THEN e[i] ELSE new[i - Len(e)]
  <2>1. /\ e \o new \in Seq(Entry)
        /\ Len(e \o new) = Len(e) + Len(new)
        /\ \A i \in 1..Len(e) + Len(new) :
              (e \o new)[i] = IF i <= Len(e) THEN e[i] ELSE new[i - Len(e)]
    <3> HIDE DEF Entry
    <3> QED
      BY ONLY <1>3, <1>5, ConcatProperties
  <2> QED
    BY <2>1, <1>3
<1>9. entries' \in [Handlers -> Seq(Entry)]
  BY <1>6, <1>8 DEF FrontTypes
<1>10. DOMAIN (e \o new) = 1..Len(e) + Len(ev)
  BY <1>8
<1>11. \A i \in DOMAIN (e \o new) : (e \o new)[i].request_id = ctx[h].request_id
  <2> SUFFICES ASSUME NEW i \in 1..Len(e) + Len(ev)
               PROVE  (e \o new)[i].request_id = ctx[h].request_id
    BY <1>10
  <2>1. CASE i <= Len(e)
    BY <2>1, <1>5, <1>8 DEF e
  <2>2. CASE ~(i <= Len(e))
    <3>1. i - Len(e) \in 1..Len(ev)
      BY <2>2, <1>1, <1>5
    <3> QED
      BY <2>2, <3>1, <1>4, <1>8
  <2> QED
    BY <2>1, <2>2
<1>12. {(e \o new)[i].event : i \in DOMAIN (e \o new)} =
           {e[i].event : i \in DOMAIN e} \cup {ev[i] : i \in DOMAIN ev}
  <2>1. ASSUME NEW i \in 1..Len(e) + Len(ev)
        PROVE  \/ \E j \in 1..Len(e) : (e \o new)[i].event = e[j].event
               \/ \E j \in 1..Len(ev) : (e \o new)[i].event = ev[j]
    <3>1. CASE i <= Len(e)
      BY <3>1, <1>5, <1>8
    <3>2. CASE ~(i <= Len(e))
      <4>1. i - Len(e) \in 1..Len(ev)
        BY <3>2, <1>1, <1>5
      <4> QED
        BY <3>2, <4>1, <1>4, <1>8
    <3> QED
      BY <3>1, <3>2
  <2>2. ASSUME NEW j \in 1..Len(e)
        PROVE  j \in 1..Len(e) + Len(ev) /\ (e \o new)[j].event = e[j].event
    BY <1>1, <1>5, <1>8
  <2>3. ASSUME NEW j \in 1..Len(ev)
        PROVE  \E i \in 1..Len(e) + Len(ev) : (e \o new)[i].event = ev[j]
    <3>1. /\ Len(e) + j \in 1..Len(e) + Len(ev) /\ ~(Len(e) + j <= Len(e))
          /\ Len(e) + j - Len(e) = j
      BY <1>1, <1>5
    <3>2. (e \o new)[Len(e) + j] = new[j]
      BY <3>1, <1>8
    <3> QED
      BY <3>1, <3>2, <1>4
  <2> DEFINE lhs == {(e \o new)[i].event : i \in DOMAIN (e \o new)}
             old == {e[i].event : i \in DOMAIN e}
             added == {ev[i] : i \in DOMAIN ev}
  <2>4. \A x \in lhs : x \in old \cup added
    BY <2>1, <1>1, <1>5, <1>10
  <2>5. \A x \in old : x \in lhs
    BY <2>2, <1>5, <1>10
  <2>6. \A x \in added : x \in lhs
    BY <2>3, <1>1, <1>10
  <2> QED
    BY <2>4, <2>5, <2>6
<1> QED
  BY <1>7, <1>9, <1>11, <1>12 DEF e, events

\* Entries of which no counter is kept.
Uncounted == Seq(UncountedEvents)

LEMMA UncountedFacts ==
    ASSUME NEW ev \in Uncounted
    PROVE  /\ ev \in Seq(Events)
           /\ "proxy_hit" \notin {ev[i] : i \in DOMAIN ev}
           /\ "proxy_error" \notin {ev[i] : i \in DOMAIN ev}
<1>1. UncountedEvents \subseteq Events
  BY DEF Events
<1>2. ev \in Seq(Events)
  BY <1>1 DEF Uncounted
<1>3. \A i \in DOMAIN ev : ev[i] \in UncountedEvents
  BY DEF Uncounted
<1>4. \A x \in UncountedEvents : x # "proxy_hit" /\ x # "proxy_error"
  BY DEF UncountedEvents
<1> QED
  BY <1>2, <1>3, <1>4

LEMMA UncountedEmpty == <<>> \in Uncounted
  BY DEF Uncounted

LEMMA UncountedOne == \A x \in UncountedEvents : <<x>> \in Uncounted
  BY DEF Uncounted

LEMMA UncountedAppend ==
    ASSUME NEW ev \in Uncounted, NEW x \in UncountedEvents
    PROVE  Append(ev, x) \in Uncounted
  BY DEF Uncounted

LEMMA CountKept ==
    ASSUME NEW x, \A g \in Handlers : x \in events(g)' <=> x \in events(g)
    PROVE  Counted(x)' = Counted(x)
<1>1. {g \in Handlers : x \in events(g)}' = {g \in Handlers : x \in events(g)}
  OBVIOUS
<1> QED
  BY <1>1 DEF Counted

LEMMA CountRaised ==
    ASSUME NEW x, NEW h \in Handlers, x \notin events(h), x \in events(h)',
           \A g \in Handlers \ {h} : x \in events(g)' <=> x \in events(g)
    PROVE  Counted(x)' = Counted(x) + 1
<1> DEFINE S == {g \in Handlers : x \in events(g)}
<1>1. S' = S \cup {h} /\ h \notin S
  OBVIOUS
<1>2. IsFiniteSet(S)
  <2>1. S \in SUBSET Handlers
    OBVIOUS
  <2> QED
    BY <2>1, FS_Subset, HttpFrontAssumption
<1> HIDE DEF S
<1>3. Cardinality(S \cup {h}) = Cardinality(S) + 1
  BY <1>1, <1>2, FS_AddElement
<1>4. Cardinality(S') = Cardinality(S) + 1
  BY <1>1, <1>3
<1> QED
  BY <1>4 DEF Counted, S

-----------------------------------------------------------------------------
(***************************************************************************)
(* A step of h leaves what is known of the other handlers alone.           *)
(***************************************************************************)
Same(g) ==
    /\ pc'[g] = pc[g] /\ request'[g] = request[g] /\ ctx'[g] = ctx[g]
    /\ body'[g] = body[g]
    /\ response'[g] = response[g] /\ shown'[g] = shown[g] /\ answer'[g] = answer[g]
    /\ entries'[g] = entries[g] /\ received'[g] = received[g]

LEMMA SameAbout ==
    ASSUME NEW g \in Handlers, Same(g), About(g), UNCHANGED config, drawn \subseteq drawn'
    PROVE  About(g)' /\ events(g)' = events(g)
<1>1. publicTools' = publicTools /\ enabled' = enabled
  BY DEF publicTools, config
<1>2. events(g)' = events(g)
  BY DEF Same, events
<1>3. AsksForList(g)' <=> AsksForList(g)
  BY DEF Same, AsksForList
<1>4. Exchange(g)'
  BY <1>1, <1>3 DEF About, Exchange, Same
<1>8. Upload(g)'
  BY <1>1 DEF About, Upload, Same
<1>5. Number(g)'
  BY DEF About, Number, Same
<1>6. Account(g)'
  BY <1>2 DEF About, Account, Same
<1>7. Outcome(g)'
  BY DEF About, Outcome, Same, Settles
<1> QED
  BY <1>2, <1>4, <1>5, <1>6, <1>7, <1>8 DEF About

LEMMA NextOf ==
    ASSUME FrontInv, NEW h \in Handlers, \A g \in Handlers \ {h} : Same(g),
           UNCHANGED config, drawn' = drawn, pc[h] # "idle",
           ctx'[h].request_id = ctx[h].request_id,
           FrontTypes', About(h)', Counts'
    PROVE  FrontInv'
<1>1. \A g \in Handlers : About(g)'
  BY SameAbout DEF FrontInv
<1>2. NumbersDiffer'
  <2> SUFFICES ASSUME NEW f \in Handlers, NEW g \in Handlers, f # g,
                      pc'[f] # "idle", pc'[g] # "idle"
               PROVE  ctx'[f].request_id # ctx'[g].request_id
    BY DEF NumbersDiffer
  <2>1. \A k \in {f, g} : pc[k] # "idle" /\ ctx'[k].request_id = ctx[k].request_id
    BY DEF Same
  <2> QED
    BY <2>1 DEF FrontInv, NumbersDiffer
<1> QED
  BY <1>1, <1>2 DEF FrontInv

\* Nothing that is counted was written.
LEMMA NothingCounted ==
    ASSUME FrontInv, NEW h \in Handlers, \A g \in Handlers \ {h} : Same(g),
           "proxy_hit" \in events(h)' <=> "proxy_hit" \in events(h),
           "proxy_error" \in events(h)' <=> "proxy_error" \in events(h),
           UNCHANGED counters
    PROVE  Counts'
<1>1. \A g \in Handlers \ {h} : events(g)' = events(g)
  BY DEF Same, events
<1>2. /\ \A g \in Handlers : "proxy_hit" \in events(g)' <=> "proxy_hit" \in events(g)
      /\ \A g \in Handlers : "proxy_error" \in events(g)' <=> "proxy_error" \in events(g)
  BY <1>1
<1>3. Counted("proxy_hit")' = Counted("proxy_hit")
  BY <1>2, CountKept
<1>4. Counted("proxy_error")' = Counted("proxy_error")
  BY <1>2, CountKept
<1> QED
  BY <1>3, <1>4 DEF FrontInv, Counts, counters

-----------------------------------------------------------------------------
(***************************************************************************)
(* The steps.                                                              *)
(***************************************************************************)
LEMMA FrontInit == Init => FrontInv
<1> SUFFICES ASSUME Init PROVE FrontInv
  OBVIOUS
<1>1. FrontTypes
  BY DEF Init, FrontTypes, Context, WithRequestID, Requests, SubPaths, Bodies, NoBody
<1>2. \A h \in Handlers : events(h) = {} /\ entries[h] = <<>> /\ received[h] = <<>>
  BY DEF Init, events
<1>3. \A h \in Handlers : About(h)
  BY <1>2 DEF Init, About, Upload, Exchange, Number, Account, Outcome, Serving
<1>4. NumbersDiffer
  BY DEF Init, NumbersDiffer
<1>5. \A x : {h \in Handlers : x \in events(h)} = {}
  BY <1>2
<1>6. Counts
  BY <1>5, FS_EmptySet DEF Init, Counts, Counted
<1> QED
  BY <1>1, <1>3, <1>4, <1>6 DEF FrontInv

LEMMA TokensInv == ASSUME FrontInv, TokensChange PROVE FrontInv'
<1> USE DEF TokensChange, config, passing, exchange, counters
<1>1. FrontTypes'
  BY DEF FrontInv, FrontTypes
<1>2. \A g \in Handlers : Same(g)
  BY DEF Same
<1>3. \A g \in Handlers : About(g)' /\ events(g)' = events(g)
  BY <1>2, SameAbout DEF FrontInv
<1>4. NumbersDiffer'
  BY DEF FrontInv, NumbersDiffer
<1>5. Counts'
  <2>1. \A x : Counted(x)' = Counted(x)
    BY <1>3, CountKept
  <2> QED
    BY <2>1 DEF FrontInv, Counts
<1> QED
  BY <1>1, <1>3, <1>4, <1>5 DEF FrontInv

LEMMA NumberedInv ==
    ASSUME FrontInv, NEW h \in Handlers, NEW q \in Requests, RequestIDMiddleware(h, q)
    PROVE  FrontInv'
<1> USE DEF RequestIDMiddleware, config, exchange, counters
<1>1. PICK id \in Ids \ drawn : /\ drawn' = drawn \cup {id}
                                /\ ctx' = [ctx EXCEPT ![h] = WithRequestID(id, q.clientID)]
  OBVIOUS
<1>2. /\ q.clientID \in Ids \cup {NoId}
      /\ q.to = "mcp" => q.body \in Seq(Messages)
  BY HttpFrontAssumption DEF Requests
<1>3. FrontTypes'
  <2>1. WithRequestID(id, q.clientID) \in Context
    BY <1>2 DEF WithRequestID, Context, SubPaths
  <2>2. body' \in [Handlers -> Bodies]
    <3>1. PICK left : left = IF q.to = "mcp" THEN q.body ELSE <<>>
      OBVIOUS
    <3>2. left \in Seq(Messages)
      <4>1. CASE q.to = "mcp"
        BY <1>2, <3>1, <4>1
      <4>2. CASE q.to # "mcp"
        BY <3>1, <4>2
      <4> QED
        BY <4>1, <4>2
    <3>3. body' = [body EXCEPT ![h].left = left]
      BY <3>1
    <3>4. [body[h] EXCEPT !.left = left] \in Bodies
      <4>1. PICK b : b = body[h]
        OBVIOUS
      <4>2. b \in Bodies
        BY <4>1 DEF FrontInv, FrontTypes
      <4>3. [b EXCEPT !.left = left] \in Bodies
        BY <3>2, <4>2 DEF Bodies
      <4> QED
        BY <4>1, <4>3
    <3> QED
      BY <3>3, <3>4 DEF FrontInv, FrontTypes
  <2> QED
    BY <1>1, <2>1, <2>2 DEF FrontInv, FrontTypes
<1>4. \A g \in Handlers \ {h} : Same(g)
  BY <1>1 DEF FrontInv, FrontTypes, Same
<1>5. \A g \in Handlers \ {h} : About(g)' /\ events(g)' = events(g)
  BY <1>1, <1>4, SameAbout DEF FrontInv
<1>6. /\ pc'[h] = "routed" /\ request'[h] = q /\ ctx'[h].request_id = id
      /\ entries'[h] = <<>> /\ received'[h] = <<>> /\ events(h)' = events(h)
  BY <1>1 DEF FrontInv, FrontTypes, About, Exchange, Number, events, WithRequestID
<1>7. About(h)'
  <2>1. Upload(h)'
    BY <1>1, <1>6 DEF FrontInv, FrontTypes, Bodies, Upload
  <2> QED
    BY <1>1, <1>6, <2>1 DEF FrontInv, About, Exchange, Number, Account, Outcome, Serving
<1>8. NumbersDiffer'
  <2>1. \A g \in Handlers \ {h} : pc'[g] # "idle" =>
            pc[g] # "idle" /\ ctx'[g].request_id = ctx[g].request_id /\ ctx'[g].request_id # id
    BY <1>1, <1>4 DEF FrontInv, About, Number, Same
  <2> QED
    BY <1>6, <2>1 DEF FrontInv, NumbersDiffer
<1>9. Counts'
  <2>1. \A x : Counted(x)' = Counted(x)
    BY <1>5, <1>6, CountKept
  <2> QED
    BY <2>1 DEF FrontInv, Counts
<1> QED
  BY <1>3, <1>5, <1>7, <1>8, <1>9 DEF FrontInv

\* A handler is done with an answer that is not of the backend.
LEMMA RepliedInv ==
    ASSUME FrontInv, NEW h \in Handlers, NEW reply, NEW ev \in Uncounted,
           pc[h] \in {"routed", "inspected"}, Reply(h, reply), reply.status # 502,
           Settles(request[h], reply), auditLog(h, ev),
           body' \in [Handlers -> Bodies], \A g \in Handlers \ {h} : body'[g] = body[g],
           UNCHANGED <<config, valid, request, ctx, drawn, exchange, counters>>
    PROVE  FrontInv'
<1> USE DEF Reply, config, exchange, counters
<1>0. /\ ev \in Seq(Events)
      /\ "proxy_hit" \notin {ev[i] : i \in DOMAIN ev}
      /\ "proxy_error" \notin {ev[i] : i \in DOMAIN ev}
  BY UncountedFacts
<1>1. /\ entries' \in [Handlers -> Seq(Entry)]
      /\ \A g \in Handlers \ {h} : entries'[g] = entries[g]
      /\ \A i \in DOMAIN entries'[h] : entries'[h][i].request_id = ctx[h].request_id
      /\ events(h)' = events(h) \cup {ev[i] : i \in DOMAIN ev}
  BY <1>0, Audited DEF FrontInv, About, Number
<1>2. FrontTypes'
  BY <1>1 DEF FrontInv, FrontTypes
<1>3. \A g \in Handlers \ {h} : Same(g)
  BY <1>1 DEF FrontInv, FrontTypes, Same
<1>4. pc'[h] = "done" /\ answer'[h] = reply
  BY DEF FrontInv, FrontTypes
<1>5. About(h)'
  <2>1. "proxy_hit" \notin events(h)' /\ "proxy_error" \notin events(h)'
    BY <1>0, <1>1 DEF FrontInv, About, Account
  <2>2. Account(h)'
    BY <1>4, <2>1 DEF FrontInv, About, Exchange, Account
  <2>3. Exchange(h)'
    BY <1>4 DEF FrontInv, About, Exchange, Serving
  <2>4. Number(h)'
    BY <1>1, <1>4 DEF FrontInv, About, Number
  <2>5. Outcome(h)'
    BY <1>4 DEF Outcome, Settles, Serving
  <2> QED
    BY <2>2, <2>3, <2>4, <2>5, <1>4 DEF About, Upload
<1>6. Counts'
  <2>1. /\ "proxy_hit" \in events(h)' <=> "proxy_hit" \in events(h)
        /\ "proxy_error" \in events(h)' <=> "proxy_error" \in events(h)
    BY <1>0, <1>1
  <2>2. UNCHANGED counters
    BY DEF counters
  <2> HIDE DEF counters
  <2> QED
    BY <1>3, <2>1, <2>2, NothingCounted
<1> QED
  BY <1>2, <1>3, <1>5, <1>6, NextOf

LEMMA AuthorizeInv ==
    ASSUME FrontInv, NEW h \in Handlers, ServeAuthorize(h) PROVE FrontInv'
<1> DEFINE reply == HandleAuthorize(request[h])
           ev == CASE reply.status = 405 -> <<>>
                   [] reply.status = 403 -> <<"authorize_forbidden">>
                   [] reply.error # "none" -> <<"authorize_rejected">>
                   [] OTHER -> <<"authorize_approved">>
<1>1. reply.status # 502
  BY DEF HandleAuthorize, Direct, Redirect
<1>2. ev \in {<<>>, <<"authorize_forbidden">>, <<"authorize_rejected">>, <<"authorize_approved">>}
  OBVIOUS
<1>3. ev \in Uncounted
  BY <1>2, UncountedEmpty, UncountedOne DEF UncountedEvents
<1>4. /\ pc[h] = "routed" /\ Reply(h, reply) /\ auditLog(h, ev)
      /\ UNCHANGED <<config, valid, request, ctx, drawn, exchange, counters>>
      /\ UNCHANGED body
  BY DEF ServeAuthorize, passing
<1>5. Settles(request[h], reply)
  BY DEF ServeAuthorize, Settles
<1>6. body' \in [Handlers -> Bodies] /\ \A g \in Handlers \ {h} : body'[g] = body[g]
  BY <1>4 DEF FrontInv, FrontTypes
<1> QED
  BY <1>1, <1>3, <1>4, <1>5, <1>6, RepliedInv

LEMMA RegisterInv ==
    ASSUME FrontInv, NEW h \in Handlers, ServeRegister(h) PROVE FrontInv'
<1> DEFINE reply == HandleRegister(request[h])
           ev == CASE reply.error = "invalid_redirect_uri" -> <<"register_rejected">>
                   [] reply.error = "none" -> <<"client_registered">>
                   [] OTHER -> <<>>
<1>1. reply.status # 502
  BY DEF HandleRegister, Direct
<1>2. ev \in {<<>>, <<"register_rejected">>, <<"client_registered">>}
  OBVIOUS
<1>3. ev \in Uncounted
  BY <1>2, UncountedEmpty, UncountedOne DEF UncountedEvents
<1>4. /\ pc[h] = "routed" /\ Reply(h, reply) /\ auditLog(h, ev)
      /\ UNCHANGED <<config, valid, request, ctx, drawn, exchange, counters>>
      /\ UNCHANGED body
  BY DEF ServeRegister, passing
<1>5. Settles(request[h], reply)
  BY DEF ServeRegister, Settles
<1>6. body' \in [Handlers -> Bodies] /\ \A g \in Handlers \ {h} : body'[g] = body[g]
  BY <1>4 DEF FrontInv, FrontTypes
<1> QED
  BY <1>1, <1>3, <1>4, <1>5, <1>6, RepliedInv

\* A request is given to the reverse proxy.
LEMMA ForwardInv ==
    ASSUME FrontInv, NEW h \in Handlers, NEW ev \in Uncounted, NEW toolsList \in BOOLEAN,
           pc[h] \in {"routed", "inspected"}, request[h] \in McpRequests,
           toolsList <=> Anonymous(request[h]) /\ AsksForList(h),
           Forward(h, toolsList), auditLog(h, ev),
           body' \in [Handlers -> Bodies], \A g \in Handlers \ {h} : body'[g] = body[g],
           body'[h].left = request[h].body,
           Anonymous(request[h]) => request[h].upload = "whole",
           UNCHANGED <<config, valid, request, drawn, exchange, counters>>
    PROVE  FrontInv'
<1> USE DEF Forward, config, exchange, counters
<1> DEFINE q == request[h]
<1>0. /\ ev \in Seq(Events)
      /\ "proxy_hit" \notin {ev[i] : i \in DOMAIN ev}
      /\ "proxy_error" \notin {ev[i] : i \in DOMAIN ev}
  BY UncountedFacts
<1>1. /\ entries' \in [Handlers -> Seq(Entry)]
      /\ \A g \in Handlers \ {h} : entries'[g] = entries[g]
      /\ \A i \in DOMAIN entries'[h] : entries'[h][i].request_id = ctx[h].request_id
      /\ events(h)' = events(h) \cup {ev[i] : i \in DOMAIN ev}
  BY <1>0, Audited DEF FrontInv, About, Number
<1>3. Tail(cleanPath(q)) \in SubPaths
  BY DEF SubPaths
<1>4. /\ ctx' \in [Handlers -> Context] /\ ctx'[h].request_id = ctx[h].request_id
      /\ ctx'[h].toolsList = toolsList
      /\ \A g \in Handlers \ {h} : ctx'[g] = ctx[g]
  <2> DEFINE sub == Tail(cleanPath(q))
             c == [ctx[h] EXCEPT !.subPath = sub, !.toolsList = toolsList]
  <2>1. ctx' = [ctx EXCEPT ![h] = c]
    BY DEF FrontInv, FrontTypes, Context
  <2>3. ctx[h] \in Context
    BY DEF FrontInv, FrontTypes
  <2>2. sub \in SubPaths
    BY <1>3
  <2> HIDE DEF sub
  <2>4. c \in Context /\ c.request_id = ctx[h].request_id /\ c.toolsList = toolsList
    BY <2>2, <2>3 DEF Context
  <2> HIDE DEF c
  <2>5. ctx'[h] = c /\ ctx' \in [Handlers -> Context] /\ \A g \in Handlers \ {h} : ctx'[g] = ctx[g]
    <3>1. ctx \in [Handlers -> Context]
      BY DEF FrontInv, FrontTypes
    <3> QED
      BY <2>1, <2>4, <3>1
  <2> QED
    BY <2>4, <2>5
<1>5. FrontTypes'
  BY <1>1, <1>4 DEF FrontInv, FrontTypes
<1>6. \A g \in Handlers \ {h} : Same(g)
  BY <1>1, <1>4 DEF FrontInv, FrontTypes, Same
<1>7. pc'[h] = "proxy"
  BY DEF FrontInv, FrontTypes
<1>8. About(h)'
  <2>1. "proxy_hit" \notin events(h)' /\ "proxy_error" \notin events(h)'
    BY <1>0, <1>1 DEF FrontInv, About, Account
  <2>2. Account(h)'
    BY <1>7, <2>1 DEF Account
  <2>3. Exchange(h)'
    BY <1>4, <1>7 DEF FrontInv, About, Exchange, Serving, AsksForList
  <2>4. Number(h)'
    BY <1>1, <1>4, <1>7 DEF FrontInv, About, Number
  <2>5. Outcome(h)'
    BY <1>7 DEF FrontInv, About, Outcome, NoAnswer, Direct
  <2> QED
    BY <2>2, <2>3, <2>4, <2>5, <1>7 DEF About, Upload
<1>9. Counts'
  <2>1. /\ "proxy_hit" \in events(h)' <=> "proxy_hit" \in events(h)
        /\ "proxy_error" \in events(h)' <=> "proxy_error" \in events(h)
    BY <1>0, <1>1
  <2>2. UNCHANGED counters
    BY DEF counters
  <2> HIDE DEF counters
  <2> QED
    BY <1>6, <2>1, <2>2, NothingCounted
<1> QED
  BY <1>4, <1>5, <1>6, <1>8, <1>9, NextOf

\* An answer without an audit entry.
LEMMA UnloggedInv ==
    ASSUME FrontInv, NEW h \in Handlers, NEW reply,
           pc[h] \in {"routed", "inspected"}, Reply(h, reply), reply.status # 502,
           Settles(request[h], reply), UNCHANGED entries,
           UNCHANGED <<config, valid, passing, exchange, counters>>
    PROVE  FrontInv'
<1> USE DEF Reply, config, passing, exchange, counters
<1>1. events(h)' = events(h)
  BY DEF events
<1>2. FrontTypes'
  BY DEF FrontInv, FrontTypes
<1>3. \A g \in Handlers \ {h} : Same(g)
  BY DEF FrontInv, FrontTypes, Same
<1>4. pc'[h] = "done" /\ answer'[h] = reply
  BY DEF FrontInv, FrontTypes
<1>5. Account(h)'
  BY <1>1, <1>4 DEF FrontInv, About, Exchange, Account
<1>6. Exchange(h)'
  BY <1>4 DEF FrontInv, About, Exchange, Serving
<1>7. Number(h)'
  BY <1>4 DEF FrontInv, About, Number
<1>8. Counts'
  <2>1. UNCHANGED counters
    BY DEF counters
  <2> HIDE DEF counters
  <2> QED
    BY <1>1, <1>3, <2>1, NothingCounted
<1>9. Outcome(h)'
  BY <1>4 DEF Outcome, Settles, Serving
<1>10. Upload(h)'
  BY <1>4 DEF Upload
<1> QED
  BY <1>2, <1>3, <1>5, <1>6, <1>7, <1>8, <1>9, <1>10, NextOf DEF About

\* The policy reads the body.
LEMMA ReadInv ==
    ASSUME FrontInv, NEW h \in Handlers, pc[h] = "routed", request[h].to = "mcp",
           Anonymous(request[h]), enabled, request[h].upload = "whole",
           body' = [body EXCEPT ![h] = [read |-> @.left, left |-> <<>>]],
           pc' = [pc EXCEPT ![h] = "inspected"],
           UNCHANGED <<config, valid, request, ctx, drawn, exchange, answer, entries, counters>>
    PROVE  FrontInv'
<1> USE DEF config, exchange, counters
<1>1. events(h)' = events(h)
  BY DEF events
<1>2. request[h] \in McpRequests
  <2>1. request[h] \in Requests
    BY DEF FrontInv, About, Number
  <2> QED
    BY <2>1, HttpFrontAssumption DEF Requests
<1>3. FrontTypes'
  <2>1. body' \in [Handlers -> Bodies]
    BY DEF FrontInv, FrontTypes, Bodies
  <2> QED
    BY <2>1 DEF FrontInv, FrontTypes
<1>4. \A g \in Handlers \ {h} : Same(g)
  BY DEF FrontInv, FrontTypes, Same
<1>5. pc'[h] = "inspected" /\ body'[h].read = request[h].body
  BY DEF FrontInv, FrontTypes, About, Upload
<1>6. Account(h)'
  BY <1>1, <1>5 DEF FrontInv, About, Account
<1>7. Exchange(h)'
  BY <1>5 DEF FrontInv, About, Exchange, Serving
<1>8. Number(h)'
  BY <1>5 DEF FrontInv, About, Number
<1>9. Outcome(h)'
  BY <1>5 DEF FrontInv, About, Outcome, Serving
<1>10. Upload(h)'
  BY <1>2, <1>5 DEF Upload
<1>11. Counts'
  <2>1. UNCHANGED counters
    BY DEF counters
  <2> HIDE DEF counters
  <2> QED
    BY <1>1, <1>4, <2>1, NothingCounted
<1> QED
  BY <1>3, <1>4, <1>6, <1>7, <1>8, <1>9, <1>10, <1>11, NextOf DEF About

LEMMA RouteInv ==
    ASSUME FrontInv, NEW h \in Handlers, NEW allowed \in Uncounted, NEW toolsList \in BOOLEAN,
           pc[h] \in {"routed", "inspected"}, request[h] \in McpRequests,
           toolsList <=> Anonymous(request[h]) /\ AsksForList(h),
           Route(h, allowed, toolsList),
           body' \in [Handlers -> Bodies], \A g \in Handlers \ {h} : body'[g] = body[g],
           body'[h].left = request[h].body,
           Anonymous(request[h]) => request[h].upload = "whole",
           UNCHANGED <<config, valid, request, drawn, exchange, counters>>
    PROVE  FrontInv'
<1>1. ASSUME NEW reply \in {Direct(400, "malformed_path"), Direct(404, "invalid_path")},
             Reply(h, reply), auditLog(h, Append(allowed, "proxy_rejected")), UNCHANGED ctx
      PROVE  FrontInv'
  <2>1. Append(allowed, "proxy_rejected") \in Uncounted
    BY UncountedAppend DEF UncountedEvents
  <2>2. UNCHANGED <<config, valid, request, ctx, drawn, exchange, counters>>
    BY <1>1
  <2>3. request[h].to = "mcp"
    BY HttpFrontAssumption
  <2>4. reply.status # 502 /\ Settles(request[h], reply)
    BY <2>3 DEF Direct, Settles
  <2> QED
    BY <1>1, <2>1, <2>2, <2>4, RepliedInv
<1>2. CASE Forward(h, toolsList) /\ auditLog(h, allowed)
  BY <1>2, ForwardInv
<1> QED
  BY <1>1, <1>2 DEF Route

LEMMA HandleProxyInv ==
    ASSUME FrontInv, NEW h \in Handlers, HandleProxy(h) PROVE FrontInv'
<1> DEFINE q == request[h]
<1>1. /\ pc[h] = "routed" /\ q.to = "mcp"
      /\ UNCHANGED <<config, valid, request, drawn, exchange, counters>>
  BY DEF HandleProxy
<1>2. q \in McpRequests
  <2>1. q \in Requests
    BY <1>1 DEF FrontInv, About, Number
  <2> QED
    BY <1>1, <2>1, HttpFrontAssumption DEF Requests
<1>3. CASE Reply(h, Direct(401, "unauthorized")) /\ UNCHANGED <<ctx, body, entries>>
  <2>1. UNCHANGED <<config, valid, passing, exchange, counters>>
    BY <1>1, <1>3 DEF passing
  <2> QED
    BY <1>1, <1>3, <2>1, UnloggedInv DEF Direct, Settles
<1>4. CASE ~Unauthorized(q) /\ Anonymous(q) /\ ReadBody(h)
  <2>1. CASE /\ q.upload = "whole"
             /\ body' = [body EXCEPT ![h] = [read |-> @.left, left |-> <<>>]]
             /\ pc' = [pc EXCEPT ![h] = "inspected"]
             /\ UNCHANGED <<ctx, answer, entries>>
    <3>1. enabled
      BY <1>4 DEF Unauthorized
    <3>2. UNCHANGED <<config, valid, request, ctx, drawn, exchange, answer, entries, counters>>
      BY <1>1, <2>1
    <3> QED
      BY <1>1, <1>4, <2>1, <3>1, <3>2, ReadInv
  <2>2. ASSUME NEW reply, reply.status # 502, reply.location = {}, Reply(h, reply),
               auditLog(h, <<"anonymous_proxy_rejected">>), UNCHANGED <<body, ctx>>
        PROVE  FrontInv'
    <3>1. UNCHANGED <<config, valid, request, ctx, drawn, exchange, counters>>
      BY <1>1, <2>2
    <3>2. <<"anonymous_proxy_rejected">> \in Uncounted
      BY UncountedOne DEF UncountedEvents
    <3>3. Settles(q, reply)
      BY <1>1, <2>2 DEF Settles
    <3>4. body' \in [Handlers -> Bodies] /\ \A g \in Handlers \ {h} : body'[g] = body[g]
      BY <2>2 DEF FrontInv, FrontTypes
    <3> QED
      BY <1>1, <2>2, <3>1, <3>2, <3>3, <3>4, RepliedInv
  <2>3. CASE q.verb = "POST" /\ q.upload = "whole"
    BY <1>4, <2>1, <2>3 DEF ReadBody, NoAnswer
  <2>4. CASE q.verb # "POST"
    BY <1>4, <2>2, <2>4 DEF ReadBody, Direct, NoAnswer
  <2>5. CASE q.verb = "POST" /\ q.upload # "whole"
    BY <1>4, <2>2, <2>5 DEF ReadBody, Direct, NoAnswer
  <2> QED
    BY <2>3, <2>4, <2>5
<1>5. CASE ~Unauthorized(q) /\ ~Anonymous(q) /\ Route(h, <<>>, FALSE) /\ UNCHANGED body
  <2>1. /\ body' \in [Handlers -> Bodies] /\ \A g \in Handlers \ {h} : body'[g] = body[g]
        /\ body'[h].left = q.body
    BY <1>1, <1>5 DEF FrontInv, FrontTypes, About, Upload
  <2>2. FALSE \in BOOLEAN /\ (FALSE <=> Anonymous(q) /\ AsksForList(h))
    BY <1>5
  <2> QED
    BY <1>1, <1>2, <1>5, <2>1, <2>2, UncountedEmpty, RouteInv
<1> QED
  BY <1>3, <1>4, <1>5 DEF HandleProxy

LEMMA InspectInv ==
    ASSUME FrontInv, NEW h \in Handlers, Inspect(h) PROVE FrontInv'
<1> DEFINE q == request[h]
           read == body[h].read
<1>1. /\ pc[h] = "inspected" /\ Judge(h)
      /\ body' = [body EXCEPT ![h] = [read |-> <<>>, left |-> @.read]]
      /\ UNCHANGED <<config, valid, request, drawn, exchange, counters>>
  BY DEF Inspect
<1>2. /\ q \in McpRequests /\ Anonymous(q) /\ q.upload = "whole"
      /\ read = q.body /\ q.to = "mcp"
  BY <1>1, HttpFrontAssumption DEF FrontInv, About, Upload
<1>3. /\ body' \in [Handlers -> Bodies] /\ \A g \in Handlers \ {h} : body'[g] = body[g]
      /\ body'[h].left = q.body
  BY <1>1, <1>2 DEF FrontInv, FrontTypes, Bodies
<1>4. CASE Route(h, <<"anonymous_proxy_allowed">>, containsToolsList(read))
  <2>1. /\ containsToolsList(read) \in BOOLEAN
        /\ containsToolsList(read) <=> Anonymous(q) /\ AsksForList(h)
    BY <1>2 DEF containsToolsList, AsksForList
  <2>2. <<"anonymous_proxy_allowed">> \in Uncounted
    BY UncountedOne DEF UncountedEvents
  <2> HIDE DEF read
  <2> QED
    BY <1>1, <1>2, <1>3, <1>4, <2>1, <2>2, RouteInv
<1>5. CASE /\ Reply(h, Direct(403, "not_allowed"))
           /\ auditLog(h, <<"anonymous_proxy_rejected">>) /\ UNCHANGED ctx
  <2>1. UNCHANGED <<config, valid, request, ctx, drawn, exchange, counters>>
    BY <1>1, <1>5
  <2>2. <<"anonymous_proxy_rejected">> \in Uncounted
    BY UncountedOne DEF UncountedEvents
  <2>3. Direct(403, "not_allowed").status # 502 /\ Settles(q, Direct(403, "not_allowed"))
    BY <1>2 DEF Direct, Settles
  <2> QED
    BY <1>1, <1>3, <1>5, <2>1, <2>2, <2>3, RepliedInv
<1> QED
  BY <1>1, <1>4, <1>5 DEF Judge

LEMMA PrefixElements ==
    ASSUME NEW S, NEW s \in Seq(S), NEW x \in Prefixes(s)
    PROVE  x \in Seq(S) /\ Len(x) <= Len(s) /\ \A i \in 1..Len(x) : x[i] = s[i]
<1>1. PICK l \in 0..Len(s) : x = SubSeq(s, 1, l)
  BY DEF Prefixes
<1>2. 1 \in Int /\ l \in Int /\ l \in Nat /\ \A i \in 1..l : s[i] \in S
  OBVIOUS
<1>3. x \in Seq(S) /\ Len(x) = l /\ \A i \in 1..l : x[i] = s[i]
  BY <1>1, <1>2, SubSeqProperties
<1> QED
  BY <1>2, <1>3

\* A copy is sent to the backend.
LEMMA SentInv ==
    ASSUME FrontInv, NEW h \in Handlers, pc[h] \in {"proxy", "backend"},
           NEW sent \in Seq(Messages), Whole(request[h], sent),
           received' = [received EXCEPT ![h] = Append(@, Director(h, sent))],
           pc' = [pc EXCEPT ![h] = "backend"],
           body' \in [Handlers -> Bodies], \A g \in Handlers \ {h} : body'[g] = body[g],
           body'[h].left = <<>>,
           UNCHANGED <<config, valid, request, ctx, drawn, response, shown, answer,
                       entries, counters>>
    PROVE  FrontInv'
<1> USE DEF config, counters
<1> DEFINE copy == Director(h, sent)
           old == received[h]
<1>0. /\ copy \in Sent /\ copy.body = sent /\ copy.request_id = ctx[h].request_id
  <2>1. ctx[h] \in Context
    BY DEF FrontInv, FrontTypes
  <2> QED
    BY <2>1 DEF Director, Sent, Context
<1>1. old \in Seq(Sent)
  BY DEF FrontInv, FrontTypes
<1>2. received' = [received EXCEPT ![h] = Append(old, copy)]
  OBVIOUS
<1> HIDE DEF copy
<1>3. /\ Append(old, copy) \in Seq(Sent) /\ Append(old, copy) # <<>>
      /\ \A i \in DOMAIN Append(old, copy) :
            \/ i \in DOMAIN old /\ Append(old, copy)[i] = old[i]
            \/ Append(old, copy)[i] = copy
  <2> HIDE DEF old
  <2>1. /\ Append(old, copy) \in Seq(Sent) /\ Len(Append(old, copy)) = Len(old) + 1
        /\ \A i \in 1..Len(old) : Append(old, copy)[i] = old[i]
        /\ Append(old, copy)[Len(old) + 1] = copy
    BY ONLY <1>0, <1>1, AppendProperties
  <2>2. Len(old) \in Nat /\ DOMAIN old = 1..Len(old)
    BY <1>1
  <2>3. DOMAIN Append(old, copy) = 1..Len(old) + 1
    BY <2>1
  <2>4. Append(old, copy) # <<>>
    BY <2>1, <2>2
  <2>5. ASSUME NEW i \in 1..Len(old) + 1 PROVE i \in 1..Len(old) \/ i = Len(old) + 1
    BY <2>2
  <2> QED
    BY <2>1, <2>2, <2>3, <2>4, <2>5
<1>4. PICK new : new = Append(old, copy)
  OBVIOUS
<1>5. /\ received'[h] = new /\ received' \in [Handlers -> Seq(Sent)]
      /\ \A g \in Handlers \ {h} : received'[g] = received[g]
  BY <1>2, <1>3, <1>4 DEF FrontInv, FrontTypes
<1>6. /\ new # <<>>
      /\ \A i \in DOMAIN new : (i \in DOMAIN old /\ new[i] = old[i]) \/ new[i] = copy
  BY <1>3, <1>4
<1>7. FrontTypes'
  BY <1>5 DEF FrontInv, FrontTypes
<1>8. \A g \in Handlers \ {h} : Same(g)
  BY <1>5 DEF FrontInv, FrontTypes, Same
<1>9. pc'[h] = "backend"
  BY DEF FrontInv, FrontTypes
<1>10. Exchange(h)'
  <2>1. \A i \in DOMAIN new : Whole(request[h], new[i].body)
    BY <1>0, <1>6 DEF FrontInv, About, Exchange
  <2>2. \A i \in DOMAIN received'[h] : Whole(request'[h], received'[h][i].body)
    BY <2>1, <1>5
  <2>3. request[h] \in McpRequests /\ (ctx[h].toolsList <=> Anonymous(request[h]) /\ AsksForList(h))
    BY DEF FrontInv, About, Exchange
  <2> QED
    BY <1>5, <1>6, <1>9, <2>2, <2>3 DEF FrontInv, About, Exchange, Serving, AsksForList
<1>11. Number(h)'
  <2>1. \A i \in DOMAIN new : new[i].request_id = ctx[h].request_id
    BY <1>0, <1>6 DEF FrontInv, About, Number
  <2> QED
    BY <1>5, <1>9, <2>1 DEF FrontInv, About, Number
<1>12. Account(h)'
  BY <1>9 DEF FrontInv, About, Account, events
<1>13. Counts'
  <2>1. events(h)' = events(h)
    BY DEF events
  <2>2. UNCHANGED counters
    BY DEF counters
  <2> HIDE DEF counters
  <2> QED
    BY <1>8, <2>1, <2>2, NothingCounted
<1>14. Outcome(h)'
  BY <1>9 DEF FrontInv, About, Outcome, Serving
<1>15. Upload(h)'
  BY <1>9 DEF Upload
<1> QED
  BY <1>7, <1>8, <1>10, <1>11, <1>12, <1>13, <1>14, <1>15, NextOf DEF About

LEMMA ServeHTTPInv ==
    ASSUME FrontInv, NEW h \in Handlers, ServeHTTP(h) PROVE FrontInv'
<1> DEFINE q == request[h]
<1>1. /\ q \in McpRequests /\ q.body \in Seq(Messages) /\ body[h].left = q.body
      /\ ctx[h].toolsList <=> Anonymous(q) /\ AsksForList(h)
  BY HttpFrontAssumption DEF ServeHTTP, FrontInv, About, Upload, Exchange
<1>2. PICK sent \in IF q.upload = "broken" THEN Prefixes(body[h].left) ELSE {body[h].left} :
          received' = [received EXCEPT ![h] = Append(@, Director(h, sent))]
  BY DEF ServeHTTP
<1>3. sent \in Seq(Messages) /\ Whole(q, sent)
  <2>1. CASE q.upload # "broken"
    BY <1>1, <1>2, <2>1 DEF Whole
  <2>2. CASE q.upload = "broken"
    <3>1. sent \in Prefixes(q.body)
      BY <1>1, <1>2, <2>2
    <3>2. sent \in Seq(Messages) /\ Len(sent) <= Len(q.body) /\ \A i \in 1..Len(sent) : sent[i] = q.body[i]
      BY <1>1, <3>1, PrefixElements
    <3>3. ~Anonymous(q)
      BY <2>2 DEF ServeHTTP, FrontInv, About, Upload
    <3> QED
      BY <2>2, <3>2, <3>3 DEF Whole
  <2> QED
    BY <2>1, <2>2
<1>4. /\ body' \in [Handlers -> Bodies] /\ \A g \in Handlers \ {h} : body'[g] = body[g]
      /\ body'[h].left = <<>>
  <2>1. PICK old : old = body[h]
    OBVIOUS
  <2>2. old \in Bodies /\ body \in [Handlers -> Bodies]
    BY <2>1 DEF FrontInv, FrontTypes
  <2> DEFINE b == [old EXCEPT !.left = <<>>]
  <2>3. b \in Bodies /\ b.left = <<>>
    <3>1. PICK none : none = <<>>
      OBVIOUS
    <3>2. none \in Seq(Messages)
      BY <3>1
    <3>3. [old EXCEPT !.left = none] \in Bodies /\ [old EXCEPT !.left = none].left = none
      BY <2>2, <3>2 DEF Bodies
    <3> QED
      BY <3>1, <3>3
  <2>4. body' = [body EXCEPT ![h] = b]
    BY <2>1 DEF ServeHTTP
  <2> HIDE DEF b
  <2> QED
    BY <2>2, <2>3, <2>4
<1>5. /\ pc[h] = "proxy" /\ pc' = [pc EXCEPT ![h] = "backend"]
      /\ UNCHANGED <<config, valid, request, ctx, drawn, response, shown, answer,
                     entries, counters>>
  BY DEF ServeHTTP
<1> QED
  BY <1>2, <1>3, <1>4, <1>5, SentInv

LEMMA ResendInv ==
    ASSUME FrontInv, NEW h \in Handlers, Resend(h) PROVE FrontInv'
<1>1. /\ pc[h] = "backend" /\ request[h].body = <<>> /\ body[h].left = <<>>
      /\ received' = [received EXCEPT ![h] = Append(@, Director(h, body[h].left))]
      /\ UNCHANGED <<config, valid, pc, passing, response, shown, answer, entries, counters>>
  BY DEF Resend, FrontInv, About, Upload
<1>2. <<>> \in Seq(Messages) /\ Whole(request[h], <<>>)
  BY <1>1 DEF Whole
<1>3. /\ body' \in [Handlers -> Bodies] /\ \A g \in Handlers \ {h} : body'[g] = body[g]
      /\ body'[h].left = <<>>
  BY <1>1 DEF passing, FrontInv, FrontTypes
<1>4. pc' = [pc EXCEPT ![h] = "backend"]
  BY <1>1 DEF FrontInv, FrontTypes
<1>5. UNCHANGED <<config, valid, request, ctx, drawn, response, shown, answer,
                  entries, counters>>
  BY <1>1 DEF passing
<1> QED
  BY <1>1, <1>2, <1>3, <1>4, <1>5, SentInv

LEMMA AnswersInv ==
    ASSUME FrontInv, NEW h \in Handlers, NEW r \in BackendResponses, BackendAnswers(h, r)
    PROVE  FrontInv'
<1> USE DEF BackendAnswers, config, passing, counters
<1>1. FrontTypes'
  BY DEF FrontInv, FrontTypes, Serving
<1>2. \A g \in Handlers \ {h} : Same(g)
  BY DEF FrontInv, FrontTypes, Same
<1>3. pc'[h] = "modify" /\ response'[h] = r
  BY DEF FrontInv, FrontTypes
<1>4. Exchange(h)'
  <2>1. r.tools # {} => AsksForList(h)
    <3> DEFINE sent == received[h][1].body
               asked == request[h].body
    <3>1. request[h] \in McpRequests /\ received[h] # <<>> /\ received[h] \in Seq(Sent)
      BY DEF FrontInv, FrontTypes, About, Exchange
    <3>2. 1 \in DOMAIN received[h] /\ sent \in Seq(Messages) /\ asked \in Seq(Messages)
      <4>1. 1 \in DOMAIN received[h] /\ received[h][1] \in Sent
        BY <3>1
      <4>2. asked \in Seq(Messages)
        BY <3>1, HttpFrontAssumption
      <4>3. sent \in Seq(Messages)
        BY <4>1 DEF Sent
      <4> QED
        BY <4>1, <4>2, <4>3
    <3>3. Whole(request[h], sent)
      BY <3>2 DEF FrontInv, About, Exchange
    <3>4. \A i \in DOMAIN sent : i \in DOMAIN asked /\ sent[i] = asked[i]
      <4>1. CASE sent = asked
        BY <4>1
      <4>2. CASE sent # asked
        <5>1. Len(sent) <= Len(asked) /\ \A i \in 1..Len(sent) : sent[i] = asked[i]
          BY <3>3, <4>2 DEF Whole
        <5> HIDE DEF sent, asked
        <5> QED
          BY <3>2, <5>1
      <4> QED
        BY <4>1, <4>2
    <3> QED
      BY <3>4 DEF AsksForList, Range
  <2> QED
    BY <1>3, <2>1 DEF FrontInv, About, Exchange, Serving, AsksForList
<1>5. Number(h)'
  BY <1>3 DEF FrontInv, About, Number
<1>6. Account(h)'
  BY <1>3 DEF FrontInv, About, Account, events
<1>7. Counts'
  <2>1. events(h)' = events(h)
    BY DEF events
  <2>2. UNCHANGED counters
    BY DEF counters
  <2> HIDE DEF counters
  <2> QED
    BY <1>2, <2>1, <2>2, NothingCounted
<1>8. Outcome(h)'
  BY <1>3 DEF FrontInv, About, Outcome, Serving
<1>9. Upload(h)'
  BY <1>3 DEF Upload
<1> QED
  BY <1>1, <1>2, <1>4, <1>5, <1>6, <1>7, <1>8, <1>9, NextOf DEF About

LEMMA PassOnInv ==
    ASSUME FrontInv, NEW h \in Handlers, pc[h] = "modify", NEW tools, PassOn(h, tools),
           tools = IF ctx[h].toolsList THEN filterAnonymousToolsList(response[h], publicTools)
                   ELSE response[h].tools
    PROVE  FrontInv'
<1> USE DEF PassOn, config, passing, counters
<1>0. tools \subseteq ToolNames
  <2>1. response[h].tools \subseteq ToolNames
    BY HttpFrontAssumption DEF FrontInv, About, Exchange, Responses
  <2> QED
    BY <2>1 DEF filterAnonymousToolsList
<1>1. FrontTypes'
  BY <1>0 DEF FrontInv, FrontTypes, Serving
<1>2. \A g \in Handlers \ {h} : Same(g)
  BY DEF FrontInv, FrontTypes, Same
<1>3. pc'[h] = "copy" /\ shown'[h] = tools
  BY DEF FrontInv, FrontTypes
<1>4. Exchange(h)'
  <2>1. publicTools' = publicTools /\ (AsksForList(h)' <=> AsksForList(h))
    BY DEF publicTools, AsksForList
  <2> QED
    BY <1>3, <2>1 DEF FrontInv, About, Exchange, Serving
<1>5. Number(h)'
  BY <1>3 DEF FrontInv, About, Number
<1>6. Account(h)'
  BY <1>3 DEF FrontInv, About, Account, events
<1>7. Counts'
  <2>1. events(h)' = events(h)
    BY DEF events
  <2>2. UNCHANGED counters
    BY DEF counters
  <2> HIDE DEF counters
  <2> QED
    BY <1>2, <2>1, <2>2, NothingCounted
<1>8. Outcome(h)'
  BY <1>3 DEF FrontInv, About, Outcome, Serving
<1>9. Upload(h)'
  BY <1>3 DEF Upload
<1> QED
  BY <1>1, <1>2, <1>4, <1>5, <1>6, <1>7, <1>8, <1>9, NextOf DEF About

\* The exchange failed.
LEMMA ErrorInv ==
    ASSUME FrontInv, NEW h \in Handlers, pc[h] \in {"proxy", "backend", "modify"}, ErrorHandler(h)
    PROVE  FrontInv'
<1> USE DEF ErrorHandler, config, passing, exchange
<1> DEFINE ev == <<"proxy_error">>
<1>0. ev \in Seq(Events) /\ {ev[i] : i \in DOMAIN ev} = {"proxy_error"}
  BY DEF Events
<1>1. /\ entries' \in [Handlers -> Seq(Entry)]
      /\ \A g \in Handlers \ {h} : entries'[g] = entries[g]
      /\ \A i \in DOMAIN entries'[h] : entries'[h][i].request_id = ctx[h].request_id
      /\ events(h)' = events(h) \cup {"proxy_error"}
  <2> HIDE DEF ev
  <2>1. auditLog(h, ev)
    BY DEF ev
  <2> QED
    BY <1>0, <2>1, Audited DEF FrontInv, About, Number
<1>2. FrontTypes'
  BY <1>1 DEF FrontInv, FrontTypes, Serving
<1>3. \A g \in Handlers \ {h} : Same(g)
  BY <1>1 DEF FrontInv, FrontTypes, Same
<1>4. pc'[h] = "hit" /\ answer'[h].status = 502 /\ answer'[h].location = {}
  BY DEF FrontInv, FrontTypes, Direct
<1>5. Exchange(h)'
  BY <1>4 DEF FrontInv, About, Exchange, Serving, AsksForList
<1>6. Number(h)'
  BY <1>1, <1>4 DEF FrontInv, About, Number
<1>7. Account(h)'
  BY <1>1, <1>4 DEF FrontInv, About, Account
<1>8. Counts'
  <2>1. \A g \in Handlers \ {h} : events(g)' = events(g)
    BY <1>3 DEF Same, events
  <2>2. /\ "proxy_error" \notin events(h) /\ "proxy_error" \in events(h)'
        /\ "proxy_hit" \in events(h)' <=> "proxy_hit" \in events(h)
    BY <1>1 DEF FrontInv, About, Account
  <2>3. Counted("proxy_error")' = Counted("proxy_error") + 1
    BY <2>1, <2>2, CountRaised
  <2>4. Counted("proxy_hit")' = Counted("proxy_hit")
    BY <2>1, <2>2, CountKept
  <2> QED
    BY <2>3, <2>4 DEF FrontInv, Counts
<1>9. Outcome(h)'
  BY <1>4 DEF FrontInv, About, Outcome, Serving
<1>10. Upload(h)'
  BY <1>4 DEF Upload
<1> QED
  BY <1>2, <1>3, <1>4, <1>5, <1>6, <1>7, <1>8, <1>9, <1>10, NextOf DEF About

LEMMA CopyInv ==
    ASSUME FrontInv, NEW h \in Handlers, CopyResponse(h) PROVE FrontInv'
<1> USE DEF CopyResponse, config, passing, exchange, counters
<1>1. FrontTypes'
  BY DEF FrontInv, FrontTypes, Serving
<1>2. \A g \in Handlers \ {h} : Same(g)
  BY DEF FrontInv, FrontTypes, Same
<1>3. \/ pc'[h] = "aborted" /\ answer'[h] = answer[h]
      \/ pc'[h] = "hit" /\ answer'[h].status = 200 /\ answer'[h].location = {}
  <2>1. CASE pc' = [pc EXCEPT ![h] = "aborted"]
    BY <2>1 DEF FrontInv, FrontTypes
  <2>2. CASE /\ answer' = [answer EXCEPT ![h] = Direct(200, "none")]
             /\ pc' = [pc EXCEPT ![h] = "hit"]
    BY <2>2 DEF FrontInv, FrontTypes, Direct
  <2> QED
    BY <2>1, <2>2
<1>4. Exchange(h)'
  BY <1>3 DEF FrontInv, About, Exchange, Serving, AsksForList
<1>5. Number(h)'
  BY <1>3 DEF FrontInv, About, Number
<1>6. Account(h)'
  BY <1>3 DEF FrontInv, About, Account, events
<1>7. Counts'
  <2>1. events(h)' = events(h)
    BY DEF events
  <2>2. UNCHANGED counters
    BY DEF counters
  <2> HIDE DEF counters
  <2> QED
    BY <1>2, <2>1, <2>2, NothingCounted
<1>8. Outcome(h)'
  BY <1>3 DEF FrontInv, About, Outcome, Serving
<1>9. Upload(h)'
  BY <1>3 DEF Upload
<1> QED
  BY <1>1, <1>2, <1>4, <1>5, <1>6, <1>7, <1>8, <1>9, NextOf DEF About

LEMMA HitInv ==
    ASSUME FrontInv, NEW h \in Handlers, ProxyHit(h) PROVE FrontInv'
<1> USE DEF ProxyHit, config, passing
<1> DEFINE ev == <<"proxy_hit">>
<1>0. ev \in Seq(Events) /\ {ev[i] : i \in DOMAIN ev} = {"proxy_hit"}
  BY DEF Events
<1>1. /\ entries' \in [Handlers -> Seq(Entry)]
      /\ \A g \in Handlers \ {h} : entries'[g] = entries[g]
      /\ \A i \in DOMAIN entries'[h] : entries'[h][i].request_id = ctx[h].request_id
      /\ events(h)' = events(h) \cup {"proxy_hit"}
  <2> HIDE DEF ev
  <2>1. auditLog(h, ev)
    BY DEF ev
  <2> QED
    BY <1>0, <2>1, Audited DEF FrontInv, About, Number
<1>2. FrontTypes'
  BY <1>1 DEF FrontInv, FrontTypes, Serving
<1>3. \A g \in Handlers \ {h} : Same(g)
  BY <1>1 DEF FrontInv, FrontTypes, Same
<1>4. pc'[h] = "done" /\ response'[h] = NoResponse
  BY DEF FrontInv, FrontTypes
<1>5. Exchange(h)'
  BY <1>4 DEF FrontInv, About, Exchange, Serving
<1>6. Number(h)'
  BY <1>1, <1>4 DEF FrontInv, About, Number
<1>7. Account(h)'
  <2>1. received[h] # <<>> \/ answer[h].status = 502
    BY DEF FrontInv, About, Exchange, Serving
  <2> QED
    BY <1>1, <1>4, <2>1 DEF FrontInv, About, Account
<1>8. Counts'
  <2>1. \A g \in Handlers \ {h} : events(g)' = events(g)
    BY <1>3 DEF Same, events
  <2>2. /\ "proxy_hit" \notin events(h) /\ "proxy_hit" \in events(h)'
        /\ "proxy_error" \in events(h)' <=> "proxy_error" \in events(h)
    BY <1>1 DEF FrontInv, About, Account
  <2>3. Counted("proxy_hit")' = Counted("proxy_hit") + 1
    BY <2>1, <2>2, CountRaised
  <2>4. Counted("proxy_error")' = Counted("proxy_error")
    BY <2>1, <2>2, CountKept
  <2> QED
    BY <2>3, <2>4 DEF FrontInv, Counts
<1>9. Outcome(h)'
  <2>1. request[h] \in McpRequests /\ answer[h].location = {}
    BY DEF FrontInv, About, Exchange, Outcome, Serving
  <2>2. request[h].to = "mcp"
    BY <2>1, HttpFrontAssumption
  <2> QED
    BY <1>4, <2>1, <2>2 DEF Outcome, Settles, Serving
<1>10. Upload(h)'
  BY <1>4 DEF Upload
<1> QED
  BY <1>2, <1>3, <1>4, <1>5, <1>6, <1>7, <1>8, <1>9, <1>10, NextOf DEF About

LEMMA ModifyInv ==
    ASSUME FrontInv, NEW h \in Handlers, ModifyResponse(h) PROVE FrontInv'
<1>1. pc[h] = "modify"
  BY DEF ModifyResponse
<1>2. CASE ErrorHandler(h)
  BY <1>1, <1>2, ErrorInv
<1>3. CASE ctx[h].toolsList /\ PassOn(h, filterAnonymousToolsList(response[h], publicTools))
  BY <1>1, <1>3, PassOnInv
<1>4. CASE ~ctx[h].toolsList /\ PassOn(h, response[h].tools)
  BY <1>1, <1>4, PassOnInv
<1> QED
  BY <1>2, <1>3, <1>4 DEF ModifyResponse

LEMMA FrontStep == FrontInv /\ [Next]_vars => FrontInv'
<1> SUFFICES ASSUME FrontInv, [Next]_vars PROVE FrontInv'
  OBVIOUS
<1>1. CASE UNCHANGED vars
  <2>2. FrontTypes' /\ (\A g \in Handlers : Same(g))
    BY <1>1 DEF vars, config, passing, exchange, counters, FrontInv, FrontTypes, Same
  <2>3. \A g \in Handlers : About(g)' /\ events(g)' = events(g)
    BY <1>1, <2>2, SameAbout DEF FrontInv, vars, config, passing
  <2>4. NumbersDiffer'
    BY <1>1 DEF FrontInv, NumbersDiffer, vars, passing
  <2>5. \A x : Counted(x)' = Counted(x)
    BY <2>3, CountKept
  <2>6. Counts'
    BY <1>1, <2>5 DEF FrontInv, Counts, vars, counters
  <2> QED
    BY <2>2, <2>3, <2>4, <2>6 DEF FrontInv
<1>2. CASE TokensChange
  BY <1>2, TokensInv
<1>3. ASSUME NEW h \in Handlers, NEW q \in Requests, RequestIDMiddleware(h, q)
      PROVE  FrontInv'
  BY <1>3, NumberedInv
<1>4. ASSUME NEW h \in Handlers, ServeAuthorize(h) \/ ServeRegister(h) \/ HandleProxy(h)
      PROVE  FrontInv'
  BY <1>4, AuthorizeInv, RegisterInv, HandleProxyInv
<1>5. ASSUME NEW h \in Handlers, Inspect(h) \/ ServeHTTP(h) \/ Resend(h)
      PROVE  FrontInv'
  BY <1>5, InspectInv, ServeHTTPInv, ResendInv
<1>8. ASSUME NEW h \in Handlers, ModifyResponse(h) \/ CopyResponse(h)
      PROVE  FrontInv'
  BY <1>8, ModifyInv, CopyInv
<1>6. ASSUME NEW h \in Handlers, ProxyHit(h) \/ BackendFails(h) PROVE FrontInv'
  BY <1>6, HitInv, ErrorInv DEF BackendFails
<1>7. ASSUME NEW h \in Handlers, NEW r \in BackendResponses, BackendAnswers(h, r)
      PROVE  FrontInv'
  BY <1>7, AnswersInv
<1> QED
  BY <1>1, <1>2, <1>3, <1>4, <1>5, <1>6, <1>7, <1>8 DEF Next

LEMMA FrontAlways == Spec => []FrontInv
  BY FrontInit, FrontStep, PTL DEF Spec

-----------------------------------------------------------------------------
(***************************************************************************)
(* The rules of a request, and which request an answer is to.              *)
(***************************************************************************)
LEMMA SettingNames ==
    ASSUME NEW s \in Settings
    PROVE  s.names \subseteq Names /\ (s.isSet \/ s.names = {})
<1>1. CASE s = [isSet |-> FALSE, names |-> {}]
  BY <1>1
<1>2. CASE s \in [isSet : {TRUE}, names : (SUBSET Names) \ {{}}]
  <2>1. s.isSet = TRUE /\ s.names \in (SUBSET Names) \ {{}}
    BY <1>2
  <2> QED
    BY <2>1
<1> QED
  BY <1>1, <1>2 DEF Settings

LEMMA RequestTypes ==
    /\ \A q \in McpRequests :
          q.to = "mcp" /\ q.body \in Seq(Messages)
    /\ \A q \in AuthorizeRequests :
          q.to = "authorize" /\ q.redirect.host \in Seq(STRING)
    /\ \A q \in RegisterRequests : q.to = "register"
  BY HttpFrontAssumption

LEMMA TwoElements ==
    ASSUME NEW S, NEW s \in Seq(S), NEW m \in Nat \ {0}, m + 1 <= Len(s)
    PROVE  SubSeq(s, m, m + 1) = <<s[m], s[m + 1]>>
<1> DEFINE w == SubSeq(s, m, m + 1)
<1>1. m \in Int /\ m + 1 \in Int /\ \A i \in m..m + 1 : s[i] \in S
  OBVIOUS
<1>2. w \in Seq(S) /\ Len(w) = 2 /\ \A i \in 1..2 : w[i] = s[m + i - 1]
  BY <1>1, SubSeqProperties
<1> HIDE DEF w
<1>3. w[1] = s[m] /\ w[2] = s[m + 1]
  BY <1>2
<1>4. w = <<w[1], w[2]>>
  BY <1>2
<1> QED
  BY <1>3, <1>4 DEF w

\* The suffix of two labels.
LEMMA TwoLabels ==
    ASSUME NEW S, NEW t \in Seq(S), NEW a, NEW b
    PROVE  IsSuffix(<<a, b>>, t) <=>
               Len(t) >= 2 /\ SubSeq(t, Len(t) - 1, Len(t)) = <<a, b>>
<1> DEFINE n == Len(t)
           r == Reverse(t)
           s == Reverse(<<a, b>>)
<1>1. n \in Nat /\ \A i \in 1..n : t[i] \in S
  OBVIOUS
<1>2. r \in [1..n -> S] /\ \A i \in 1..n : r[i] = t[n - i + 1]
  BY <1>1 DEF Reverse
<1>3. s = <<b, a>>
  BY DEF Reverse
<1> HIDE DEF r, s
<1>4. r \in Seq(S) /\ Len(r) = n
  BY <1>1, <1>2
<1>5. IsSuffix(<<a, b>>, t) <=> 2 <= n /\ SubSeq(<<b, a>>, 1, 2) = SubSeq(r, 1, 2)
  BY <1>3, <1>4 DEF IsSuffix, IsPrefix, r, s
<1>6. ASSUME n >= 2
      PROVE  SubSeq(<<b, a>>, 1, 2) = SubSeq(r, 1, 2) <=> t[n] = b /\ t[n - 1] = a
  <2>1. r[1] = t[n] /\ r[2] = t[n - 1]
    BY <1>1, <1>2, <1>6
  <2>2. SubSeq(<<b, a>>, 1, 2) = <<b, a>>
    <3> DEFINE d == <<b, a>>
    <3>1. /\ d \in Seq({a, b}) /\ Len(d) = 2 /\ d[1] = b /\ d[2] = a
          /\ 1 \in Nat \ {0} /\ 1 + 1 = 2
      OBVIOUS
    <3> HIDE DEF d
    <3>2. SubSeq(d, 1, 2) = <<d[1], d[2]>>
      BY <3>1, TwoElements
    <3> QED
      BY <3>1, <3>2 DEF d
  <2>3. SubSeq(r, 1, 2) = <<r[1], r[2]>>
    <3>1. 1 + 1 = 2 /\ 2 <= Len(r)
      BY <1>4, <1>6
    <3> QED
      BY <1>4, <3>1, TwoElements
  <2> QED
    BY <2>1, <2>2, <2>3
<1>7. ASSUME n >= 2
      PROVE  SubSeq(t, n - 1, n) = <<a, b>> <=> t[n] = b /\ t[n - 1] = a
  <2>1. n - 1 \in Nat \ {0} /\ n - 1 + 1 = n
    BY <1>1, <1>7
  <2>2. SubSeq(t, n - 1, n) = <<t[n - 1], t[n]>>
    BY <1>1, <2>1, TwoElements
  <2> QED
    BY <2>2
<1> QED
  BY <1>1, <1>5, <1>6, <1>7

\* IsAllowedRedirect: the last two labels of the host are an allowed host.
LEMMA AllowedAreNamed ==
    ASSUME NEW uri, uri.host \in Seq(STRING)
    PROVE  IsAllowedRedirect(uri) <=>
               /\ uri.scheme = "https" /\ Len(uri.host) >= 2
               /\ SubSeq(uri.host, Len(uri.host) - 1, Len(uri.host)) \in allowedHosts
<1> DEFINE Named(h) == /\ Len(uri.host) >= 2
                       /\ SubSeq(uri.host, Len(uri.host) - 1, Len(uri.host)) = h
<1>1. /\ IsSuffix(<<"claude", "ai">>, uri.host) <=> Named(<<"claude", "ai">>)
      /\ IsSuffix(<<"anthropic", "com">>, uri.host) <=> Named(<<"anthropic", "com">>)
  BY TwoLabels
<1>2. IsAllowedRedirect(uri) <=>
          uri.scheme = "https" /\ \E h \in allowedHosts : IsSuffix(h, uri.host)
  BY DEF IsAllowedRedirect
<1>3. \A h \in allowedHosts : IsSuffix(h, uri.host) <=> Named(h)
  BY <1>1 DEF allowedHosts
<1> QED
  BY <1>2, <1>3

LEMMA Settled ==
    ASSUME FrontInv, NEW h \in Handlers, request[h].to # "mcp", answer[h].status # 0
    PROVE  Settles(request[h], answer[h])
<1>1. request[h] \notin McpRequests
  BY RequestTypes
<1>2. pc[h] \notin {"proxy", "backend"} \cup Serving
  BY <1>1 DEF FrontInv, About, Exchange
<1>3. pc[h] \notin {"idle", "routed", "inspected"}
  BY DEF FrontInv, About, Outcome, NoAnswer, Direct
<1>4. pc[h] = "done"
  BY <1>2, <1>3 DEF FrontInv, FrontTypes
<1> QED
  BY <1>4 DEF FrontInv, About, Outcome

LEMMA RedirectionsAuthorized ==
    ASSUME FrontInv, NEW h \in Handlers, answer[h].location # {}
    PROVE  request[h] \in AuthorizeRequests /\ answer[h] = HandleAuthorize(request[h])
<1>1. pc[h] = "done"
  <2>1. answer[h] # NoAnswer
    BY DEF NoAnswer, Direct
  <2> QED
    BY <2>1 DEF FrontInv, FrontTypes, About, Outcome
<1>2. request[h] \in Requests /\ Settles(request[h], answer[h])
  BY <1>1 DEF FrontInv, About, Number, Outcome
<1>3. request[h].to # "mcp" /\ request[h].to # "register"
  BY <1>2 DEF Settles, HandleRegister, Direct
<1>4. request[h] \in AuthorizeRequests
  BY <1>2, <1>3, RequestTypes DEF Requests
<1> QED
  BY <1>2, <1>4, RequestTypes DEF Settles

-----------------------------------------------------------------------------
\* Types of the requests in flight, for any handlers, requests and responses;
\* no counter passes the number of requests.
THEOREM FrontTypeCorrect == Spec => []TypeOK
<1>1. FrontInv => TypeOK
  <2> SUFFICES ASSUME FrontInv PROVE TypeOK
    OBVIOUS
  <2>1. \A x : Counted(x) \in 0..Cardinality(Handlers)
    <3> TAKE x
    <3> DEFINE S == {h \in Handlers : x \in events(h)}
    <3>1. S \in SUBSET Handlers
      OBVIOUS
    <3> HIDE DEF S
    <3>2. /\ IsFiniteSet(S) /\ Cardinality(S) <= Cardinality(Handlers)
          /\ Cardinality(S) \in Nat /\ Cardinality(Handlers) \in Nat
      BY <3>1, FS_Subset, FS_CardinalityType, HttpFrontAssumption
    <3>3. Cardinality(S) \in 0..Cardinality(Handlers)
      BY <3>2
    <3> QED
      BY <3>3 DEF Counted, S
  <2>2. {proxyRequestsTotal, proxyErrorsTotal} \subseteq 0..Cardinality(Handlers)
    BY <2>1 DEF FrontInv, Counts
  <2>3. \A h \in Handlers :
          /\ request[h] \in Requests \cup {NoRequest}
          /\ ctx[h].request_id \in Ids \cup {NoId}
          /\ response[h] \in BackendResponses \cup {NoResponse}
          /\ response[h] # NoResponse => pc[h] \in Serving
          /\ shown[h] \subseteq ToolNames
    BY DEF FrontInv, FrontTypes, Context, About, Exchange
  <2> QED
    BY <2>2, <2>3 DEF FrontInv, FrontTypes, TypeOK
<1> QED
  BY <1>1, FrontAlways, PTL

\* The entries of a request and what the backend receives of it carry one
\* number, and no other request's (middleware.go:14, proxy.go:77).
THEOREM NumbersAreDistinct == Spec => []RequestIDsDistinct
<1>1. FrontInv => RequestIDsDistinct
  <2> DEFINE idsOf(h) == {entries[h][i].request_id : i \in DOMAIN entries[h]} \cup
                         {received[h][i].request_id : i \in DOMAIN received[h]}
  <2> SUFFICES ASSUME FrontInv, NEW g \in Handlers, NEW h \in Handlers
               PROVE  /\ Cardinality(idsOf(h)) <= 1
                      /\ g # h => idsOf(g) \cap idsOf(h) = {}
    BY DEF RequestIDsDistinct
  <2>1. ASSUME NEW k \in Handlers
        PROVE  /\ idsOf(k) \subseteq {ctx[k].request_id}
               /\ pc[k] = "idle" => idsOf(k) = {}
    BY DEF FrontInv, About, Number, Exchange
  <2> HIDE DEF idsOf
  <2>2. Cardinality(idsOf(h)) <= 1
    <3> DEFINE one == {ctx[h].request_id}
    <3>1. idsOf(h) \in SUBSET one
      BY <2>1
    <3>2. IsFiniteSet(one) /\ Cardinality(one) = 1
      BY FS_Singleton
    <3> HIDE DEF one
    <3> QED
      BY <3>1, <3>2, FS_Subset
  <2>3. ASSUME g # h PROVE idsOf(g) \cap idsOf(h) = {}
    <3>1. CASE pc[g] = "idle" \/ pc[h] = "idle"
      BY <3>1, <2>1
    <3>2. CASE pc[g] # "idle" /\ pc[h] # "idle"
      <4>1. ctx[g].request_id # ctx[h].request_id
        BY <2>3, <3>2 DEF FrontInv, NumbersDiffer
      <4> QED
        BY <2>1, <4>1
    <3> QED
      BY <3>1, <3>2
  <2> QED
    BY <2>2, <2>3
<1> QED
  BY <1>1, FrontAlways, PTL

\* Every request that came back from the proxy, and no other, has left its
\* entry and was counted once, its failure too (proxy.go:157).
THEOREM EveryProxiedCounted == Spec => []ProxiedIsAccounted
<1>1. FrontInv => ProxiedIsAccounted
  BY DEF FrontInv, About, Account, Counts, Counted, ProxiedIsAccounted
<1> QED
  BY <1>1, FrontAlways, PTL

\* A client without a token is shown the tools the operator named and no
\* others, a client with one all of them (proxy.go:223).
THEOREM ShownAreFiltered == Spec => []ToolsShownAreFiltered
<1>1. FrontInv => ToolsShownAreFiltered
  <2> SUFFICES ASSUME FrontInv, NEW h \in Handlers, pc[h] = "copy"
               PROVE  IF Anonymous(request[h])
                      THEN response[h].form # "other" =>
                               shown[h] = response[h].tools \cap setting.names
                      ELSE shown[h] = response[h].tools
    BY DEF ToolsShownAreFiltered
  <2>1. /\ response[h].tools \subseteq ToolNames
        /\ response[h].form \in {"json", "data_lines", "other"}
        /\ response[h].tools # {} => AsksForList(h)
        /\ ctx[h].toolsList <=> Anonymous(request[h]) /\ AsksForList(h)
        /\ shown[h] = IF ctx[h].toolsList
                      THEN filterAnonymousToolsList(response[h], publicTools)
                      ELSE response[h].tools
    BY HttpFrontAssumption DEF FrontInv, About, Exchange, Responses, Serving
  <2>2. \A n \in ToolNames : n \in publicTools <=> n \in setting.names
    BY SettingNames DEF publicTools, bindEnv, FrontInv, FrontTypes
  <2>3. CASE ~Anonymous(request[h])
    BY <2>1, <2>3
  <2>4. CASE Anonymous(request[h]) /\ ~AsksForList(h)
    BY <2>1, <2>4
  <2>5. CASE Anonymous(request[h]) /\ AsksForList(h) /\ response[h].form # "other"
    <3>1. shown[h] = {n \in response[h].tools : IsPublicTool(n, publicTools)}
      BY <2>1, <2>5 DEF filterAnonymousToolsList
    <3> QED
      BY <2>1, <2>2, <2>5, <3>1 DEF IsPublicTool
  <2> QED
    BY <2>3, <2>4, <2>5
<1> QED
  BY <1>1, FrontAlways, PTL

\* What HandleProxy lets through to the backend, and nothing but HandleProxy:
\* a token valid at that moment, or, with none, messages of the public tools
\* only (proxy.go:183, mcp_acl.go).
THEOREM OnlyAllowedAdmitted == Spec => OnlyAllowedForwarded
<1> DEFINE Admissible(h) ==
      LET q == request[h] IN
      IF Anonymous(q)
      THEN /\ enabled
           /\ \A i \in DOMAIN q.body :
                 \/ q.body[i].method \in {"setup", "tools/list"}
                 \/ /\ q.body[i].method = "tools/call"
                    /\ q.body[i].name \in setting.names \cap ToolNames
      ELSE q.scheme = "Bearer" /\ q.token \in valid
    Admitting == \A h \in Handlers : pc[h] # "proxy" /\ pc'[h] = "proxy" => Admissible(h)
<1>1. ASSUME FrontInv, NEW h \in Handlers, HandleProxy(h), pc'[h] = "proxy"
      PROVE  Admissible(h)
  <2> DEFINE q == request[h]
  <2>1. pc[h] = "routed" /\ q.to = "mcp"
    BY <1>1 DEF HandleProxy
  <2>2. ASSUME NEW reply, Reply(h, reply) PROVE FALSE
    BY <1>1, <2>2 DEF Reply, FrontInv, FrontTypes
  <2>3. ~ReadBody(h)
    <3>1. pc' # [pc EXCEPT ![h] = "inspected"]
      BY <1>1 DEF FrontInv, FrontTypes
    <3> QED
      BY <2>2, <3>1 DEF ReadBody
  <2>4. ~Unauthorized(q) /\ ~Anonymous(q)
    BY <1>1, <2>2, <2>3 DEF HandleProxy
  <2>5. q \in McpRequests
    <3>1. q \in Requests
      BY <1>1, <2>1 DEF FrontInv, About, Number
    <3> QED
      BY <2>1, <3>1, HttpFrontAssumption DEF Requests
  <2>6. q.scheme \in {"none", "Bearer", "other"}
    BY <2>5, HttpFrontAssumption
  <2> QED
    BY <2>4, <2>6 DEF Unauthorized, Anonymous
<1>2. ASSUME FrontInv, NEW h \in Handlers, Inspect(h), pc'[h] = "proxy"
      PROVE  Admissible(h)
  <2> DEFINE q == request[h]
  <2>1. /\ Anonymous(q) /\ enabled /\ body[h].read = q.body
        /\ q \in McpRequests /\ Judge(h)
    BY <1>2 DEF Inspect, FrontInv, About, Upload
  <2>2. ASSUME NEW reply, Reply(h, reply) PROVE FALSE
    BY <1>2, <2>2 DEF Reply, FrontInv, FrontTypes
  <2>3. PayloadAllowed(q.body, publicTools)
    BY <2>1, <2>2 DEF Judge
  <2>4. \A n : n # NoName /\ n \in publicTools => n \in setting.names \cap ToolNames
    <3>1. setting \in Settings
      BY <1>2 DEF FrontInv, FrontTypes
    <3>2. setting.names \subseteq Names
      BY <3>1, SettingNames
    <3> QED
      BY <3>2 DEF publicTools, bindEnv, Names
  <2>5. \A i \in DOMAIN q.body :
            \/ q.body[i].method \in {"setup", "tools/list"}
            \/ /\ q.body[i].method = "tools/call"
               /\ q.body[i].name \in setting.names \cap ToolNames
    <3> HIDE DEF q
    <3> QED
      BY <2>3, <2>4 DEF PayloadAllowed, messageAllowed, IsPublicTool
  <2> QED
    BY <2>1, <2>5
<1> HIDE DEF Admissible
<1>3. FrontInv /\ [Next]_vars => [Admitting]_vars
  <2> SUFFICES ASSUME FrontInv, Next, NEW h \in Handlers, pc[h] # "proxy", pc'[h] = "proxy"
               PROVE  HandleProxy(h) \/ Inspect(h)
    BY <1>1, <1>2
  <2> USE DEF FrontInv, FrontTypes
  <2>1. ~TokensChange
    BY DEF TokensChange
  <2>2. ASSUME NEW g \in Handlers, g # h, HandleProxy(g) \/ Inspect(g) PROVE FALSE
    <3>1. PICK to : pc' = [pc EXCEPT ![g] = to]
      <4>1. CASE HandleProxy(g)
        BY <4>1 DEF HandleProxy, Route, ReadBody, Reply, Forward
      <4>2. CASE Inspect(g)
        BY <4>2 DEF Inspect, Judge, Route, Reply, Forward
      <4> QED
        BY <2>2, <4>1, <4>2
    <3> QED
      BY <2>2, <3>1
  <2>3. ASSUME NEW g \in Handlers
        PROVE  ~ServeAuthorize(g) /\ ~ServeRegister(g) /\ ~ServeHTTP(g) /\ ~ProxyHit(g)
    BY DEF ServeAuthorize, ServeRegister, ServeHTTP, ProxyHit, Reply
  <2>4. ASSUME NEW g \in Handlers
        PROVE  ~ModifyResponse(g) /\ ~CopyResponse(g) /\ ~BackendFails(g) /\ ~Resend(g)
    BY DEF ModifyResponse, CopyResponse, BackendFails, ErrorHandler, PassOn, Resend
  <2>5. ASSUME NEW g \in Handlers, NEW q \in Requests PROVE ~RequestIDMiddleware(g, q)
    BY DEF RequestIDMiddleware
  <2>6. ASSUME NEW g \in Handlers, NEW r \in BackendResponses PROVE ~BackendAnswers(g, r)
    BY DEF BackendAnswers
  <2> QED
    BY <2>1, <2>2, <2>3, <2>4, <2>5, <2>6 DEF Next
<1> QED
  BY <1>3, FrontAlways, PTL DEF Spec, OnlyAllowedForwarded, Admissible

\* Every copy of a request that goes to the backend has the whole body, though
\* the policy has read it, or as much as a client with a token has sent of it
\* (proxy.go:177-183).
THEOREM ForwardedWhole == Spec => []BodySentWhole
<1>1. FrontInv => BodySentWhole
  <2> SUFFICES ASSUME FrontInv, NEW h \in Handlers, NEW i \in DOMAIN received[h]
               PROVE  LET q == request[h] IN
                      \/ received[h][i].body = q.body
                      \/ /\ ~Anonymous(q) /\ q.upload = "broken"
                         /\ IsPrefix(received[h][i].body, q.body)
    BY DEF BodySentWhole
  <2> DEFINE sent == received[h][i].body
             asked == request[h].body
  <2>1. /\ request[h] \in McpRequests /\ received[h] \in Seq(Sent)
        /\ Whole(request[h], sent)
    BY DEF FrontInv, FrontTypes, About, Exchange
  <2>2. sent \in Seq(Messages) /\ asked \in Seq(Messages)
    <3>1. received[h][i] \in Sent
      BY <2>1
    <3>2. asked \in Seq(Messages)
      BY <2>1, RequestTypes
    <3>3. sent \in Seq(Messages)
      BY <3>1 DEF Sent
    <3> QED
      BY <3>2, <3>3
  <2>3. CASE sent # asked
    <3>1. /\ ~Anonymous(request[h]) /\ request[h].upload = "broken"
          /\ Len(sent) <= Len(asked) /\ \A k \in 1..Len(sent) : sent[k] = asked[k]
      BY <2>1, <2>3 DEF Whole
    <3>2. IsPrefix(sent, asked)
      <4> HIDE DEF sent, asked
      <4>1. Len(sent) \in Nat /\ Len(asked) \in Nat /\ Len(sent) \in Int /\ 1 \in Int
        BY <2>2
      <4>2. \A k \in 1..Len(sent) : sent[k] \in Messages /\ asked[k] \in Messages
        BY <2>2, <3>1, <4>1
      <4>3. /\ SubSeq(sent, 1, Len(sent)) \in Seq(Messages)
            /\ Len(SubSeq(sent, 1, Len(sent))) = Len(sent)
            /\ \A k \in 1..Len(sent) : SubSeq(sent, 1, Len(sent))[k] = sent[k]
        BY <4>1, <4>2, SubSeqProperties
      <4>4. /\ SubSeq(asked, 1, Len(sent)) \in Seq(Messages)
            /\ Len(SubSeq(asked, 1, Len(sent))) = Len(sent)
            /\ \A k \in 1..Len(sent) : SubSeq(asked, 1, Len(sent))[k] = asked[k]
        BY <4>1, <4>2, SubSeqProperties
      <4>5. SubSeq(sent, 1, Len(sent)) = SubSeq(asked, 1, Len(sent))
        BY <3>1, <4>3, <4>4, SeqEqual
      <4> QED
        BY <3>1, <4>5 DEF IsPrefix
    <3> QED
      BY <3>1, <3>2
  <2> QED
    BY <2>3
<1> QED
  BY <1>1, FrontAlways, PTL

\* HandleAuthorize redirects only who connects from an operator's address, or
\* for whom a trusted proxy's first header line names one such address alone; a
\* proxy that names nobody so counts for itself (requestinfo.go:42-56).
THEOREM OnlyVouchedForRedirected == Spec => []SourceVouchedFor
<1>1. FrontInv => SourceVouchedFor
  <2> SUFFICES ASSUME FrontInv, NEW h \in Handlers, answer[h].location # {}
               PROVE  LET q == request[h]
                          line == IF q.forwarded = <<>> THEN <<>> ELSE q.forwarded[1]
                          names(S) == Len(line) = 1 /\ line[1] \in S
                      IN IF q.peer \in TrustedProxies
                         THEN \/ names(TrustedCIDRs)
                              \/ q.peer \in TrustedCIDRs /\ ~names(Addresses)
                         ELSE q.peer \in TrustedCIDRs
    BY DEF SourceVouchedFor
  <2>1. request[h] \in AuthorizeRequests /\ answer[h] = HandleAuthorize(request[h])
    BY RedirectionsAuthorized
  <2>2. SourceIP(request[h].peer, request[h].forwarded) \in TrustedCIDRs
    BY <2>1 DEF HandleAuthorize, Direct, IsIPAllowed
  <2>3. Len(<<>>) = 0
    OBVIOUS
  <2> QED
    BY <2>2, <2>3 DEF SourceIP
<1> QED
  BY <1>1, FrontAlways, PTL

\* HandleAuthorize answers a bad redirect_uri or client_id directly, whatever
\* else is wrong, and redirects every other error (handlers.go:89).
THEOREM ErrorsGoWhereRFCSends == Spec => []ErrorsGoWhereTheyMay
<1>1. FrontInv => ErrorsGoWhereTheyMay
  <2> SUFFICES ASSUME FrontInv, NEW h \in Handlers, pc[h] = "done",
                      request[h].to = "authorize"
               PROVE  LET q == request[h]
                          n == Len(q.redirect.host)
                          named == /\ q.redirect.scheme = "https" /\ n >= 2
                                   /\ SubSeq(q.redirect.host, n - 1, n) \in allowedHosts
                                   /\ q.client = ClientID
                      IN /\ answer[h].location # {} =>
                               named /\ answer[h].location = {q.redirect}
                         /\ answer[h].location = {} /\ named =>
                               answer[h].status \in {403, 405}
                         /\ answer[h].location # {} =>
                               answer[h].error \in {"none", "invalid_request",
                                                    "unsupported_response_type"}
    BY DEF ErrorsGoWhereTheyMay
  <2> DEFINE q == request[h]
             n == Len(q.redirect.host)
  <2>1. q \in AuthorizeRequests /\ answer[h] = HandleAuthorize(q)
    <3>1. q \in Requests /\ Settles(q, answer[h])
      BY DEF FrontInv, About, Number, Outcome
    <3> QED
      BY <3>1, RequestTypes DEF Requests, Settles
  <2>2. IsAllowedRedirect(q.redirect) <=>
            /\ q.redirect.scheme = "https" /\ n >= 2
            /\ SubSeq(q.redirect.host, n - 1, n) \in allowedHosts
    BY <2>1, RequestTypes, AllowedAreNamed
  <2>3. MapAuthorizeError(IssueError(q)) \in {"invalid_request", "unsupported_response_type"}
    BY DEF MapAuthorizeError
  <2>4. answer[h].location # {} =>
            /\ IsAllowedRedirect(q.redirect) /\ q.client = ClientID
            /\ answer[h].location = {q.redirect}
            /\ answer[h].error \in {"none", "invalid_request", "unsupported_response_type"}
    BY <2>1, <2>3 DEF HandleAuthorize, Direct, Redirect
  <2>5. answer[h].location = {} /\ IsAllowedRedirect(q.redirect) /\ q.client = ClientID
            => answer[h].status \in {403, 405}
    BY <2>1 DEF HandleAuthorize, Direct, Redirect
  <2> HIDE DEF n
  <2> QED
    BY <2>2, <2>4, <2>5 DEF n
<1> QED
  BY <1>1, FrontAlways, PTL

\* RegisterClient and HandleAuthorize apply one rule to every redirect_uri
\* (service.go:203, handlers.go:116).
THEOREM RegisteredAreUsable == Spec => []RegisteredUsable
<1>1. FrontInv => RegisteredUsable
  <2> SUFFICES ASSUME FrontInv, NEW g \in Handlers, NEW h \in Handlers,
                      request[g].to = "register", answer[g].status = 201,
                      answer[h].status = 400, request[h].to = "authorize"
               PROVE  request[h].redirect \notin Range(request[g].redirects)
    BY DEF RegisteredUsable
  <2>1. answer[g] = HandleRegister(request[g])
    BY Settled DEF NoAnswer, Direct, Settles
  <2>2. answer[h] = HandleAuthorize(request[h])
    BY Settled DEF NoAnswer, Direct, Settles
  <2>3. \A i \in DOMAIN request[g].redirects : IsAllowedRedirect(request[g].redirects[i])
    BY <2>1 DEF HandleRegister, RegisterClient, Direct
  <2>4. ~IsAllowedRedirect(request[h].redirect)
    BY <2>2 DEF HandleAuthorize, Direct, Redirect
  <2> QED
    BY <2>3, <2>4 DEF Range
<1> QED
  BY <1>1, FrontAlways, PTL
=============================================================================
