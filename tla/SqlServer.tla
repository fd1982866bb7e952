------------------------------ MODULE SqlServer ------------------------------
(***************************************************************************)
(* Queries in the SQL server.  A query may hold others in its WHERE        *)
(* clause: SqlScheduler keeps the path to the innermost open one on a      *)
(* stack, runs it, writes its result into the text of the query below and  *)
(* goes on with that.  SqlService asks ElasticSearch, or its cache, for    *)
(* ids, DocService asks the document cache and Redis for the documents.    *)
(*                                                                         *)
(* The tasks of a request are a Workflow series: one after the other, each *)
(* followed by its callback.  Handler threads run the callbacks of         *)
(* different requests side by side; calls[r] holds the function calls that *)
(* the callback of r has still to make.  Of a text only the query and what *)
(* was written into it matter, of a document its version.                  *)
(***************************************************************************)
EXTENDS Integers, Sequences, FiniteSets, SequencesExt, Functions

CONSTANTS Requests,
          Arrivals,        \* requests that may come [q, forceQuery, forwardSearch]
          Query,           \* name -> [idSearch, ids, select, limit, subs]
          Hits(_, _),      \* what ElasticSearch finds for a query and results
          Entities, Documents,  \* ids, and those with a document in Redis
          Facts,           \* triads [kgc_id, predicate, value, to_kgc_id]
          NoId,            \* "-1"
          MaxVersion, MaxFaults  \* bounds of the environment
Strings == Entities \cup {f.value : f \in Facts}  \* what may stand for an id or a value
ASSUME DocumentsAreEntities == Documents \subseteq Entities
ASSUME StringsFinite == IsFiniteSet(Strings)
ASSUME FactsLink == \A f \in Facts : f.to_kgc_id \in Entities \cup {NoId}
ASSUME QueriesTyped ==
  \A q \in DOMAIN Query :
    /\ Query[q].idSearch \in BOOLEAN /\ Query[q].ids \in Seq(Strings)
    /\ Query[q].limit \in Nat
    /\ Query[q].subs \in Seq([q : DOMAIN Query, behindID : BOOLEAN])
(* A nested query is a part of the text around it: among any queries there *)
(* is one with none of them inside.                                        *)
ASSUME QueriesNest ==
  \A Q \in SUBSET DOMAIN Query : Q # {} =>
    \E q \in Q : \A i \in DOMAIN Query[q].subs : Query[q].subs[i].q \notin Q
ASSUME HitsTyped ==
  \A q \in DOMAIN Query : ~Query[q].idSearch =>
    \A results \in [DOMAIN Query[q].subs -> SUBSET Strings] : Hits(q, results) \in Seq(Strings)
ASSUME ArrivalsTyped ==
  /\ DOMAIN Query \cap Entities = {}
  /\ Arrivals \subseteq [q : DOMAIN Query \cup Entities, forceQuery : BOOLEAN,
                        forwardSearch : BOOLEAN]
ASSUME MaxVersionPositive == MaxVersion \in Nat \ {0}

VARIABLES docs,       \* Redis: version of each document
          esCache,    \* text -> reply of ElasticSearch
          docCache,   \* id -> version
          request,    \* [q, forceQuery, forwardSearch, docs: at its start]
          taskStack,  \* tasks [q, results, entity_ids, entity_map], the top last
          calls,      \* calls the running callback has to make, the next first
          series,     \* requests to ElasticSearch and Redis, in their order
          answers,    \* replies given: sequences of [id, version]
          faults      \* history: what went wrong in each request
caches == <<esCache, docCache>>
work == <<taskStack, calls, series>>
vars == <<docs, caches, request, work, answers, faults>>

FaultKinds == {"error", "unparsed", "failed", "dropped"}
Free == [q |-> "none"]
Empty == [e \in {} |-> 0]
NewTask(q) == [q |-> q, results |-> <<>>, entity_ids |-> <<>>, entity_map |-> Empty]
Top(r) == Last(taskStack[r])

Init == /\ docs = [e \in Documents |-> 1]
        /\ esCache = <<>> /\ docCache = Empty
        /\ request = [r \in Requests |-> Free]
        /\ taskStack = [r \in Requests |-> <<>>]
        /\ calls = [r \in Requests |-> <<>>]
        /\ series = [r \in Requests |-> <<>>]
        /\ answers = [r \in Requests |-> <<>>]
        /\ faults = [r \in Requests |-> {}]

-----------------------------------------------------------------------------
(* Control: the next call of r is fn; it makes the calls of todo in turn.  *)
Calling(r, fn) == calls[r] # <<>> /\ Head(calls[r]).fn = fn
Call(r, todo) == calls' = [calls EXCEPT ![r] = todo \o Tail(@)]
Resume(r, todo) == calls' = [calls EXCEPT ![r] = todo]
Fn(fn) == <<[fn |-> fn]>>
FnGetDocs(ids, callback) == <<[fn |-> "getDocs", ids |-> ids, callback |-> callback]>>
SetTop(r, task) == taskStack' = [taskStack EXCEPT ![r] = Append(Front(@), task)]
PushBack(r, task) == series' = [series EXCEPT ![r] = Append(@, task)]
MayFail == Cardinality(UNION {{r} \X faults[r] : r \in Requests}) < MaxFaults
Fault(r, what) == faults' = [faults EXCEPT ![r] = @ \cup what]

(* The caches, as TimedCache promises them of lru_cache: a lookup finds    *)
(* what was inserted last, or misses (evicted, or expired for now).        *)
Merge(m, n) == [x \in DOMAIN m \cup DOMAIN n |-> IF x \in DOMAIN n THEN n[x] ELSE m[x]]

(* The ids of a vector that are in S, found by walking along it.           *)
InOrder(ids, S) ==
  LET kept[i \in 0..Len(ids)] ==
        IF i = 0 THEN <<>>
        ELSE IF ids[i] \in S THEN Append(kept[i - 1], ids[i]) ELSE kept[i - 1]
  IN kept[Len(ids)]

-----------------------------------------------------------------------------
(* A request arrives: SQLCtr::searchBySQL, SQLTask::proceed, DocCtr.       *)
Start(r, arrival) ==
  /\ request[r] = Free
  /\ request' = [request EXCEPT ![r] = [q |-> arrival.q, forceQuery |-> arrival.forceQuery,
                                        forwardSearch |-> arrival.forwardSearch, docs |-> docs]]
  /\ taskStack' = [taskStack EXCEPT ![r] = <<NewTask(arrival.q)>>]
  /\ Resume(r, IF arrival.q \in Entities THEN FnGetDocs(<<arrival.q>>, "respond")
                                         ELSE Fn("dispatch"))
  /\ UNCHANGED <<docs, caches, series, answers, faults>>

-----------------------------------------------------------------------------
(* dispatch: the first query in the text of the top task is pushed ...     *)
Resolved(task) == Len(task.results) = Len(Query[task.q].subs)

Descend(r) ==
  /\ Calling(r, "dispatch")
  /\ ~Resolved(Top(r))
  /\ LET sub == Query[Top(r).q].subs[Len(Top(r).results) + 1] IN
     taskStack' = [taskStack EXCEPT ![r] = Append(@, NewTask(sub.q))]
  /\ UNCHANGED <<docs, caches, request, calls, series, answers, faults>>

(* ... or, if there is none, SqlService::searchBySql runs the task.        *)
TextOf(task) == [q |-> task.q, results |-> task.results]
RequestText(r) == [q |-> request[r].q, results |-> <<>>]
Running(r) == Calling(r, "dispatch") /\ Resolved(Top(r))

IDs(task) == IF Query[task.q].subs = <<>> THEN Query[task.q].ids
             ELSE SetToSeq(UNION Range(task.results))
SearchByIds(r) ==
  /\ Running(r)
  /\ Query[Top(r).q].idSearch
  /\ Call(r, FnGetDocs(IDs(Top(r)), "postProcess"))
  /\ UNCHANGED <<docs, caches, request, taskStack, series, answers, faults>>

(* dealWithESResponse: a reply without hits counts as no hits, and after   *)
(* one that does not parse, DocService::getDocs is called twice.           *)
DealWithESResponse(reply) ==
  CASE reply.kind = "hits"     -> FnGetDocs(reply.ids, "postProcess")
    [] reply.kind = "error"    -> FnGetDocs(<<>>, "postProcess")
    [] reply.kind = "unparsed" -> FnGetDocs(<<>>, "postProcess")
                                    \o FnGetDocs(<<>>, "postProcess")
FaultOf(reply) == IF reply.kind = "hits" THEN {} ELSE {reply.kind}

LookupKeyOfRequest(r) == RequestText(r)  \* mutant: the key that esCallback uses
LookupKey(r) == TextOf(Top(r))
MayHit(r) == LookupKey(r) \in DOMAIN esCache /\ ~request[r].forceQuery

SearchCached(r) ==
  /\ Running(r)
  /\ ~Query[Top(r).q].idSearch
  /\ MayHit(r)
  /\ Call(r, DealWithESResponse(esCache[LookupKey(r)]))
  /\ Fault(r, FaultOf(esCache[LookupKey(r)]))
  /\ UNCHANGED <<docs, caches, request, taskStack, series, answers>>

SearchES(r) ==
  /\ Running(r)
  /\ ~Query[Top(r).q].idSearch
  /\ PushBack(r, [kind |-> "search", text |-> TextOf(Top(r))])
  /\ Call(r, <<>>)
  /\ UNCHANGED <<docs, caches, request, taskStack, answers, faults>>

-----------------------------------------------------------------------------
(* DocService::getDocs.                                                    *)
MayBeCachedAnyway(r, ids) == ToSet(ids) \cap DOMAIN docCache  \* mutant: forceQuery ignored
MayBeCached(r, ids) == IF request[r].forceQuery THEN {} ELSE ToSet(ids) \cap DOMAIN docCache

GetDocs(r) ==
  /\ Calling(r, "getDocs")
  /\ \E cached \in SUBSET MayBeCached(r, Head(calls[r]).ids) :
       LET call   == Head(calls[r])
           missed == InOrder(call.ids, ToSet(call.ids) \ cached)
       IN /\ SetTop(r, [Top(r) EXCEPT !.entity_ids = call.ids,
                                      !.entity_map = Merge(@, Restrict(docCache, cached))])
          /\ IF missed = <<>>
               THEN Call(r, Fn(call.callback)) /\ UNCHANGED series
               ELSE /\ PushBack(r, [kind |-> "mget", ids |-> missed,
                                    callback |-> call.callback])
                    /\ Call(r, <<>>)
  /\ UNCHANGED <<docs, caches, request, answers, faults>>

(* sqlPostProcess: documents without the selected predicates are dropped,  *)
(* and of more than limit the first in the order of the ids are kept; the  *)
(* test comes after the first, so that a limit of 0 keeps one.             *)
Predicates(e) == {f.predicate : f \in {g \in Facts : g.kgc_id = e}}
Having(select, ids) == {e \in ids : select \subseteq Predicates(e)}
Limited(ids, found, limit) ==
  IF Cardinality(found) <= limit THEN found
  ELSE LET inOrder == InOrder(ids, found)
           n == IF limit = 0 THEN 1 ELSE limit
       IN ToSet(SubSeq(inOrder, 1, IF n < Len(inOrder) THEN n ELSE Len(inOrder)))

Processed(task) ==
  LET query == Query[task.q]
      found == Having(query.select, DOMAIN task.entity_map)
  IN [task EXCEPT !.entity_map = Restrict(@, Limited(task.entity_ids, found, query.limit))]

-----------------------------------------------------------------------------
(* dispatchCallback: what a query found is written into the text of the    *)
(* query below it, as ids behind "ID = (" and as values elsewhere.         *)
Selected(select, ids) == {f \in Facts : f.kgc_id \in ids /\ f.predicate \in select}
Links(facts) == {f.to_kgc_id : f \in facts} \ {NoId}
Found(select, entity_ids, found, behindID) ==
  IF select = {} THEN ToSet(entity_ids)
  ELSE IF behindID THEN Links(Selected(select, found))
  ELSE {f.value : f \in Selected(select, found)}

Return(r, task) ==
  /\ Len(taskStack[r]) > 1
  /\ LET below  == Front(taskStack[r])
         parent == Last(below)
         sub    == Query[parent.q].subs[Len(parent.results) + 1]
         found  == Found(Query[task.q].select, task.entity_ids, DOMAIN task.entity_map,
                         sub.behindID)
     IN taskStack' = [taskStack EXCEPT ![r] =
          Append(Front(below), [parent EXCEPT !.results = Append(@, found)])]
  /\ Call(r, Fn("dispatch"))

(* At the bottom of the stack the reply is sent, or searchForward replaces *)
(* the documents by those that the selected predicates lead to.            *)
Finish(r, task) ==
  /\ Len(taskStack[r]) = 1
  /\ LET next == Links(Selected(Query[task.q].select, DOMAIN task.entity_map))
     IN IF request[r].forwardSearch /\ next # {}
          THEN /\ SetTop(r, [task EXCEPT !.entity_map = Empty])
               /\ Call(r, FnGetDocs(SetToSeq(next), "respond"))
          ELSE SetTop(r, task) /\ Call(r, Fn("respond"))

DispatchCallback(r) ==
  /\ \/ Calling(r, "postProcess") /\ (Return(r, Processed(Top(r))) \/ Finish(r, Processed(Top(r))))
     \/ Calling(r, "dispatchCallback") /\ (Return(r, Top(r)) \/ Finish(r, Top(r)))
  /\ UNCHANGED <<docs, caches, request, series, answers, faults>>

(* responseCallback, SQLTask::callback, responseDocs.                      *)
Reply(task) == LET ids == InOrder(task.entity_ids, DOMAIN task.entity_map)
               IN [i \in DOMAIN ids |-> [id |-> ids[i], version |-> task.entity_map[ids[i]]]]
Respond(r) ==
  /\ Calling(r, "respond")
  /\ answers' = [answers EXCEPT ![r] = Append(@, Reply(Top(r)))]
  /\ Call(r, <<>>)
  /\ UNCHANGED <<docs, caches, request, taskStack, series, faults>>

-----------------------------------------------------------------------------
(* The series: its first task runs once the callback before it is over.    *)
(* A failure is one that Workflow reports after its retries.               *)
Pending(r, kind) == calls[r] = <<>> /\ series[r] # <<>> /\ Head(series[r]).kind = kind
Done(r) == series' = [series EXCEPT ![r] = Tail(@)]

Replies(text) == {[kind |-> "hits", ids |-> Hits(text.q, text.results)]}
                   \cup {[kind |-> k] : k \in IF MayFail THEN {"error", "unparsed"} ELSE {}}
SearchAnswered(r) ==
  /\ Pending(r, "search")
  /\ \E reply \in Replies(Head(series[r]).text) :
       /\ esCache' = Merge(esCache, [t \in {RequestText(r)} |-> reply])
       /\ Resume(r, DealWithESResponse(reply))
       /\ Fault(r, FaultOf(reply))
  /\ Done(r)
  /\ UNCHANGED <<docs, docCache, request, taskStack, answers>>

SearchFailedTwice(r) ==  \* mutant: no return, so that no hits are dealt with as well
  /\ Pending(r, "search")
  /\ MayFail
  /\ Resume(r, Fn("dispatchCallback") \o FnGetDocs(<<>>, "postProcess"))
  /\ Fault(r, {"failed"})
  /\ Done(r)
  /\ UNCHANGED <<docs, caches, request, taskStack, answers>>
SearchFailedSilently(r) ==  \* mutant: no callback
  /\ Pending(r, "search")
  /\ MayFail
  /\ Resume(r, <<>>)
  /\ Fault(r, {"failed"})
  /\ Done(r)
  /\ UNCHANGED <<docs, caches, request, taskStack, answers>>
SearchFailed(r) ==
  /\ Pending(r, "search")
  /\ MayFail
  /\ Resume(r, Fn("dispatchCallback"))
  /\ Fault(r, {"failed"})
  /\ Done(r)
  /\ UNCHANGED <<docs, caches, request, taskStack, answers>>

(* Redis reads the documents, and docProcessCallback sees them later.      *)
MgetRead(r) ==
  /\ Pending(r, "mget")
  /\ series' = [series EXCEPT ![r][1] = [kind |-> "mgetRead", callback |-> @.callback,
                    read |-> Restrict(docs, ToSet(@.ids) \cap Documents)]]
  /\ UNCHANGED <<docs, caches, request, taskStack, calls, answers, faults>>

MgetAnswered(r) ==
  /\ Pending(r, "mgetRead")
  /\ LET task == Head(series[r]) IN
       /\ SetTop(r, [Top(r) EXCEPT !.entity_map = Merge(@, task.read)])
       /\ docCache' = Merge(docCache, task.read)
       /\ Resume(r, Fn(task.callback))
  /\ Done(r)
  /\ UNCHANGED <<docs, esCache, request, answers, faults>>

MgetFailed(r) ==
  /\ Pending(r, "mget")
  /\ MayFail
  /\ Resume(r, Fn(Head(series[r]).callback))
  /\ Fault(r, {"failed"})
  /\ Done(r)
  /\ UNCHANGED <<docs, caches, request, taskStack, answers>>

(* An error reply of Redis: no array, and nobody is called back.           *)
MgetError(r) ==
  /\ Pending(r, "mget")
  /\ MayFail
  /\ Fault(r, {"dropped"})
  /\ Done(r)
  /\ UNCHANGED <<docs, caches, request, taskStack, calls, answers>>

-----------------------------------------------------------------------------
(* The series is over, and its callback deletes the context.               *)
SeriesOverEarly(r) == /\ calls[r] = <<>>  \* mutant: deleted with the callback that replied
                      /\ taskStack[r] # <<>>
                      /\ taskStack' = [taskStack EXCEPT ![r] = <<>>]
                      /\ UNCHANGED <<docs, caches, request, calls, series, answers, faults>>
SeriesOver(r) == /\ calls[r] = <<>> /\ series[r] = <<>>
                 /\ taskStack[r] # <<>>
                 /\ taskStack' = [taskStack EXCEPT ![r] = <<>>]
                 /\ UNCHANGED <<docs, caches, request, calls, series, answers, faults>>

(* The indexer rewrites a document.                                        *)
Rewrite(e) == /\ docs[e] < MaxVersion
              /\ docs' = [docs EXCEPT ![e] = @ + 1]
              /\ UNCHANGED <<caches, request, work, answers, faults>>

Run(r) == \/ Descend(r) \/ SearchByIds(r) \/ SearchCached(r) \/ SearchES(r)
          \/ GetDocs(r) \/ DispatchCallback(r) \/ Respond(r)
Complete(r) == \/ SearchAnswered(r) \/ SearchFailed(r)
               \/ MgetRead(r) \/ MgetAnswered(r) \/ MgetFailed(r) \/ MgetError(r)
               \/ SeriesOver(r)

Next == \/ \E r \in Requests, arrival \in Arrivals : Start(r, arrival)
        \/ \E r \in Requests : Run(r) \/ Complete(r)
        \/ \E e \in Documents : Rewrite(e)

Spec == Init /\ [][Next]_vars

(* Handler threads run, and Workflow completes every task.                 *)
FairSpec == Spec /\ \A r \in Requests : WF_vars(Run(r)) /\ WF_vars(Complete(r))

-----------------------------------------------------------------------------
Texts == [q : DOMAIN Query, results : Seq(SUBSET Strings)]
Versions == 1..MaxVersion
Maps == UNION {[D -> Versions] : D \in SUBSET Documents}
Tasks == [q : DOMAIN Query \cup Entities, results : Seq(SUBSET Strings),
          entity_ids : Seq(Strings), entity_map : Maps]
Callbacks == {"postProcess", "respond"}
Calls == [fn : {"dispatch", "postProcess", "dispatchCallback", "respond"}]
           \cup [fn : {"getDocs"}, ids : Seq(Strings), callback : Callbacks]
SeriesTasks == [kind : {"search"}, text : Texts]
                 \cup [kind : {"mget"}, ids : Seq(Strings), callback : Callbacks]
                 \cup [kind : {"mgetRead"}, callback : Callbacks, read : Maps]
ESReplies == [kind : {"hits"}, ids : Seq(Strings)] \cup [kind : {"error", "unparsed"}]
Served == [q : DOMAIN Query \cup Entities, forceQuery : BOOLEAN, forwardSearch : BOOLEAN,
           docs : [Documents -> Versions]]
(* Besides the types: the context is there as long as anybody needs it.    *)
TypeOK ==
  /\ docs \in [Documents -> Versions]
  /\ docCache \in Maps
  /\ DOMAIN esCache \subseteq Texts
  /\ \A t \in DOMAIN esCache : esCache[t] \in ESReplies
  /\ request \in [Requests -> Served \cup {Free}]
  /\ taskStack \in [Requests -> Seq(Tasks)]
  /\ calls \in [Requests -> Seq(Calls)] /\ series \in [Requests -> Seq(SeriesTasks)]
  /\ answers \in [Requests -> Seq(Seq([id : Documents, version : Versions]))]
  /\ faults \in [Requests -> SUBSET FaultKinds]
  /\ \A r \in Requests : calls[r] # <<>> \/ series[r] # <<>> => taskStack[r] # <<>>

(* What a query means: the queries in its text first, then the query with  *)
(* their results in their places.                                          *)
SubResult(q, i, meaning) ==
  LET sub == Query[q].subs[i]
  IN Found(Query[sub.q].select, meaning[sub.q].ids, meaning[sub.q].found, sub.behindID)
MeaningOf(q, meaning) ==
  LET query == Query[q]
      results == [i \in DOMAIN query.subs |-> SubResult(q, i, meaning)]
      ids == IF query.idSearch THEN IDs([q |-> q, results |-> results]) ELSE Hits(q, results)
  IN [ids |-> ids,
      found |-> Limited(ids, Having(query.select, ToSet(ids) \cap Documents), query.limit)]
Meaning[q \in DOMAIN Query] == MeaningOf(q, Meaning)

Expected(r) ==
  IF request[r].q \notin DOMAIN Query THEN InOrder(<<request[r].q>>, Documents)
  ELSE LET meaning == Meaning[request[r].q]
           next == Links(Selected(Query[request[r].q].select, meaning.found))
       IN IF request[r].forwardSearch /\ next # {}
            THEN InOrder(SetToSeq(next), Documents)
            ELSE InOrder(meaning.ids, meaning.found)

(* A request that meets no failure itself is answered with what its query  *)
(* means, however often its parts were cached, dropped and fetched again,  *)
(* and whatever failed in other requests: only replies of ElasticSearch    *)
(* without hits are handed on through the cache, to those who read them.   *)
AnswersRight ==
  \A r \in Requests : faults[r] = {} =>
    \A i \in DOMAIN answers[r] :
      [j \in DOMAIN answers[r][i] |-> answers[r][i][j].id] = Expected(r)

(* No request is answered twice, unless it was given a reply that does not *)
(* parse, by ElasticSearch or from the cache.                              *)
AnsweredOnce == \A r \in Requests : Len(answers[r]) > 1 => "unparsed" \in faults[r]

(* forceQuery: every document in the answer is as new as Redis was when    *)
(* the request came, although answers to others are cached meanwhile.      *)
ForcedAnswersFresh ==
  \A r \in Requests : request[r] # Free /\ request[r].forceQuery =>
    \A i \in DOMAIN answers[r] : \A j \in DOMAIN answers[r][i] :
      answers[r][i][j].version >= request[r].docs[answers[r][i][j].id]

(* Every request is answered, unless Redis replied with an error: then     *)
(* nobody calls the request back.                                          *)
EventuallyAnswered ==
  \A r \in Requests : request[r] # Free ~> answers[r] # <<>> \/ "dropped" \in faults[r]
=============================================================================
