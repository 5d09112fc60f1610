---------------------------- MODULE WeatherClient ----------------------------
(***************************************************************************)
(* The weather client (src/src/api/weather_client.c): make_request over    *)
(* the cache and the HTTP client.                                          *)
(*                                                                         *)
(* Every process runs one client, one call after the other.  A call that   *)
(* misses the cache is several steps, between which the other processes    *)
(* work on the same directory: the look-up, the answer of the HTTP client, *)
(* and the store.  The cache is ClientCache itself; of http_client_get the *)
(* module uses what HttpContract promises.                                 *)
(***************************************************************************)
EXTENDS ClientCache

CONSTANT MaxCall  \* bound: ticks that a call may take

\* What a body may be.  "answer": JSON that is not a refusal, under any HTTP
\* status; "refused": JSON whose "success" is false; "cut": not JSON, as the
\* beginning of an answer is.
Kinds == {"answer", "refused", "cut"}

ASSUME ContentsAssumption == Contents \subseteq Kinds
ASSUME MaxCallAssumption  == MaxCall \in Nat
\* A file that outlives its entry because a removal fails is ClientCache's
\* subject; here the directory may refuse to be scanned or written.
ASSUME FilesAssumption    == Faults \cap {"alloc", "unlink"} = {}

VARIABLES
    pc,     \* pc[p]: "idle", "http" after a miss, "store" with an answer
    key,    \* cache_key of the current or last request, None before any
    begun,  \* history: when it began, 0 between requests
    http,   \* http[p]: the body its HTTP client holds, or None
    answer  \* what a request returned in the last step, or None

callVars    == <<pc, key, begun, http, answer>>
weatherVars == <<vars, callVars>>

WeatherInit ==
    /\ Init
    /\ pc = [p \in Procs |-> "idle"]
    /\ key = [p \in Procs |-> None]
    /\ begun = [p \in Procs |-> 0]
    /\ http = [p \in Procs |-> None]
    /\ answer = None

-----------------------------------------------------------------------------
Parses(doc)  == doc.what # "cut"
Refused(doc) == doc.what = "refused"

\* make_request returns json, or NULL.
Return(p, json) ==
    /\ pc' = [pc EXCEPT ![p] = "idle"]
    /\ begun' = [begun EXCEPT ![p] = 0]
    /\ answer' = json

Fail(p) == Return(p, None)

\* make_request as far as the cache.
LookUp(p, k) ==
    /\ pc[p] = "idle"
    /\ Get(p, k)
    /\ key' = [key EXCEPT ![p] = k]
    /\ UNCHANGED http
    /\ IF ret'.json # None /\ Parses(ret'.json)
         THEN Return(p, ret'.json)
         ELSE /\ pc' = [pc EXCEPT ![p] = "http"]
              /\ begun' = [begun EXCEPT ![p] = now]
              /\ answer' = None

HttpGivesUnchecked(p, doc) ==
    /\ pc[p] = "http"
    /\ http' = [http EXCEPT ![p] = doc]
    /\ IF Parses(doc)
         THEN pc' = [pc EXCEPT ![p] = "store"] /\ answer' = None /\ UNCHANGED begun
         ELSE Fail(p)
    /\ UNCHANGED <<vars, key>>

\* http_client_get succeeds with the beginning of an answer, of any status
\* from 200 to 599; the body is parsed and looked into.
HttpGives(p, doc) ==
    /\ pc[p] = "http"
    /\ http' = [http EXCEPT ![p] = doc]
    /\ IF Parses(doc) /\ ~Refused(doc)
         THEN pc' = [pc EXCEPT ![p] = "store"] /\ answer' = None /\ UNCHANGED begun
         ELSE Fail(p)
    /\ UNCHANGED <<vars, key>>

HttpFailureIgnored(p) ==
    /\ pc[p] = "http"
    /\ UNCHANGED http
    /\ IF http[p] # None /\ Parses(http[p]) /\ ~Refused(http[p])
         THEN pc' = [pc EXCEPT ![p] = "store"] /\ answer' = None /\ UNCHANGED begun
         ELSE Fail(p)
    /\ UNCHANGED <<vars, key>>

\* http_client_get fails; it may have kept, dropped or replaced the body.
HttpFails(p) ==
    /\ pc[p] = "http"
    /\ \E body \in {http[p], None} \cup Fresh : http' = [http EXCEPT ![p] = body]
    /\ Fail(p)
    /\ UNCHANGED <<vars, key>>

\* The answer is stored and returned; whether it could be stored is ignored.
Store(p) ==
    /\ pc[p] = "store"
    /\ Set(p, key[p], http[p])
    /\ Return(p, http[p])
    /\ UNCHANGED <<key, http>>

\* weather_client_echo, which does not use the cache.
Echo(p) ==
    /\ pc[p] = "idle"
    /\ p \in up
    /\ \/ \E doc \in Fresh : http' = [http EXCEPT ![p] = doc]
       \/ http' = [http EXCEPT ![p] = None]
    /\ answer' = None
    /\ UNCHANGED <<vars, pc, key, begun>>

ClearCache(p) ==
    /\ pc[p] = "idle"
    /\ Clear(p) \/ ClearFails(p)
    /\ answer' = None
    /\ UNCHANGED <<pc, key, begun, http>>

Forget(p) ==
    /\ pc' = [pc EXCEPT ![p] = "idle"]
    /\ key' = [key EXCEPT ![p] = None]
    /\ begun' = [begun EXCEPT ![p] = 0]
    /\ http' = [http EXCEPT ![p] = None]
    /\ answer' = None

\* weather_client_create and weather_client_destroy; a process may also be
\* killed, in the middle of a call of the cache or not.
Start(p) == Create(p) /\ Forget(p)

End(p) ==
    /\ \/ Destroy(p)
       \/ pc[p] = "idle" /\ KilledInClear(p)
       \/ pc[p] = "store" /\ KilledInSet(p, key[p])
    /\ Forget(p)

Time ==
    /\ \A p \in Procs : pc[p] # "idle" => now - begun[p] < MaxCall
    /\ Tick
    /\ answer' = None
    /\ UNCHANGED <<pc, key, begun, http>>

WeatherNext ==
    \/ Time
    \/ \E p \in Procs :
         \/ Start(p) \/ End(p) \/ ClearCache(p) \/ Echo(p)
         \/ \E k \in Keys : LookUp(p, k)
         \/ \E doc \in Fresh : HttpGives(p, doc)
         \/ HttpFails(p)
         \/ Store(p)

WeatherSpec == WeatherInit /\ [][WeatherNext]_weatherVars

-----------------------------------------------------------------------------
(* Properties                                                              *)

\* Every variable has its type: the part of the proofs' invariant that says so.
WeatherTypeOK ==
    /\ TypeOK
    /\ pc \in [Procs -> {"idle", "http", "store"}]
    /\ key \in [Procs -> Keys \cup {None}]
    /\ begun \in [Procs -> Nat]
    /\ http \in [Procs -> Doc \cup {None}]
    /\ answer \in Doc \cup {None}

\* A request that returns data returns nothing older than the two lives in
\* the cache and one call: a call that is slow to store what it fetched
\* gives an old answer a new date.
AnswerAge == answer # None => now - answer.at <= 2 * TTL + MaxCall

\* From one request to the next of the same key, a process may get an older
\* answer than it had, because another one stores what it fetched before;
\* but never one that is older by more than one call.
AnswersGoBackOneCall ==
    [][answer' # None
         => answer'.at >= seen[ret'.proc][ret'.key] - MaxCall]_weatherVars

\* What a request stores and returns as the server's answer was fetched by
\* that request: a failed call of the HTTP client never lends the body of
\* an earlier one.
StoresItsOwn ==
    \A p \in Procs : pc[p] = "store" => http[p] # None /\ http[p].at >= begun[p]

\* No list and no file ever holds a refusal or half an answer, so that no
\* process is given one, however often it asks, and until the TTL is over.
OnlyAnswersCached ==
    /\ \A k \in Keys : files[k] # None /\ files[k].json # None =>
         Parses(files[k].json) /\ ~Refused(files[k].json)
    /\ \A p \in Procs : \A i \in DOMAIN entries[p] :
         Parses(entries[p][i].json) /\ ~Refused(entries[p][i].json)

=============================================================================
