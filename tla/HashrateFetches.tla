---------------------------- MODULE HashrateFetches ----------------------------
(***************************************************************************)
(* What a poll of the hashrate monitor awaits: _fetchJson and the three    *)
(* functions that call it.  The network's hashrate is asked of several     *)
(* URLs at once, and the first valid answer is taken; the pool's of one.   *)
(*                                                                         *)
(* The fetches of one poll are followed, while no other is in flight.  A   *)
(* fetch is one request after another as long as it is redirected; then    *)
(* the body of the response arrives part by part.                          *)
(***************************************************************************)
EXTENDS HashrateMonitor

CONSTANTS
  Urls,          \* networkDiffUrls, poolStatsUrl, poolHealthUrl
  MaxRedirects,  \* 3
  MaxBody        \* MAX_BODY_BYTES, in parts

ASSUME FetchAssumption ==
  /\ DOMAIN Urls = Stages
  /\ MaxRedirects \in Nat /\ MaxBody \in Nat

VARIABLE fetches   \* of the poll that is followed: each URL's, or None

fetchVars == <<vars, fetches>>

Request(redirects) == [phase |-> "asking", count |-> redirects]
Body(parts) == [phase |-> "reading", count |-> parts]
Answered == [phase |-> "answered", count |-> 0]
Failed == [phase |-> "failed", count |-> 0]
Silent == [phase |-> "silent", count |-> 0]  \* it will neither resolve nor reject

Fetching(s) == [url \in Urls[s] |-> Request(0)]

FetchInit == Init /\ fetches = None

-----------------------------------------------------------------------------
(* One fetch. *)

\* Mutation of Redirected: there is no limit (the count starts again, so that it stays finite).
RedirectedForever(url) ==
  /\ fetches[url].phase = "asking"
  /\ fetches' = [fetches EXCEPT ![url] = Request(IF @.count < MaxRedirects THEN @.count + 1 ELSE 0)]

\* 3xx: one request more, unless there were too many or it leads to a private host.
Redirected(url) ==
  /\ fetches[url].phase = "asking"
  /\ fetches' = [fetches EXCEPT ![url] = IF @.count < MaxRedirects THEN Request(@.count + 1) ELSE Failed]

\* 2xx: the body will follow.
Responds(url) ==
  /\ fetches[url].phase = "asking"
  /\ fetches' = [fetches EXCEPT ![url] = Body(0)]

\* 'data'
Part(url) ==
  /\ fetches[url].phase = "reading"
  /\ fetches' = [fetches EXCEPT ![url] = IF @.count < MaxBody THEN Body(@.count + 1) ELSE Failed]

\* 'end': the body is what the caller looks for, or not.
Ends(url) ==
  /\ fetches[url].phase = "reading"
  /\ \E outcome \in {Answered, Failed} : fetches' = [fetches EXCEPT ![url] = outcome]

\* Another status, a redirect that is refused, an 'error' before the response, or
\* 'timeout': nothing has come for a while.
Fails(url) ==
  /\ fetches[url].phase \in {"asking", "reading"}
  /\ fetches' = [fetches EXCEPT ![url] = Failed]

\* The connection ends within the body: the response has no listener for that.
IsCut(url) ==
  /\ fetches[url].phase = "reading"
  /\ fetches' = [fetches EXCEPT ![url] = Silent]

Fetch(url) ==
  /\ Redirected(url) \/ Responds(url) \/ Part(url) \/ Ends(url) \/ Fails(url) \/ IsCut(url)
  /\ UNCHANGED vars

-----------------------------------------------------------------------------
(* The poll. *)

\* Promise.any, and the functions around it.
Resolved == \E url \in DOMAIN fetches : fetches[url] = Answered
Rejected == \A url \in DOMAIN fetches : fetches[url] = Failed

\* _poll is resumed.
Resumes ==
  /\ fetches # None
  /\ \/ Rejected /\ (NetworkFails \/ StatsFails \/ HealthFails)
     \/ Resolved /\ (Succeeds \/ StatsFails \/ HealthFails)
  /\ fetches' = IF polls'["stats"] > 0 THEN Fetching("stats")
                ELSE IF polls'["health"] > 0 THEN Fetching("health")
                ELSE None

\* Nothing but the fetches of the poll decides how it goes on: while they are
\* followed no other poll begins.
Begins ==
  /\ Start \/ TimerPoll \/ PollNow
  /\ \/ polls' = polls /\ UNCHANGED fetches
     \/ polls' # polls /\ fetches = None /\ UNCHANGED fetches
     \/ polls' # polls /\ InFlight = 0 /\ fetches' = Fetching("network")

FetchNext ==
  \/ Begins \/ Resumes
  \/ (Stop \/ Second) /\ UNCHANGED fetches
  \/ fetches = None /\ Answer /\ UNCHANGED fetches
  \/ fetches # None /\ \E url \in DOMAIN fetches : Fetch(url)

\* Servers answer, go on, or are silent for too long.
FetchFairness ==
  /\ \A url \in UNION {Urls[s] : s \in Stages} :
       WF_fetchVars(fetches # None /\ url \in DOMAIN fetches /\ Fetch(url))
  /\ WF_fetchVars(Resumes)

FetchSpec == FetchInit /\ [][FetchNext]_fetchVars /\ FetchFairness

-----------------------------------------------------------------------------
\* Every poll comes to its end, wherever its requests are redirected, however slowly
\* a body drips in and whoever stops or restarts the monitor meanwhile: unless a
\* response breaks off within its body.
PollEnds ==
  (fetches # None) ~> (fetches = None \/ \E url \in DOMAIN fetches : fetches[url] = Silent)

=============================================================================
