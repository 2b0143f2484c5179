------------------------------- MODULE Portal -------------------------------
(***************************************************************************)
(* The portal (channels/portal.py): a local web server with a thread per   *)
(* request.  A search for contacts goes to the gateway that channels.toml  *)
(* names for the instance, through a cache with a time to live and one     *)
(* fetch at a time; a save replaces channels.toml and empties the cache.   *)
(*                                                                         *)
(* What is done under the service's own lock never blocks and is one step. *)
(* The contacts of a gateway are abstracted to the gateway they come from; *)
(* those of a page that failed are missing, which no property tells apart. *)
(* The other requests keep no state; approvals are in module Dispatcher.   *)
(* The channel service runs beside the portal: what the two modules would  *)
(* both define is named for the portal here.                               *)
(***************************************************************************)
EXTENDS Naturals

CONSTANTS
    Requests,     \* the requests the browsers make
    Instances, Gateways,
    None,         \* no gateway: the instance is not configured
    TTL,          \* how long contacts are kept (_CONTACTS_TTL_SECONDS)
    MaxTime       \* bound: the clock

ASSUME PortalAssumption ==
    /\ None \notin Gateways
    /\ TTL \in Nat \ {0} /\ MaxTime \in Nat

VARIABLES
    now,
    config,       \* channels.toml: the gateway of each instance
    cache,        \* _contacts_cache: when the contacts were stored, and whose they are
    locks,        \* _fetch_locks: the lock of each instance, 0 before there is one
    req,          \* where each request is, and what it has read
    \* History: the fetches that were under way when a save wrote the file,
    \* and the instances whose cache one of them filled since; the requests
    \* that waited while another one stored what they wait for.
    crossing, crossed, served

portalVars == <<now, config, cache, locks, req, crossing, crossed, served>>

Configs == [Instances -> Gateways \cup {None}]
Empty == [at |-> 0, gw |-> None]

Places == {"new", "looking", "waiting", "checking", "fetching", "storing",
           "posted", "written", "reloading", "answered", "failed"}

PortalTypeOK ==
    /\ now \in 0 .. MaxTime
    /\ config \in Configs
    /\ cache \in [Instances -> [at : 0 .. MaxTime, gw : Gateways \cup {None}]]
    /\ locks \in [Instances -> 0 .. 1]
    /\ req \in [Requests -> [at : Places, i : Instances, gw : Gateways \cup {None}, lock : 0 .. 1, post : Configs]]
    /\ crossing \subseteq Requests /\ crossed \subseteq Instances /\ served \subseteq Requests

PortalInit ==
    /\ now = 0
    /\ config \in [Instances -> Gateways]
    /\ cache = [i \in Instances |-> Empty] /\ locks = [i \in Instances |-> 0]
    /\ \E i \in Instances :
        req = [r \in Requests |-> [at |-> "new", i |-> i, gw |-> None, lock |-> 0, post |-> config]]
    /\ crossing = {} /\ crossed = {} /\ served = {}

Ticks ==
    /\ now < MaxTime
    /\ now' = now + 1
    /\ UNCHANGED <<config, cache, locks, req, crossing, crossed, served>>

Goes(r, place) == req' = [req EXCEPT ![r].at = place]

(* The request is over, and with it the lock it held. *)
Ends(r, place) == req' = [req EXCEPT ![r].at = place, ![r].lock = 0, ![r].gw = None]

-----------------------------------------------------------------------------
(* Searching. *)

(* _instance: the file is loaded for each search. *)
Search(r, i) ==
    /\ req[r].at = "new"
    /\ req' = [req EXCEPT ![r].i = i, ![r].gw = config[i],
                          ![r].at = IF config[i] = None THEN "failed" ELSE "looking"]
    /\ UNCHANGED <<now, config, cache, locks, crossing, crossed, served>>

(* _fresh() *)
Fresh(i) == cache[i].gw # None /\ now - cache[i].at < TTL

(* Fault: every search makes a lock of its own. *)
LockOfItsOwn(i) == locks[i] + 1

LockOf(i) == IF locks[i] = 0 THEN 1 ELSE locks[i]

(* The first look: the answer, or the lock to wait for. *)
Looks(r) ==
    LET i == req[r].i IN
    /\ req[r].at = "looking"
    /\ IF Fresh(i)
       THEN Ends(r, "answered") /\ UNCHANGED locks
       ELSE /\ locks' = [locks EXCEPT ![i] = LockOf(i)]
            /\ req' = [req EXCEPT ![r].at = "waiting", ![r].lock = LockOf(i)]
    /\ UNCHANGED <<now, config, cache, crossing, crossed, served>>

Holds(r) == req[r].lock # 0 /\ req[r].at # "waiting"

Acquires(r) ==
    /\ req[r].at = "waiting"
    /\ \A q \in Requests : Holds(q) => <<req[q].i, req[q].lock>> # <<req[r].i, req[r].lock>>
    /\ Goes(r, "checking")
    /\ UNCHANGED <<now, config, cache, locks, crossing, crossed, served>>

(* Fault: who waited for the lock fetches. *)
FreshNever(i) == FALSE

StillFresh(i) == Fresh(i)

(* The second look, under the lock. *)
LooksAgain(r) ==
    /\ req[r].at = "checking"
    /\ IF StillFresh(req[r].i) THEN Ends(r, "answered") ELSE Goes(r, "fetching")
    /\ UNCHANGED <<now, config, cache, locks, crossing, crossed, served>>

(* Fault: a request that fails keeps its lock. *)
FailsLocked(r) == Goes(r, "failed")

Fails(r) == Ends(r, "failed")

(* _fetch_all_contacts: the first page must come, of the others any may be  *)
(* missing.                                                                 *)
Fetches(r) ==
    /\ req[r].at = "fetching"
    /\ Goes(r, "storing") \/ Fails(r)
    /\ UNCHANGED <<now, config, cache, locks, crossing, crossed, served>>

Stores(r) ==
    LET i == req[r].i IN
    /\ req[r].at = "storing"
    /\ cache' = [cache EXCEPT ![i] = [at |-> now, gw |-> req[r].gw]]
    /\ Ends(r, "answered")
    /\ crossed' = IF r \in crossing THEN crossed \cup {i} ELSE crossed \ {i}
    /\ served' = served \cup {q \in Requests : req[q].at = "waiting" /\ req[q].i = i}
    /\ UNCHANGED <<now, config, locks, crossing>>

-----------------------------------------------------------------------------
(* Saving. *)

(* A save that the loader would refuse fails; the others carry every        *)
(* instance.                                                                *)
Save(r, post) ==
    /\ req[r].at = "new"
    /\ req' = [req EXCEPT ![r].at = "posted", ![r].post = post]
    /\ UNCHANGED <<now, config, cache, locks, crossing, crossed, served>>

Refused(r) ==
    /\ req[r].at = "posted"
    /\ Goes(r, "failed")
    /\ UNCHANGED <<now, config, cache, locks, crossing, crossed, served>>

(* _write_atomic: the file is replaced in one step. *)
Writes(r) ==
    /\ req[r].at = "posted"
    /\ config' = req[r].post
    /\ Goes(r, "written")
    /\ crossing' = crossing \cup {q \in Requests : req[q].at \in {"looking", "waiting"} \/ Holds(q)}
    /\ UNCHANGED <<now, cache, locks, crossed, served>>

(* Fault: the contacts of an instance that was there before are kept. *)
Uncleared == cache

Cleared == [i \in Instances |-> Empty]

Clears(r) ==
    /\ req[r].at = "written"
    /\ cache' = Cleared
    /\ crossed' = {} /\ served' = {}
    /\ Goes(r, "reloading")
    /\ UNCHANGED <<now, config, locks, crossing>>

(* public_config: the answer is what the file holds by now. *)
Reloads(r) ==
    /\ req[r].at = "reloading"
    /\ Goes(r, "answered")
    /\ UNCHANGED <<now, config, cache, locks, crossing, crossed, served>>

-----------------------------------------------------------------------------
Runs(r) ==
    \/ Looks(r) \/ Acquires(r) \/ LooksAgain(r) \/ Fetches(r) \/ Stores(r)
    \/ Refused(r) \/ Writes(r) \/ Clears(r) \/ Reloads(r)

PortalNext ==
    \/ Ticks
    \/ \E r \in Requests :
        \/ \E i \in Instances : Search(r, i)
        \/ \E post \in Configs : Save(r, post)
        \/ Runs(r)

PortalSpec == PortalInit /\ [][PortalNext]_portalVars

(* A thread goes on; every request to a gateway has a timeout.              *)
PortalFairness == \A r \in Requests : WF_portalVars(Runs(r))

PortalFairSpec == PortalSpec /\ PortalFairness

-----------------------------------------------------------------------------
(* At most one thread fetches the contacts of an instance, whatever         *)
(* searches and saves overlap; and a search that waited while another one   *)
(* stored them does not fetch them again, unless a save emptied the cache   *)
(* or they grew old meanwhile (_contacts, "Single-flight").                 *)
SingleFlight ==
    \A r \in Requests : req[r].at \in {"fetching", "storing"} =>
        /\ \A q \in Requests \ {r} :
            req[q].at \in {"fetching", "storing"} => req[q].i # req[r].i
        /\ r \in served => now - cache[req[r].i].at >= TTL

(* Outside a save, the cache holds contacts of the gateway the file names.  *)
(* A search that had read the file before the save wrote it is the          *)
(* exception: it stores the contacts of the old gateway after the save      *)
(* emptied the cache, and they are shown for TTL (save, _contacts).         *)
CacheOfConfig ==
    (\A r \in Requests : req[r].at # "written") =>
        \A i \in Instances \ crossed : cache[i].gw \in {None, config[i]}

(* Every search and every save is answered: a fetch that fails leaves the   *)
(* lock to those that wait for it (_contacts).                              *)
RequestsEnd ==
    \A r \in Requests :
        req[r].at \notin {"new", "answered", "failed"} ~> req[r].at \in {"answered", "failed"}
=============================================================================
