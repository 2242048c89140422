---------------------------- MODULE ProfileCache ----------------------------
(***************************************************************************)
(* The profile cache: GetProfile looks a profile up in bigcache and, on a  *)
(* miss, has profileLoadCoordinator refill the user's profiles, one fetch  *)
(* per user at a time, before it looks again.                              *)
(*                                                                         *)
(* The first critical section of Load is one step.  The second is two: a   *)
(* waiter looks at the channel and the error without the mutex, so it may  *)
(* come between.  Everything else interleaves.  External: the user service *)
(* lists any profiles, the cache drops entries of age                      *)
(* profileCacheLifeWindow.  A load state lives on the heap; here it is one *)
(* of a pool, and free when no caller has it.                              *)
(***************************************************************************)
EXTENDS FiniteSets, Naturals

CONSTANTS
    Users, Profiles,
    Callers,        \* the goroutines that call GetProfile
    Loads,          \* bound: the load states, one per caller is enough
    CacheFaults,    \* TRUE: bigcache may fail other than by ErrEntryNotFound
    None            \* "no load state", "no user", "no profile"

ASSUME ConstantsAssumption ==
    /\ IsFiniteSet(Callers) /\ IsFiniteSet(Loads)
    /\ Cardinality(Loads) >= Cardinality(Callers)
    /\ CacheFaults \in BOOLEAN
    /\ None \notin Users \union Profiles \union Loads

Errors == {"nil", "canceled", "other"}

VARIABLES
    cache,      \* cache[u]: the profiles of user u that bigcache has
    loads,      \* the coordinator's map; None: no entry
    done, err,  \* of a load state: its channel is closed; its error
    refill,     \* history: refill[l]: what the fetch of load state l listed
    ctxDone,    \* ctxDone[c]: the context of c's call
    pc,         \* where caller c is
    user, profile, \* the arguments of its call
    load,       \* its local loadState
    loadErr,    \* the owner's local err
    todo        \* listed profiles the owner has not stored yet

state == <<done, err, refill>>
call == <<user, profile>>
vars == <<cache, loads, state, ctxDone, pc, call, load, loadErr, todo>>

Init ==
    /\ cache = [u \in Users |-> {}]
    /\ loads = [u \in Users |-> None]
    /\ done = [l \in Loads |-> FALSE]
    /\ err = [l \in Loads |-> "nil"]
    /\ refill = [l \in Loads |-> {}]
    /\ ctxDone = [c \in Callers |-> FALSE]
    /\ pc = [c \in Callers |-> "idle"]
    /\ user = [c \in Callers |-> None]
    /\ profile = [c \in Callers |-> None]
    /\ load = [c \in Callers |-> None]
    /\ loadErr = [c \in Callers |-> "nil"]
    /\ todo = [c \in Callers |-> {}]

-----------------------------------------------------------------------------
\* Load states that nobody but c can still reach.
Garbage(c) == {l \in Loads : \A d \in Callers \ {c} : load[d] # l}

\* GetProfile returns; a load state that nobody else has is as new.
Return(c) ==
    /\ done' = [l \in Loads |-> IF l \in Garbage(c) THEN FALSE ELSE done[l]]
    /\ err' = [l \in Loads |-> IF l \in Garbage(c) THEN "nil" ELSE err[l]]
    /\ refill' = [l \in Loads |-> IF l \in Garbage(c) THEN {} ELSE refill[l]]
    /\ ctxDone' = [ctxDone EXCEPT ![c] = FALSE]
    /\ pc' = [pc EXCEPT ![c] = "idle"]
    /\ user' = [user EXCEPT ![c] = None]
    /\ profile' = [profile EXCEPT ![c] = None]
    /\ load' = [load EXCEPT ![c] = None]
    /\ loadErr' = [loadErr EXCEPT ![c] = "nil"]
    /\ todo' = [todo EXCEPT ![c] = {}]

GoTo(c, where) == pc' = [pc EXCEPT ![c] = where]

Cancel(c) ==
    /\ pc[c] # "idle"
    /\ ~ctxDone[c]
    /\ ctxDone' = [ctxDone EXCEPT ![c] = TRUE]
    /\ UNCHANGED <<cache, loads, state, pc, call, load, loadErr, todo>>

GetProfile(c, u, p) ==
    /\ pc[c] = "idle"
    /\ GoTo(c, "lookup")
    /\ user' = [user EXCEPT ![c] = u]
    /\ profile' = [profile EXCEPT ![c] = p]
    /\ UNCHANGED <<cache, loads, state, ctxDone, load, loadErr, todo>>

Cached(c) == profile[c] \in cache[user[c]]

\* Fast path, or a cache error that is returned as it is.
LookupReturns(c) ==
    /\ pc[c] = "lookup"
    /\ Cached(c) \/ CacheFaults
    /\ Return(c)
    /\ UNCHANGED <<cache, loads>>

LookupMisses(c) ==
    /\ pc[c] = "lookup"
    /\ ~Cached(c)
    /\ GoTo(c, "load")
    /\ UNCHANGED <<cache, loads, state, ctxDone, call, load, loadErr, todo>>

-----------------------------------------------------------------------------
(* Load.                                                                   *)

Free(l) == \A c \in Callers : load[c] # l

\* Nobody is within the second critical section.
Unlocked == \A c \in Callers : pc[c] # "closing"

\* Mutant: the map is not looked at.
OwnAnyway(c) ==
    /\ pc[c] = "load"
    /\ Unlocked
    /\ \E l \in Loads :
        /\ Free(l)
        /\ loads' = [loads EXCEPT ![user[c]] = l]
        /\ load' = [load EXCEPT ![c] = l]
    /\ GoTo(c, "fetch")
    /\ UNCHANGED <<cache, state, ctxDone, call, loadErr, todo>>

\* First critical section, no entry: the caller becomes the owner of a load.
Own(c) ==
    /\ pc[c] = "load"
    /\ Unlocked
    /\ loads[user[c]] = None
    /\ \E l \in Loads :
        /\ Free(l)
        /\ loads' = [loads EXCEPT ![user[c]] = l]
        /\ load' = [load EXCEPT ![c] = l]
    /\ GoTo(c, "fetch")
    /\ UNCHANGED <<cache, state, ctxDone, call, loadErr, todo>>

\* First critical section, an entry: the caller waits for that load.
Join(c) ==
    /\ pc[c] = "load"
    /\ Unlocked
    /\ loads[user[c]] # None
    /\ load' = [load EXCEPT ![c] = loads[user[c]]]
    /\ GoTo(c, "wait")
    /\ UNCHANGED <<cache, loads, state, ctxDone, call, loadErr, todo>>

\* Mutant: who joined a load that failed loads for itself.
WaitRetries(c) ==
    /\ pc[c] = "wait"
    /\ done[load[c]]
    /\ IF err[load[c]] = "nil"
         THEN GoTo(c, "reread") /\ UNCHANGED load
         ELSE GoTo(c, "load") /\ load' = [load EXCEPT ![c] = None]
    /\ UNCHANGED <<cache, loads, state, ctxDone, call, loadErr, todo>>

\* The channel is closed, and the shared error decides.
WaitEnds(c) ==
    /\ pc[c] = "wait"
    /\ done[load[c]]
    /\ IF err[load[c]] = "nil"
         THEN GoTo(c, "reread") /\ UNCHANGED <<state, ctxDone, call, load, loadErr, todo>>
         ELSE Return(c)
    /\ UNCHANGED <<cache, loads>>

WaitCancelled(c) ==
    /\ pc[c] = "wait"
    /\ ctxDone[c]
    /\ Return(c)
    /\ UNCHANGED <<cache, loads>>

\* Mutant: the flattened list is made with its length, not its capacity, and
\* starts with empty profiles.
FetchPads(c, listed) ==
    /\ pc[c] = "fetch"
    /\ ~ctxDone[c]
    /\ refill' = [refill EXCEPT ![load[c]] = listed \union {None}]
    /\ todo' = [todo EXCEPT ![c] = listed]
    /\ GoTo(c, "store")
    /\ UNCHANGED <<cache, loads, done, err, ctxDone, call, load, loadErr>>

\* GetProfiles answers: any profiles of the user.
FetchSucceeds(c, listed) ==
    /\ pc[c] = "fetch"
    /\ ~ctxDone[c]
    /\ refill' = [refill EXCEPT ![load[c]] = listed]
    /\ todo' = [todo EXCEPT ![c] = listed]
    /\ GoTo(c, "store")
    /\ UNCHANGED <<cache, loads, done, err, ctxDone, call, load, loadErr>>

FetchFails(c) ==
    /\ pc[c] = "fetch"
    /\ loadErr' = [loadErr EXCEPT ![c] = IF ctxDone[c] THEN "canceled" ELSE "other"]
    /\ GoTo(c, "publish")
    /\ UNCHANGED <<cache, loads, state, ctxDone, call, load, todo>>

\* One Set per listed profile; readers see the cache in between.
Store(c, p) ==
    /\ pc[c] = "store"
    /\ p \in todo[c]
    /\ cache' = [cache EXCEPT ![user[c]] = @ \union {p}]
    /\ todo' = [todo EXCEPT ![c] = @ \ {p}]
    /\ UNCHANGED <<loads, state, ctxDone, pc, call, load, loadErr>>

\* A Set fails: what was stored before stays.
StoreFails(c) ==
    /\ pc[c] = "store"
    /\ todo[c] # {}
    /\ CacheFaults
    /\ loadErr' = [loadErr EXCEPT ![c] = "other"]
    /\ GoTo(c, "publish")
    /\ UNCHANGED <<cache, loads, state, ctxDone, call, load, todo>>

\* Mutant: the loop over the listed profiles ends one early.
StoredButOne(c) ==
    /\ pc[c] = "store"
    /\ Cardinality(todo[c]) <= 1
    /\ GoTo(c, "publish")
    /\ UNCHANGED <<cache, loads, state, ctxDone, call, load, loadErr, todo>>

StoreDone(c) ==
    /\ pc[c] = "store"
    /\ todo[c] = {}
    /\ GoTo(c, "publish")
    /\ UNCHANGED <<cache, loads, state, ctxDone, call, load, loadErr, todo>>

\* Mutant: the channel is closed where the error has to be set.
CloseFirst(c) ==
    /\ pc[c] = "publish"
    /\ Unlocked
    /\ done' = [done EXCEPT ![load[c]] = TRUE]
    /\ GoTo(c, "closing")
    /\ UNCHANGED <<cache, loads, err, refill, ctxDone, call, load, loadErr, todo>>

\* Second critical section: the mutex is taken and the error set,
SetError(c) ==
    /\ pc[c] = "publish"
    /\ Unlocked
    /\ err' = [err EXCEPT ![load[c]] = loadErr[c]]
    /\ GoTo(c, "closing")
    /\ UNCHANGED <<cache, loads, done, refill, ctxDone, call, load, loadErr, todo>>

\* Mutant: a failed load leaves its entry in the map and its channel open.
PublishOnSuccess(c) ==
    /\ pc[c] = "closing"
    /\ IF loadErr[c] = "nil"
         THEN /\ loads' = [loads EXCEPT ![user[c]] = None]
              /\ done' = [done EXCEPT ![load[c]] = TRUE]
         ELSE UNCHANGED <<loads, done>>
    /\ GoTo(c, "loaded")
    /\ UNCHANGED <<cache, err, refill, ctxDone, call, load, loadErr, todo>>

\* and the entry removed, the channel closed and the mutex given back: one
\* step, since waiters look at the channel only and all others need the mutex.
Publish(c) ==
    /\ pc[c] = "closing"
    /\ loads' = [loads EXCEPT ![user[c]] = None]
    /\ done' = [done EXCEPT ![load[c]] = TRUE]
    /\ GoTo(c, "loaded")
    /\ UNCHANGED <<cache, err, refill, ctxDone, call, load, loadErr, todo>>

\* The owner goes by its own err.
OwnerGoesOn(c) ==
    /\ pc[c] = "loaded"
    /\ IF loadErr[c] = "nil"
         THEN GoTo(c, "reread") /\ UNCHANGED <<state, ctxDone, call, load, loadErr, todo>>
         ELSE Return(c)
    /\ UNCHANGED <<cache, loads>>

\* The profile, "not found", or a cache error: the call returns.
Reread(c) ==
    /\ pc[c] = "reread"
    /\ Return(c)
    /\ UNCHANGED <<cache, loads>>

-----------------------------------------------------------------------------
(* Entries are dropped 15 minutes after they were stored: long after the   *)
(* calls that refilled them or waited for the refill have reread them.     *)
Loading(c) == pc[c] \in {"wait", "fetch", "store", "publish", "closing", "loaded", "reread"}

Evict(u, p) ==
    /\ p \in cache[u]
    /\ \A c \in Callers : user[c] = u => ~Loading(c)
    /\ cache' = [cache EXCEPT ![u] = @ \ {p}]
    /\ UNCHANGED <<loads, state, ctxDone, pc, call, load, loadErr, todo>>

Step(c) ==
    \/ LookupReturns(c) \/ LookupMisses(c)
    \/ Own(c) \/ Join(c) \/ WaitEnds(c) \/ WaitCancelled(c)
    \/ \E listed \in SUBSET Profiles : FetchSucceeds(c, listed)
    \/ FetchFails(c)
    \/ \E p \in Profiles : Store(c, p)
    \/ StoreFails(c) \/ StoreDone(c) \/ SetError(c) \/ Publish(c)
    \/ OwnerGoesOn(c) \/ Reread(c)

Next ==
    \/ \E c \in Callers :
        \/ Step(c) \/ Cancel(c)
        \/ \E u \in Users, p \in Profiles : GetProfile(c, u, p)
    \/ \E u \in Users, p \in Profiles : Evict(u, p)

Spec == Init /\ [][Next]_vars

\* A goroutine that can go on does; the HTTP client's timeout ends fetches.
\* Strong, because the mutex may be taken by others in between: sync.Mutex
\* hands it to who has waited for a millisecond, so that nobody starves.
FairSpec == Spec /\ \A c \in Callers : SF_vars(Step(c))

-----------------------------------------------------------------------------
(* Properties.                                                             *)

TypeOK ==
    /\ cache \in [Users -> SUBSET Profiles]
    /\ loads \in [Users -> Loads \union {None}]
    /\ done \in [Loads -> BOOLEAN]
    /\ err \in [Loads -> Errors]
    /\ refill \in [Loads -> SUBSET Profiles]
    /\ ctxDone \in [Callers -> BOOLEAN]
    /\ pc \in [Callers -> {"idle", "lookup", "load", "wait", "fetch", "store",
                           "publish", "closing", "loaded", "reread"}]
    /\ user \in [Callers -> Users \union {None}]
    /\ profile \in [Callers -> Profiles \union {None}]
    /\ load \in [Callers -> Loads \union {None}]
    /\ loadErr \in [Callers -> Errors]
    /\ todo \in [Callers -> SUBSET Profiles]

Owner(c) == pc[c] \in {"fetch", "store", "publish", "closing"}

\* "makes sure only one fetch per user is in progress at a time".
OneFetchPerUser ==
    \A c, d \in Callers : Owner(c) /\ Owner(d) /\ user[c] = user[d] => c = d

\* Nobody waits on a channel that nobody will close: a load that is not done
\* is in the map, with an owner at work on it, for the user of the waiter.
WaitersHaveOwner ==
    \A c \in Callers : pc[c] = "wait" =>
        \/ done[load[c]]
        \/ \E d \in Callers :
            Owner(d) /\ load[d] = load[c] /\ user[d] = user[c] /\ loads[user[c]] = load[c]

\* Who rereads the cache after a refill, its own or one it joined, finds all
\* the refill listed: "not found" is never an artefact of the refill.
RefillIsReadable ==
    \A c \in Callers : pc[c] = "reread" => refill[load[c]] \subseteq cache[user[c]]

Flight(u) == {c \in Callers : user[c] = u /\ (Owner(c) \/ (pc[c] = "wait" /\ ~done[load[c]]))}

Outcome(c) ==
    CASE Owner(c) -> "pending"
      [] pc[c] = "wait" -> IF done[load[c]] THEN err[load[c]] ELSE "pending"
      [] pc[c] = "loaded" -> loadErr[c]
      [] pc[c] = "reread" -> "nil"
      [] OTHER -> "nothing"

\* The coordinator implements single flight: one outcome for all who joined.
Contract == INSTANCE SingleFlight WITH
    Outcomes <- Errors, Pending <- "pending", Nothing <- "nothing",
    flight <- [u \in Users |-> Flight(u)],
    outcome <- [c \in Callers |-> Outcome(c)]
ImplementsSingleFlight == Contract!Spec

\* How far a call has come: it fetches or waits once, and stores each listed
\* profile once.
Stage(c) ==
    CASE pc[c] = "lookup" -> 8
      [] pc[c] = "load" -> 7
      [] pc[c] = "fetch" -> 6
      [] pc[c] = "store" -> 5
      [] pc[c] = "publish" -> 4
      [] pc[c] = "closing" -> 3
      [] pc[c] \in {"wait", "loaded"} -> 2
      [] pc[c] = "reread" -> 1
      [] OTHER -> 0
CloserToReturn(c) ==
    \/ Stage(c)' < Stage(c)
    \/ pc'[c] = pc[c] /\ todo'[c] \subseteq todo[c] /\ todo'[c] # todo[c]
    \/ ~Step(c) /\ UNCHANGED <<pc[c], user[c], profile[c], load[c], todo[c]>>

\* Each step of a call brings its return closer, whatever becomes of the load,
\* and nobody else's step sets it back.
CallsWindDown == [][\A c \in Callers : pc[c] # "idle" => CloserToReturn(c)]_vars

\* Every call of GetProfile returns, waiters of a failed load included.
CallsReturn == \A c \in Callers : pc[c] # "idle" ~> pc[c] = "idle"
=============================================================================
