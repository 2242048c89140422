------------------------ MODULE ProfileCache_proofs ------------------------
(***************************************************************************)
(* Proofs about ProfileCache: the invariant that ties the coordinator's    *)
(* map, the load states and the callers together, the safety properties    *)
(* it implies, and that the coordinator implements single flight.          *)
(***************************************************************************)
EXTENDS ProfileCache, FiniteSetTheorems, TLAPS

\* The arguments and the load state a caller has, by where it is.
Locals ==
    \A c \in Callers :
        /\ pc[c] # "idle" <=> user[c] # None
        /\ pc[c] = "lookup" => profile[c] # None
        /\ Loading(c) <=> load[c] # None

\* The map has the load states of the owners, each of one owner, none closed.
Ownership ==
    /\ \A c \in Callers : Owner(c) => loads[user[c]] = load[c] /\ ~done[load[c]]
    /\ \A c, d \in Callers : Owner(c) /\ Owner(d) /\ load[c] = load[d] => c = d
    /\ \A u \in Users : loads[u] # None => \E d \in Callers : Owner(d) /\ user[d] = u

\* A load state that is held and not closed is in the map; a free one is new.
LoadStates ==
    /\ \A c \in Callers : pc[c] = "wait" => done[load[c]] \/ loads[user[c]] = load[c]
    /\ \A c \in Callers : pc[c] \in {"loaded", "reread"} => done[load[c]]
    /\ \A l \in Loads : Free(l) => ~done[l]

\* What a load has listed and not stored yet; what a good one listed is cached.
\* Its error is set before its channel is closed.
Refilled ==
    \A c \in Callers :
        /\ pc[c] \notin {"publish", "closing", "loaded"} => loadErr[c] = "nil"
        /\ pc[c] = "store" => refill[load[c]] \subseteq cache[user[c]] \union todo[c]
        /\ pc[c] \in {"publish", "closing", "loaded"} /\ loadErr[c] = "nil"
             => refill[load[c]] \subseteq cache[user[c]]
        /\ pc[c] = "closing" => err[load[c]] = loadErr[c]
        /\ pc[c] = "wait" /\ done[load[c]] /\ err[load[c]] = "nil"
             => refill[load[c]] \subseteq cache[user[c]]
        /\ pc[c] = "reread" => refill[load[c]] \subseteq cache[user[c]]

IInv == TypeOK /\ Locals /\ Ownership /\ LoadStates /\ Refilled

-----------------------------------------------------------------------------
(* Steps of one caller.                                                    *)

\* Who is in a call has a user, and a load state while it loads.
LEMMA CallFacts ==
    ASSUME TypeOK, Locals, NEW c \in Callers
    PROVE  /\ pc[c] # "idle" => user[c] \in Users
           /\ Loading(c) => load[c] \in Loads
           /\ Owner(c) => Loading(c)
BY DEF TypeOK, Locals, Loading, Owner

\* A call ends: no load state that another caller holds is touched.
LEMMA ReturnStep ==
    ASSUME IInv, NEW c \in Callers, Return(c), UNCHANGED <<cache, loads>>,
           pc[c] \in {"lookup", "wait", "loaded", "reread"}
    PROVE  IInv'
<1> USE DEF IInv
<1>1. TypeOK'
  BY DEF Return, TypeOK, Errors
<1>2. /\ pc'[c] = "idle" /\ user'[c] = None /\ load'[c] = None /\ loadErr'[c] = "nil"
      /\ \A d \in Callers \ {c} :
            /\ pc'[d] = pc[d] /\ user'[d] = user[d] /\ load'[d] = load[d]
            /\ profile'[d] = profile[d] /\ loadErr'[d] = loadErr[d] /\ todo'[d] = todo[d]
            /\ load[d] \in Loads => /\ done'[load[d]] = done[load[d]]
                                    /\ err'[load[d]] = err[load[d]]
                                    /\ refill'[load[d]] = refill[load[d]]
  BY DEF Return, TypeOK, Garbage
<1>3. Locals'
  BY <1>2 DEF Locals, Loading
<1>4. Ownership'
  BY <1>2, CallFacts, ConstantsAssumption DEF Ownership, Owner
<1>5. LoadStates'
  <2>1. \A l \in Loads : Free(l)' => ~done'[l]
    <3> SUFFICES ASSUME NEW l \in Loads, Free(l)' PROVE ~done'[l]
      OBVIOUS
    <3>1. l \in Garbage(c)
      BY <1>2 DEF Free, Garbage
    <3> QED BY <3>1 DEF Return
  <2>2. \A d \in Callers \ {c} : pc[d] \in {"wait", "loaded", "reread"} => load[d] \in Loads
    BY CallFacts DEF Loading
  <2> QED BY <1>2, <2>1, <2>2 DEF LoadStates
<1>6. Refilled'
  <2>1. \A d \in Callers \ {c} :
            pc[d] \in {"store", "publish", "closing", "loaded", "wait", "reread"}
                => load[d] \in Loads
    BY CallFacts DEF Loading
  <2> SUFFICES ASSUME NEW d \in Callers \ {c} PROVE Refilled!(d)'
    BY <1>2 DEF Refilled
  <2> QED BY <1>2, <2>1 DEF Refilled
<1> QED BY <1>1, <1>3, <1>4, <1>5, <1>6

\* A call begins, or misses the cache, or loses its context.
LEMMA BeforeLoadStep ==
    ASSUME IInv, NEW c \in Callers,
           LookupMisses(c) \/ Cancel(c) \/ \E u \in Users, p \in Profiles : GetProfile(c, u, p)
    PROVE  IInv'
<1> USE DEF IInv
<1>1. TypeOK'
  <2>1. CASE LookupMisses(c)
    BY <2>1 DEF TypeOK, LookupMisses, GoTo, state, call
  <2>2. CASE Cancel(c)
    BY <2>2 DEF TypeOK, Cancel, state, call
  <2>3. ASSUME NEW u \in Users, NEW p \in Profiles, GetProfile(c, u, p) PROVE TypeOK'
    BY <2>3 DEF TypeOK, GetProfile, GoTo, state
  <2> QED BY <2>1, <2>2, <2>3
<1>2. /\ UNCHANGED <<cache, loads, done, err, refill, load, loadErr, todo>>
      /\ \A d \in Callers :
            /\ \/ pc'[d] = pc[d]
               \/ pc'[d] \in {"lookup", "load"} /\ pc[d] \in {"idle", "lookup"}
            /\ pc[d] # "idle" => user'[d] = user[d]
  <2>1. CASE LookupMisses(c)
    BY <2>1 DEF TypeOK, LookupMisses, GoTo, state, call
  <2>2. CASE Cancel(c)
    BY <2>2 DEF TypeOK, Cancel, state, call
  <2>3. CASE \E u \in Users, p \in Profiles : GetProfile(c, u, p)
    BY <2>3 DEF TypeOK, GetProfile, GoTo, state
  <2> QED BY <2>1, <2>2, <2>3
<1>3. Locals'
  BY ConstantsAssumption DEF TypeOK, Locals, Loading, LookupMisses, Cancel, GetProfile, GoTo, state, call
<1>4. Ownership'
  <2>1. \A d \in Callers : (Owner(d)' <=> Owner(d)) /\ (Owner(d) => user'[d] = user[d])
    BY <1>2 DEF Owner
  <2> QED BY <1>2, <2>1 DEF Ownership
<1>5. LoadStates'
  BY <1>2 DEF LoadStates, Free
<1>6. Refilled'
  BY <1>2 DEF Refilled
<1> QED BY <1>1, <1>3, <1>4, <1>5, <1>6

\* The owner takes a free load state, which nobody waits on.
LEMMA OwnStep ==
    ASSUME IInv, NEW c \in Callers, Own(c)
    PROVE  IInv'
<1> USE DEF IInv
<1>1. PICK l \in Loads : /\ Free(l)
                         /\ loads' = [loads EXCEPT ![user[c]] = l]
                         /\ load' = [load EXCEPT ![c] = l]
  BY DEF Own
<1>2. user[c] \in Users /\ pc[c] = "load" /\ ~done[l] /\ loads[user[c]] = None
  BY <1>1, CallFacts DEF Own, LoadStates
<1>3. /\ UNCHANGED <<cache, done, err, refill, user, profile, loadErr, todo>>
      /\ pc'[c] = "fetch" /\ load'[c] = l /\ loads'[user[c]] = l
      /\ \A d \in Callers \ {c} : pc'[d] = pc[d] /\ load'[d] = load[d] /\ load[d] # l
      /\ \A u \in Users \ {user[c]} : loads'[u] = loads[u]
  BY <1>1, <1>2 DEF Own, TypeOK, GoTo, state, call, Free
<1>4. TypeOK'
  BY <1>1 DEF Own, TypeOK, GoTo, state, call
<1>5. Locals'
  BY <1>1, <1>2, <1>3, ConstantsAssumption DEF Locals, Loading
<1>6. Ownership'
  <2>1. \A d \in Callers \ {c} : Owner(d) => user[d] \in Users /\ user[d] # user[c] /\ load[d] # None
    BY <1>2, CallFacts, ConstantsAssumption DEF Ownership, Owner
  <2>2. \A d \in Callers \ {c} : Owner(d)' <=> Owner(d)
    BY <1>3 DEF Owner
  <2>3. Owner(c)'
    BY <1>3 DEF Owner
  <2> QED BY <1>2, <1>3, <2>1, <2>2, <2>3 DEF Ownership
<1>7. LoadStates'
  <2>1. \A d \in Callers \ {c} : pc[d] = "wait" => done[load[d]] \/ loads'[user[d]] = load[d]
    BY <1>2, <1>3, CallFacts, ConstantsAssumption DEF LoadStates, Loading
  <2>2. \A m \in Loads : Free(m)' => Free(m)
    BY <1>2, <1>3, CallFacts, ConstantsAssumption DEF Free, Locals, Loading
  <2> QED BY <1>3, <2>1, <2>2 DEF LoadStates
<1>8. Refilled'
  <2>1. loadErr[c] = "nil"
    BY <1>2 DEF Refilled
  <2> QED BY <1>3, <2>1 DEF Refilled
<1> QED BY <1>4, <1>5, <1>6, <1>7, <1>8

\* A caller joins the load in the map, which has an owner and is not closed.
LEMMA JoinStep ==
    ASSUME IInv, NEW c \in Callers, Join(c)
    PROVE  IInv'
<1> USE DEF IInv
<1>1. user[c] \in Users /\ pc[c] = "load" /\ loads[user[c]] \in Loads
  BY CallFacts DEF Join, TypeOK
<1>2. ~done[loads[user[c]]]
  <2>1. PICK d \in Callers : Owner(d) /\ user[d] = user[c]
    BY <1>1, ConstantsAssumption DEF Ownership
  <2> QED BY <2>1 DEF Ownership
<1>3. /\ UNCHANGED <<cache, loads, done, err, refill, user, profile, loadErr, todo>>
      /\ pc'[c] = "wait" /\ load'[c] = loads[user[c]]
      /\ \A d \in Callers \ {c} : pc'[d] = pc[d] /\ load'[d] = load[d]
  BY <1>1 DEF Join, TypeOK, GoTo, state, call
<1>4. TypeOK'
  BY <1>1 DEF Join, TypeOK, GoTo, state, call
<1>5. Locals'
  BY <1>1, <1>3, ConstantsAssumption DEF Locals, Loading
<1>6. Ownership'
  <2>1. \A d \in Callers : /\ Owner(d)' <=> Owner(d)
                           /\ Owner(d) => load'[d] = load[d]
    BY <1>1, <1>3 DEF Owner
  <2> QED BY <1>3, <2>1 DEF Ownership
<1>7. LoadStates'
  <2>1. \A l \in Loads : Free(l)' => Free(l)
    BY <1>1, <1>3, ConstantsAssumption DEF Free, Locals, Loading
  <2> QED BY <1>3, <2>1 DEF LoadStates
<1>8. Refilled'
  BY <1>1, <1>2, <1>3 DEF Refilled
<1> QED BY <1>4, <1>5, <1>6, <1>7, <1>8

\* Waiters and owners of a good load go on to read the cache again.
LEMMA GoodLoadStep ==
    ASSUME IInv, NEW c \in Callers, GoTo(c, "reread"),
           UNCHANGED <<cache, loads, state, ctxDone, call, load, loadErr, todo>>,
           \/ pc[c] = "wait" /\ done[load[c]] /\ err[load[c]] = "nil"
           \/ pc[c] = "loaded" /\ loadErr[c] = "nil"
    PROVE  IInv'
<1> USE DEF IInv
<1>1. /\ UNCHANGED <<cache, loads, done, err, refill, user, profile, load, loadErr, todo>>
      /\ pc'[c] = "reread"
      /\ \A d \in Callers \ {c} : pc'[d] = pc[d]
  BY DEF TypeOK, GoTo, state, call
<1>2. TypeOK'
  BY DEF TypeOK, GoTo, state, call
<1>3. Locals'
  BY <1>1 DEF Locals, Loading
<1>4. Ownership'
  <2>1. \A d \in Callers : Owner(d)' <=> Owner(d)
    BY <1>1 DEF Owner
  <2> QED BY <1>1, <2>1 DEF Ownership
<1>5. LoadStates'
  BY <1>1 DEF LoadStates, Free
<1>6. Refilled'
  BY <1>1 DEF Refilled
<1> QED BY <1>2, <1>3, <1>4, <1>5, <1>6

\* The fetch answers: only the owner has seen this load state's listing.
LEMMA FetchStep ==
    ASSUME IInv, NEW c \in Callers, NEW listed \in SUBSET Profiles, FetchSucceeds(c, listed)
    PROVE  IInv'
<1> USE DEF IInv
<1>1. pc[c] = "fetch" /\ load[c] \in Loads /\ ~done[load[c]]
  BY CallFacts DEF FetchSucceeds, Ownership, Owner
<1>2. /\ UNCHANGED <<cache, loads, done, err, user, profile, load, loadErr>>
      /\ pc'[c] = "store" /\ refill'[load[c]] = listed /\ todo'[c] = listed
      /\ \A d \in Callers \ {c} : pc'[d] = pc[d] /\ todo'[d] = todo[d]
      /\ \A l \in Loads \ {load[c]} : refill'[l] = refill[l]
  BY <1>1 DEF FetchSucceeds, TypeOK, GoTo, call
<1>3. TypeOK'
  BY <1>1 DEF FetchSucceeds, TypeOK, GoTo, call
<1>4. Locals'
  BY <1>1, <1>2 DEF Locals, Loading
<1>5. \A d \in Callers : Owner(d)' <=> Owner(d)
  BY <1>1, <1>2 DEF Owner
<1>6. Ownership'
  BY <1>2, <1>5 DEF Ownership
<1>7. LoadStates'
  BY <1>1, <1>2 DEF LoadStates, Free
<1>8. Refilled'
  <2>1. \A d \in Callers \ {c} : Owner(d) => load[d] \in Loads \ {load[c]}
    BY <1>1, CallFacts DEF Ownership, Owner
  <2>2. \A d \in Callers \ {c} : pc[d] \in {"loaded", "reread"} => load[d] \in Loads \ {load[c]}
    BY <1>1, CallFacts DEF LoadStates, Loading
  <2>3. \A d \in Callers \ {c} :
            pc[d] = "wait" /\ done[load[d]] => load[d] \in Loads \ {load[c]}
    BY <1>1, CallFacts DEF Loading
  <2> SUFFICES ASSUME NEW d \in Callers PROVE Refilled!(d)'
    BY DEF Refilled
  <2>4. CASE d = c
    BY <1>1, <1>2, <2>4 DEF Refilled
  <2>5. CASE d # c
    BY <1>2, <2>1, <2>2, <2>3, <2>5 DEF Refilled, Owner
  <2> QED BY <2>4, <2>5
<1> QED BY <1>3, <1>4, <1>6, <1>7, <1>8

\* The load is over, one way or the other.
LEMMA LoaderEndsStep ==
    ASSUME IInv, NEW c \in Callers, FetchFails(c) \/ StoreFails(c) \/ StoreDone(c)
    PROVE  IInv'
<1> USE DEF IInv
<1>1. /\ UNCHANGED <<cache, loads, done, err, refill, user, profile, load, todo>>
      /\ pc[c] \in {"fetch", "store"} /\ pc'[c] = "publish"
      /\ (pc[c] = "store" /\ todo[c] = {}) \/ loadErr'[c] # "nil"
      /\ \A d \in Callers \ {c} : pc'[d] = pc[d] /\ loadErr'[d] = loadErr[d]
  BY DEF FetchFails, StoreFails, StoreDone, TypeOK, GoTo, state, call
<1>2. TypeOK'
  BY DEF FetchFails, StoreFails, StoreDone, TypeOK, GoTo, state, call, Errors
<1>3. Locals'
  BY <1>1 DEF Locals, Loading
<1>4. Ownership'
  <2>1. \A d \in Callers : Owner(d)' <=> Owner(d)
    BY <1>1 DEF Owner
  <2> QED BY <1>1, <2>1 DEF Ownership
<1>5. LoadStates'
  BY <1>1 DEF LoadStates, Free
<1>6. Refilled'
  BY <1>1 DEF Refilled
<1> QED BY <1>2, <1>3, <1>4, <1>5, <1>6

\* The cache of the user grows.
LEMMA StoreStep ==
    ASSUME IInv, NEW c \in Callers, NEW p \in Profiles, Store(c, p)
    PROVE  IInv'
<1> USE DEF IInv
<1>1. user[c] \in Users /\ pc[c] = "store"
  BY CallFacts DEF Store
<1>2. /\ UNCHANGED <<loads, done, err, refill, pc, user, profile, load, loadErr>>
      /\ cache'[user[c]] = cache[user[c]] \union {p} /\ todo'[c] = todo[c] \ {p}
      /\ \A d \in Callers \ {c} : todo'[d] = todo[d]
      /\ \A u \in Users : cache[u] \subseteq cache'[u]
  BY <1>1 DEF Store, TypeOK, state, call
<1>3. TypeOK'
  BY <1>1 DEF Store, TypeOK, state, call
<1>4. Locals' /\ Ownership' /\ LoadStates'
  BY <1>2 DEF Locals, Loading, Ownership, Owner, LoadStates, Free
<1>5. Refilled'
  <2> SUFFICES ASSUME NEW d \in Callers PROVE Refilled!(d)'
    BY DEF Refilled
  <2>1. pc[d] # "idle" => user[d] \in Users
    BY CallFacts
  <2>2. CASE d = c
    BY <1>1, <1>2, <2>1, <2>2 DEF Refilled
  <2>3. CASE d # c
    BY <1>2, <2>1, <2>3 DEF Refilled
  <2> QED BY <2>2, <2>3
<1> QED BY <1>3, <1>4, <1>5

\* The owner sets the error of its load state, which nobody else owns and
\* nobody looks at before its channel is closed.
LEMMA SetErrorStep ==
    ASSUME IInv, NEW c \in Callers, SetError(c)
    PROVE  IInv'
<1> USE DEF IInv
<1>1. pc[c] = "publish" /\ load[c] \in Loads /\ ~done[load[c]] /\ Owner(c)
  BY CallFacts DEF SetError, Ownership, Owner
<1>2. /\ UNCHANGED <<cache, loads, done, refill, user, profile, load, loadErr, todo>>
      /\ pc'[c] = "closing" /\ err'[load[c]] = loadErr[c]
      /\ \A d \in Callers \ {c} : pc'[d] = pc[d]
      /\ \A l \in Loads \ {load[c]} : err'[l] = err[l]
  BY <1>1 DEF SetError, TypeOK, GoTo, call
<1>3. TypeOK'
  BY <1>1 DEF SetError, TypeOK, GoTo, call
<1>4. Locals'
  BY <1>1, <1>2 DEF Locals, Loading
<1>5. \A d \in Callers : Owner(d)' <=> Owner(d)
  BY <1>1, <1>2 DEF Owner
<1>6. Ownership'
  BY <1>2, <1>5 DEF Ownership
<1>7. LoadStates'
  BY <1>1, <1>2 DEF LoadStates, Free
<1>8. Refilled'
  <2>1. \A d \in Callers \ {c} : Owner(d) => load[d] \in Loads \ {load[c]}
    BY <1>1, CallFacts DEF Ownership, Owner
  <2>2. \A d \in Callers \ {c} :
            pc[d] = "wait" /\ done[load[d]] => load[d] \in Loads \ {load[c]}
    BY <1>1, CallFacts DEF Loading
  <2> SUFFICES ASSUME NEW d \in Callers PROVE Refilled!(d)'
    BY DEF Refilled
  <2>3. CASE d = c
    BY <1>1, <1>2, <2>3 DEF Refilled
  <2>4. CASE d # c
    BY <1>2, <2>1, <2>2, <2>4 DEF Refilled, Owner
  <2> QED BY <2>3, <2>4
<1> QED BY <1>3, <1>4, <1>6, <1>7, <1>8

\* All who wait on the owner's load state learn its error, and nobody else
\* is concerned.
LEMMA PublishFacts ==
    ASSUME IInv, NEW c \in Callers, Publish(c)
    PROVE  /\ UNCHANGED <<cache, refill, user, profile, load, loadErr, todo>>
           /\ user[c] \in Users /\ load[c] \in Loads /\ pc[c] = "closing" /\ ~done[load[c]]
           /\ pc'[c] = "loaded" /\ loads'[user[c]] = None
           /\ done'[load[c]] /\ err'[load[c]] = loadErr[c]
           /\ \A d \in Callers \ {c} : pc'[d] = pc[d]
           /\ \A u \in Users \ {user[c]} : loads'[u] = loads[u]
           /\ \A l \in Loads \ {load[c]} : done'[l] = done[l] /\ err'[l] = err[l]
           /\ \A d \in Callers \ {c} : Owner(d) => user[d] # user[c] /\ load[d] # load[c]
           /\ \A d \in Callers : pc[d] = "wait" /\ ~done[load[d]] =>
                (load[d] = load[c] <=> user[d] = user[c])
<1> USE DEF IInv
<1>1. /\ user[c] \in Users /\ load[c] \in Loads /\ pc[c] = "closing" /\ Owner(c)
      /\ err[load[c]] = loadErr[c]
  BY CallFacts DEF Publish, Owner, Refilled
<1>2. ~done[load[c]] /\ loads[user[c]] = load[c]
  BY <1>1 DEF Ownership
<1>3. \A d \in Callers \ {c} : Owner(d) => user[d] # user[c] /\ load[d] # load[c]
  BY <1>1 DEF Ownership
<1>4. ASSUME NEW d \in Callers, pc[d] = "wait", ~done[load[d]]
      PROVE  load[d] = load[c] <=> user[d] = user[c]
  <2>1. loads[user[d]] = load[d] /\ user[d] \in Users /\ load[d] \in Loads
    BY <1>4, CallFacts DEF LoadStates, Loading
  <2>2. PICK e \in Callers : Owner(e) /\ user[e] = user[d]
    BY <2>1, ConstantsAssumption DEF Ownership
  <2>3. load[e] = load[d]
    BY <2>1, <2>2 DEF Ownership
  <2> QED BY <1>2, <1>3, <2>1, <2>2, <2>3
<1> QED BY <1>1, <1>2, <1>3, <1>4 DEF Publish, TypeOK, GoTo, call

\* The load is published: its waiters may go on, and its owner is none any more.
LEMMA PublishStep ==
    ASSUME IInv, NEW c \in Callers, Publish(c)
    PROVE  IInv'
<1> USE PublishFacts DEF IInv
<1>1. TypeOK'
  BY DEF Publish, TypeOK, GoTo, call
<1>2. Locals'
  BY DEF Locals, Loading
<1>3. \A d \in Callers : Owner(d)' <=> d # c /\ Owner(d)
  BY DEF Owner
<1>4. Ownership'
  <2>1. \A d \in Callers : Owner(d) => user[d] \in Users /\ load[d] \in Loads
    BY CallFacts DEF Owner
  <2>2. \A d \in Callers : Owner(d)' => loads'[user[d]] = load[d] /\ ~done'[load[d]]
    BY <1>3, <2>1 DEF Ownership
  <2>3. \A d, e \in Callers : Owner(d)' /\ Owner(e)' /\ load[d] = load[e] => d = e
    BY <1>3 DEF Ownership
  <2>4. ASSUME NEW u \in Users, loads'[u] # None
        PROVE  \E d \in Callers : Owner(d)' /\ user[d] = u
    <3>1. u # user[c] /\ loads[u] # None
      BY <2>4
    <3> QED BY <1>3, <3>1 DEF Ownership
  <2> QED BY <2>2, <2>3, <2>4 DEF Ownership
<1>5. LoadStates'
  <2>1. \A d \in Callers : pc[d] = "wait" => user[d] \in Users /\ load[d] \in Loads
    BY CallFacts DEF Loading
  <2>2. \A d \in Callers : pc[d] \in {"loaded", "reread"} => load[d] \in Loads
    BY CallFacts DEF Loading
  <2>3. \A l \in Loads : Free(l)' => Free(l) /\ l # load[c]
    BY DEF Free
  <2> QED BY <2>1, <2>2, <2>3 DEF LoadStates
<1>6. Refilled'
  <2> SUFFICES ASSUME NEW d \in Callers PROVE Refilled!(d)'
    BY DEF Refilled
  <2>1. pc[d] \in {"wait", "closing"} => load[d] \in Loads
    BY CallFacts DEF Loading
  <2>2. CASE d = c
    BY <2>2 DEF Refilled
  <2>3. CASE d # c /\ pc[d] = "wait" /\ load[d] = load[c]
    <3>1. user[d] = user[c]
      BY <2>3
    <3>2. loadErr[c] = "nil" => refill[load[c]] \subseteq cache[user[c]]
      BY DEF Refilled
    <3> QED BY <2>3, <3>1, <3>2 DEF Refilled
  <2>4. CASE d # c /\ ~(pc[d] = "wait" /\ load[d] = load[c])
    <3>1. pc[d] = "closing" => load[d] # load[c]
      BY <2>4 DEF Owner
    <3>2. pc[d] \in {"wait", "closing"} => /\ done'[load[d]] = done[load[d]]
                                         /\ err'[load[d]] = err[load[d]]
      BY <2>1, <2>4, <3>1
    <3>3. pc'[d] = pc[d]
      BY <2>4
    <3>4. UNCHANGED <<cache, refill, user, load, loadErr, todo>>
      OBVIOUS
    <3> QED BY <3>2, <3>3, <3>4 DEF Refilled
  <2> QED BY <2>2, <2>3, <2>4
<1> QED BY <1>1, <1>2, <1>4, <1>5, <1>6

\* Entries go when nobody has just refilled them.
LEMMA EvictStep ==
    ASSUME IInv, NEW u \in Users, NEW p \in Profiles, Evict(u, p)
    PROVE  IInv'
<1> USE DEF IInv
<1>1. UNCHANGED <<loads, done, err, refill, ctxDone, pc, user, profile, load, loadErr, todo>>
  BY DEF Evict, state, call
<1>2. TypeOK'
  BY <1>1 DEF Evict, TypeOK
<1>3. Locals' /\ Ownership' /\ LoadStates'
  BY <1>1 DEF Locals, Loading, Ownership, Owner, LoadStates, Free
<1>4. \A c \in Callers : Loading(c) => cache'[user[c]] = cache[user[c]]
  BY CallFacts DEF Evict, TypeOK
<1>5. Refilled'
  BY <1>1, <1>4 DEF Refilled, Loading
<1> QED BY <1>2, <1>3, <1>5

-----------------------------------------------------------------------------
(* The invariant and what follows from it.                                 *)

\* Nobody is in a call when the process starts.
LEMMA InitInv == Init => IInv
<1> SUFFICES ASSUME Init PROVE IInv
  OBVIOUS
<1>1. TypeOK
  BY DEF Init, TypeOK, Errors
<1>2. Locals /\ Ownership /\ LoadStates /\ Refilled
  BY DEF Init, Locals, Loading, Ownership, Owner, LoadStates, Refilled
<1> QED BY <1>1, <1>2 DEF IInv

\* Every step keeps the invariant.
LEMMA NextInv == IInv /\ [Next]_vars => IInv'
<1> SUFFICES ASSUME IInv, [Next]_vars PROVE IInv'
  OBVIOUS
<1>1. CASE UNCHANGED vars
  BY <1>1 DEF vars, state, call, IInv, TypeOK, Locals, Loading, Ownership, Owner,
              LoadStates, Free, Refilled
<1>2. ASSUME NEW c \in Callers, Step(c) PROVE IInv'
  <2>1. CASE LookupReturns(c) \/ WaitCancelled(c) \/ Reread(c)
    BY <2>1, ReturnStep DEF LookupReturns, WaitCancelled, Reread
  <2>2. CASE LookupMisses(c)
    BY <2>2, BeforeLoadStep
  <2>3. CASE Own(c) \/ Join(c)
    BY <2>3, OwnStep, JoinStep
  <2>4. CASE WaitEnds(c)
    BY <2>4, GoodLoadStep, ReturnStep DEF WaitEnds, state, call
  <2>5. CASE OwnerGoesOn(c)
    BY <2>5, GoodLoadStep, ReturnStep DEF OwnerGoesOn, state, call
  <2>6. CASE \E listed \in SUBSET Profiles : FetchSucceeds(c, listed)
    BY <2>6, FetchStep
  <2>7. CASE \E p \in Profiles : Store(c, p)
    BY <2>7, StoreStep
  <2>8. CASE FetchFails(c) \/ StoreFails(c) \/ StoreDone(c)
    BY <2>8, LoaderEndsStep
  <2>9. CASE SetError(c) \/ Publish(c)
    BY <2>9, SetErrorStep, PublishStep
  <2> QED BY <1>2, <2>1, <2>2, <2>3, <2>4, <2>5, <2>6, <2>7, <2>8, <2>9 DEF Step
<1>3. ASSUME NEW c \in Callers,
             Cancel(c) \/ \E u \in Users, p \in Profiles : GetProfile(c, u, p)
      PROVE  IInv'
  BY <1>3, BeforeLoadStep
<1>4. ASSUME NEW u \in Users, NEW p \in Profiles, Evict(u, p) PROVE IInv'
  BY <1>4, EvictStep
<1> QED BY <1>1, <1>2, <1>3, <1>4 DEF Next

\* The invariant holds in every reachable state.
LEMMA AlwaysIInv == Spec => []IInv
BY InitInv, NextInv, PTL DEF Spec

\* All variables keep their types.
THEOREM TypeCorrect == Spec => []TypeOK
<1>1. IInv => TypeOK
  BY DEF IInv
<1> QED BY <1>1, AlwaysIInv, PTL

\* Two fetches for one user never overlap, however many callers miss.
THEOREM OneFetchPerUserHolds == Spec => []OneFetchPerUser
<1>1. IInv => OneFetchPerUser
  BY DEF IInv, Ownership, OneFetchPerUser
<1> QED BY <1>1, AlwaysIInv, PTL

\* Whoever waits for a load has an owner working on it, or its result.
THEOREM WaitersHaveOwnerHolds == Spec => []WaitersHaveOwner
<1>1. IInv => WaitersHaveOwner
  <2> SUFFICES ASSUME IInv, NEW c \in Callers, pc[c] = "wait", ~done[load[c]]
               PROVE  \E d \in Callers : /\ Owner(d) /\ load[d] = load[c]
                                         /\ user[d] = user[c] /\ loads[user[c]] = load[c]
    BY DEF WaitersHaveOwner
  <2>1. loads[user[c]] = load[c] /\ user[c] \in Users /\ load[c] \in Loads
    BY CallFacts DEF IInv, LoadStates, Loading
  <2> QED BY <2>1, ConstantsAssumption DEF IInv, Ownership
<1> QED BY <1>1, AlwaysIInv, PTL

\* After a refill, everything it listed can be read back.
THEOREM RefillIsReadableHolds == Spec => []RefillIsReadable
<1>1. IInv => RefillIsReadable
  BY DEF IInv, Refilled, RefillIsReadable
<1> QED BY <1>1, AlwaysIInv, PTL

-----------------------------------------------------------------------------
(* Calls wind down.                                                        *)

\* A step of the call brings it to a later stage, or stores a profile.
LEMMA StepWindsDown ==
    ASSUME TypeOK, NEW c \in Callers, Step(c)
    PROVE  \/ Stage(c)' < Stage(c)
           \/ pc'[c] = pc[c] /\ todo'[c] \subseteq todo[c] /\ todo'[c] # todo[c]
<1> USE DEF TypeOK
<1>1. CASE pc[c] \in {"lookup", "wait", "loaded", "reread"} /\ Return(c)
  BY <1>1 DEF Return, Stage
<1>2. CASE LookupMisses(c) \/ Own(c) \/ Join(c)
  BY <1>2 DEF LookupMisses, Own, Join, GoTo, Stage
<1>3. CASE pc[c] \in {"wait", "loaded"} /\ GoTo(c, "reread")
  BY <1>3 DEF GoTo, Stage
<1>4. CASE \E listed \in SUBSET Profiles : FetchSucceeds(c, listed)
  BY <1>4 DEF FetchSucceeds, GoTo, Stage
<1>5. CASE FetchFails(c) \/ StoreFails(c) \/ StoreDone(c) \/ SetError(c) \/ Publish(c)
  BY <1>5 DEF FetchFails, StoreFails, StoreDone, SetError, Publish, GoTo, Stage
<1>6. CASE \E p \in Profiles : Store(c, p)
  BY <1>6 DEF Store
<1> QED BY <1>1, <1>2, <1>3, <1>4, <1>5, <1>6
        DEF Step, LookupReturns, WaitEnds, WaitCancelled, OwnerGoesOn, Reread

\* A call is where it was after anybody else's step.
LEMMA OthersLeaveCall ==
    ASSUME TypeOK, NEW c \in Callers, NEW d \in Callers \ {c}, Step(c)
    PROVE  UNCHANGED <<pc[d], user[d], profile[d], load[d], todo[d]>>
<1> USE DEF TypeOK
<1>1. CASE Return(c)
  BY <1>1 DEF Return
<1>2. CASE \/ LookupMisses(c) \/ Own(c) \/ Join(c)
           \/ GoTo(c, "reread") /\ UNCHANGED <<user, profile, load, todo>>
  BY <1>2 DEF LookupMisses, Own, Join, GoTo, call
<1>3. CASE \E listed \in SUBSET Profiles : FetchSucceeds(c, listed)
  BY <1>3 DEF FetchSucceeds, GoTo, call
<1>4. CASE FetchFails(c) \/ StoreFails(c) \/ StoreDone(c) \/ SetError(c) \/ Publish(c)
  BY <1>4 DEF FetchFails, StoreFails, StoreDone, SetError, Publish, GoTo, call
<1>5. CASE \E p \in Profiles : Store(c, p)
  BY <1>5 DEF Store, call
<1> QED BY <1>1, <1>2, <1>3, <1>4, <1>5
        DEF Step, LookupReturns, WaitEnds, WaitCancelled, OwnerGoesOn, Reread, call

\* No step of the system sends a call back: together with the fairness of the
\* callers, this is why every call returns.
THEOREM CallsWindDownHolds == Spec => CallsWindDown
<1> DEFINE Fixed(d) == UNCHANGED <<pc[d], user[d], profile[d], load[d], todo[d]>>
<1>1. ASSUME TypeOK, NEW d \in Callers, Fixed(d)
      PROVE  ~Step(d)
  <2>1. ~(Stage(d)' < Stage(d))
    BY <1>1 DEF Stage
  <2> QED BY <1>1, <2>1, StepWindsDown
<1>2. ASSUME TypeOK, Next, NEW d \in Callers, pc[d] # "idle"
      PROVE  CloserToReturn(d)
  <2>1. CASE Step(d)
    BY <1>2, <2>1, StepWindsDown DEF CloserToReturn
  <2>2. ASSUME NEW c \in Callers \ {d}, Step(c) PROVE Fixed(d)
    BY <1>2, <2>2, OthersLeaveCall
  <2>3. ASSUME NEW c \in Callers, Cancel(c) PROVE Fixed(d)
    BY <2>3 DEF Cancel, call
  <2>4. ASSUME NEW c \in Callers, NEW u \in Users, NEW p \in Profiles, GetProfile(c, u, p)
        PROVE  Fixed(d)
    BY <1>2, <2>4 DEF GetProfile, GoTo, TypeOK
  <2>5. ASSUME NEW u \in Users, NEW p \in Profiles, Evict(u, p) PROVE Fixed(d)
    BY <2>5 DEF Evict, call
  <2>6. Step(d) \/ Fixed(d)
    BY <1>2, <2>2, <2>3, <2>4, <2>5 DEF Next
  <2> QED BY <1>1, <1>2, <2>1, <2>6 DEF CloserToReturn
<1>3. TypeOK /\ [Next]_vars => [\A c \in Callers : pc[c] # "idle" => CloserToReturn(c)]_vars
  BY <1>2
<1> QED BY <1>3, TypeCorrect, PTL DEF Spec, CallsWindDown

\* The bound on load states is none: a caller that wants one finds a free one.
THEOREM PoolSuffices ==
    Spec => [](\A c \in Callers : pc[c] = "load" => \E l \in Loads : Free(l))
<1> DEFINE Found == \A c \in Callers : pc[c] = "load" => \E l \in Loads : Free(l)
<1>1. IInv => Found
  <2> SUFFICES ASSUME IInv, NEW c \in Callers, pc[c] = "load", \A l \in Loads : ~Free(l)
               PROVE  FALSE
    OBVIOUS
  <2> DEFINE Others == {d \in Callers \ {c} : load[d] \in Loads}
             held == [d \in Others |-> load[d]]
  <2>1. load[c] = None /\ None \notin Loads
    BY ConstantsAssumption DEF IInv, Locals, Loading
  <2>2. IsFiniteSet(Callers \ {c}) /\ Cardinality(Callers \ {c}) = Cardinality(Callers) - 1
    BY ConstantsAssumption, FS_RemoveElement
  <2>3. IsFiniteSet(Others) /\ Cardinality(Others) <= Cardinality(Callers) - 1
    BY <2>2, FS_Subset
  <2>4. held \in Surjection(Others, Loads)
    <3>1. \A l \in Loads : \E d \in Others : held[d] = l
      BY <2>1 DEF Free
    <3> QED BY <3>1 DEF Surjection
  <2>5. Cardinality(Loads) <= Cardinality(Others)
    BY <2>3, <2>4, FS_Surjection
  <2>6. /\ Cardinality(Callers) \in Nat /\ Cardinality(Loads) \in Nat
        /\ Cardinality(Others) \in Nat
    BY <2>3, ConstantsAssumption, FS_CardinalityType
  <2> QED BY <2>3, <2>5, <2>6, ConstantsAssumption
<1> QED BY <1>1, AlwaysIInv, PTL

-----------------------------------------------------------------------------
(* Single flight.                                                          *)

Flights == [u \in Users |-> Flight(u)]
AllOutcomes == [c \in Callers |-> Outcome(c)]

\* Caller d looks the same to the contract.
Same(d) ==
    /\ Outcome(d)' = Outcome(d)
    /\ \A u \in Users : d \in Flight(u)' <=> d \in Flight(u)

\* Only caller c looks different, and c is in no flight now, or in that of u.
LEMMA OneChanges ==
    ASSUME NEW c \in Callers, \A d \in Callers \ {c} : Same(d)
    PROVE  /\ AllOutcomes' = [AllOutcomes EXCEPT ![c] = Outcome(c)']
           /\ Same(c) => UNCHANGED <<Flights, AllOutcomes>>
           /\ (\A v \in Users : c \notin Flight(v) /\ c \notin Flight(v)') => Flights' = Flights
           /\ \A u \in Users :
                (\A v \in Users : c \notin Flight(v) /\ (c \in Flight(v)' <=> v = u))
                    => Flights' = [Flights EXCEPT ![u] = @ \union {c}]
           /\ \A u \in Users :
                (\A v \in Users : c \notin Flight(v)' /\ (c \in Flight(v) <=> v = u))
                    => Flights' = [Flights EXCEPT ![u] = @ \ {c}]
<1>1. \A v \in Users : Flight(v) \subseteq Callers /\ Flight(v)' \subseteq Callers
  BY DEF Flight
<1>2. AllOutcomes' = [AllOutcomes EXCEPT ![c] = Outcome(c)']
  <2>1. \A d \in Callers : Outcome(d)' = IF d = c THEN Outcome(c)' ELSE Outcome(d)
    BY DEF Same
  <2> QED BY <2>1 DEF AllOutcomes
<1>3. \A v \in Users, d \in Callers \ {c} : d \in Flight(v)' <=> d \in Flight(v)
  BY DEF Same
<1>4. ASSUME Same(c) PROVE UNCHANGED <<Flights, AllOutcomes>>
  <2>1. \A v \in Users : Flight(v)' = Flight(v)
    BY <1>1, <1>3, <1>4 DEF Same
  <2>2. \A d \in Callers : Outcome(d)' = Outcome(d)
    BY <1>4 DEF Same
  <2> QED BY <2>1, <2>2 DEF Flights, AllOutcomes
<1>5. ASSUME \A v \in Users : c \notin Flight(v) /\ c \notin Flight(v)'
      PROVE  Flights' = Flights
  <2>1. \A v \in Users : Flight(v)' = Flight(v)
    BY <1>1, <1>3, <1>5
  <2> QED BY <2>1 DEF Flights
<1>6. ASSUME NEW u \in Users, \A v \in Users : c \notin Flight(v) /\ (c \in Flight(v)' <=> v = u)
      PROVE  Flights' = [Flights EXCEPT ![u] = @ \union {c}]
  <2>1. \A v \in Users : Flight(v)' = IF v = u THEN Flight(u) \union {c} ELSE Flight(v)
    BY <1>1, <1>3, <1>6
  <2> QED BY <2>1 DEF Flights
<1>7. ASSUME NEW u \in Users, \A v \in Users : c \notin Flight(v)' /\ (c \in Flight(v) <=> v = u)
      PROVE  Flights' = [Flights EXCEPT ![u] = @ \ {c}]
  <2>1. \A v \in Users : Flight(v)' = IF v = u THEN Flight(u) \ {c} ELSE Flight(v)
    BY <1>1, <1>3, <1>7
  <2> QED BY <2>1 DEF Flights
<1> QED BY <1>2, <1>4, <1>5, <1>6, <1>7

\* A caller whose own variables and load state are left alone.
LEMMA LeftAlone ==
    ASSUME NEW d \in Callers,
           pc'[d] = pc[d], user'[d] = user[d], load'[d] = load[d], loadErr'[d] = loadErr[d],
           pc[d] = "wait" => done'[load[d]] = done[load[d]] /\ err'[load[d]] = err[load[d]]
    PROVE  Same(d)
<1>1. Owner(d)' <=> Owner(d)
  BY DEF Owner
<1>2. Outcome(d)' = Outcome(d)
  BY <1>1 DEF Outcome
<1>3. \A u \in Users : d \in Flight(u)' <=> d \in Flight(u)
  BY <1>1 DEF Flight
<1> QED BY <1>2, <1>3 DEF Same

\* A call ends: the caller leaves with what it got, or gives up.
LEMMA ReturnRefines ==
    ASSUME IInv, NEW c \in Callers, Return(c), UNCHANGED <<cache, loads>>,
           pc[c] \in {"lookup", "wait", "loaded", "reread"}
    PROVE  [Contract!Next]_(Contract!vars)
<1>1. \A d \in Callers \ {c} : Same(d)
  <2> SUFFICES ASSUME NEW d \in Callers \ {c} PROVE Same(d)
    OBVIOUS
  <2>1. /\ pc'[d] = pc[d] /\ user'[d] = user[d] /\ load'[d] = load[d]
        /\ loadErr'[d] = loadErr[d]
    BY DEF Return, IInv, TypeOK
  <2>2. pc[d] = "wait" => done'[load[d]] = done[load[d]] /\ err'[load[d]] = err[load[d]]
    BY CallFacts DEF IInv, Loading, Return, Garbage
  <2> QED BY <2>1, <2>2, LeftAlone
<1>2. /\ pc'[c] = "idle" /\ Outcome(c)' = "nothing"
      /\ \A v \in Users : c \notin Flight(v)'
  BY DEF Return, IInv, TypeOK, Outcome, Owner, Flight
<1>3. ~Owner(c)
  BY DEF Owner
<1>4. CASE pc[c] = "lookup"
  <2>1. Same(c)
    BY <1>2, <1>3, <1>4 DEF Same, Outcome, Flight
  <2> QED BY <1>1, <2>1, OneChanges DEF Contract!vars, Flights, AllOutcomes
<1>5. CASE pc[c] \in {"loaded", "reread"} \/ (pc[c] = "wait" /\ done[load[c]])
  <2>1. Outcome(c) \in Errors
    BY <1>3, <1>5, CallFacts DEF Outcome, IInv, TypeOK, Errors, Loading
  <2>2. \A v \in Users : c \notin Flight(v)
    BY <1>3, <1>5 DEF Flight
  <2>3. Flights' = Flights /\ AllOutcomes' = [AllOutcomes EXCEPT ![c] = "nothing"]
    BY <1>1, <1>2, <2>2, OneChanges
  <2>4. Contract!Leave(c)
    BY <2>1, <2>3 DEF Contract!Leave, Flights, AllOutcomes
  <2> QED BY <2>4 DEF Contract!Next
<1>6. CASE pc[c] = "wait" /\ ~done[load[c]]
  <2>1. user[c] \in Users /\ \A v \in Users : c \in Flight(v) <=> v = user[c]
    BY <1>6, CallFacts DEF Flight, IInv
  <2>2. PICK d \in Callers : Owner(d) /\ user[d] = user[c]
    BY <1>6, CallFacts, ConstantsAssumption DEF IInv, LoadStates, Ownership, Loading
  <2>3. Flight(user[c]) # {c}
    BY <1>3, <2>2 DEF Flight
  <2>4. /\ Flights' = [Flights EXCEPT ![user[c]] = @ \ {c}]
        /\ AllOutcomes' = [AllOutcomes EXCEPT ![c] = "nothing"]
    BY <1>1, <1>2, <2>1, OneChanges
  <2>5. Contract!GiveUp(c, user[c])
    BY <2>1, <2>3, <2>4 DEF Contract!GiveUp, Flights, AllOutcomes
  <2> QED BY <2>1, <2>5 DEF Contract!Next
<1> QED BY <1>4, <1>5, <1>6

\* The first critical section: the caller is in the flight of its user.
LEMMA EnterRefines ==
    ASSUME IInv, NEW c \in Callers, Own(c) \/ Join(c)
    PROVE  Contract!Next
<1>1. user[c] \in Users /\ pc[c] = "load"
  BY CallFacts DEF Own, Join, IInv
<1>2. /\ \A d \in Callers \ {c} : /\ pc'[d] = pc[d] /\ load'[d] = load[d]
      /\ UNCHANGED <<user, loadErr, done, err>>
      /\ pc'[c] \in {"fetch", "wait"}
      /\ pc'[c] = "wait" => load'[c] = loads[user[c]] /\ loads[user[c]] # None
  BY DEF Own, Join, GoTo, call, state, IInv, TypeOK
<1>3. \A d \in Callers \ {c} : Same(d)
  BY <1>2, LeftAlone
<1>4. pc'[c] = "wait" => ~done'[load'[c]]
  <2> SUFFICES ASSUME pc'[c] = "wait" PROVE ~done[loads[user[c]]]
    BY <1>2
  <2>1. PICK d \in Callers : Owner(d) /\ user[d] = user[c]
    BY <1>1, <1>2 DEF IInv, Ownership
  <2> QED BY <2>1 DEF IInv, Ownership
<1>5. Outcome(c) = "nothing" /\ Outcome(c)' = "pending"
  BY <1>1, <1>2, <1>4 DEF Outcome, Owner
<1>6. \A v \in Users : c \notin Flight(v) /\ (c \in Flight(v)' <=> v = user[c])
  BY <1>1, <1>2, <1>4 DEF Flight, Owner
<1>7. Contract!Join(c, user[c])
  BY <1>1, <1>3, <1>5, <1>6, OneChanges DEF Contract!Join, Flights, AllOutcomes
<1> QED BY <1>1, <1>7 DEF Contract!Next

\* The end of the second critical section: the flight of the user lands.
LEMMA PublishRefines ==
    ASSUME IInv, NEW c \in Callers, Publish(c)
    PROVE  Contract!Next
<1> USE PublishFacts
<1>1. loadErr[c] \in Errors /\ c \in Flight(user[c]) /\ Owner(c)
  BY DEF IInv, TypeOK, Flight, Owner
<1>2. \A d \in Callers : pc[d] = "wait" => user[d] \in Users /\ load[d] \in Loads
  BY CallFacts DEF Loading, IInv
<1>3. ASSUME NEW d \in Callers
      PROVE  /\ Outcome(d)' = IF d \in Flight(user[c]) THEN loadErr[c] ELSE Outcome(d)
             /\ d \notin Flight(user[c])'
             /\ \A v \in Users \ {user[c]} : d \in Flight(v)' <=> d \in Flight(v)
  <2>1. Owner(d)' <=> d # c /\ Owner(d)
    BY DEF Owner
  <2>2. d \in Flight(user[c]) <=> d = c \/ (pc[d] = "wait" /\ ~done[load[d]] /\ load[d] = load[c])
    BY <1>1, <1>2 DEF Flight
  <2>3. CASE d = c
    BY <1>1, <2>1, <2>3 DEF Outcome, Flight
  <2>4. CASE d # c /\ pc[d] = "wait"
    BY <1>2, <2>1, <2>2, <2>4 DEF Outcome, Flight, Owner
  <2>5. CASE d # c /\ pc[d] # "wait"
    BY <2>1, <2>2, <2>5 DEF Outcome, Flight
  <2> QED BY <2>3, <2>4, <2>5
<1>4. Flights' = [Flights EXCEPT ![user[c]] = {}]
  <2>1. Flight(user[c])' = {}
    BY <1>3 DEF Flight
  <2>2. \A v \in Users \ {user[c]} : Flight(v)' = Flight(v)
    BY <1>3 DEF Flight
  <2>3. \A v \in Users : Flight(v)' = IF v = user[c] THEN {} ELSE Flight(v)
    BY <2>1, <2>2
  <2>4. Flights' = [v \in Users |-> IF v = user[c] THEN {} ELSE Flight(v)]
    BY <2>3 DEF Flights
  <2> QED BY <2>4 DEF Flights
<1>5. AllOutcomes' = [d \in Callers |-> IF d \in Flight(user[c]) THEN loadErr[c] ELSE Outcome(d)]
  BY <1>3 DEF AllOutcomes
<1>6. Contract!Land(user[c], loadErr[c])
  BY <1>1, <1>4, <1>5 DEF Contract!Land, Flights, AllOutcomes
<1> QED BY <1>1, <1>6 DEF Contract!Next

\* Steps the contract does not see.
LEMMA InnerRefines ==
    ASSUME IInv, NEW c \in Callers,
           \/ LookupMisses(c) \/ Cancel(c)
           \/ \E u \in Users, p \in Profiles : GetProfile(c, u, p)
           \/ \E listed \in SUBSET Profiles : FetchSucceeds(c, listed)
           \/ \E p \in Profiles : Store(c, p)
           \/ FetchFails(c) \/ StoreFails(c) \/ StoreDone(c)
    PROVE  UNCHANGED Contract!vars
<1>1. /\ UNCHANGED <<done, err, load>>
      /\ \A d \in Callers \ {c} : pc'[d] = pc[d] /\ user'[d] = user[d] /\ loadErr'[d] = loadErr[d]
  BY DEF LookupMisses, Cancel, GetProfile, FetchSucceeds, Store, FetchFails, StoreFails,
         StoreDone, GoTo, state, call, IInv, TypeOK
<1>2. \/ pc'[c] = pc[c] /\ user'[c] = user[c] /\ loadErr'[c] = loadErr[c]
      \/ pc[c] \in {"idle", "lookup"} /\ pc'[c] \in {"lookup", "load"}
      \/ Owner(c) /\ Owner(c)' /\ user'[c] = user[c]
  BY DEF LookupMisses, Cancel, GetProfile, FetchSucceeds, Store, FetchFails, StoreFails,
         StoreDone, GoTo, state, call, IInv, TypeOK, Owner
<1>3. Same(c)
  <2>1. CASE pc'[c] = pc[c] /\ user'[c] = user[c] /\ loadErr'[c] = loadErr[c]
    BY <1>1, <2>1, LeftAlone
  <2>2. CASE pc[c] \in {"idle", "lookup"} /\ pc'[c] \in {"lookup", "load"}
    BY <2>2 DEF Same, Outcome, Owner, Flight
  <2>3. CASE Owner(c) /\ Owner(c)' /\ user'[c] = user[c]
    BY <2>3 DEF Same, Outcome, Flight
  <2> QED BY <1>2, <2>1, <2>2, <2>3
<1>4. \A d \in Callers \ {c} : Same(d)
  BY <1>1, LeftAlone
<1> QED BY <1>3, <1>4, OneChanges DEF Contract!vars, Flights, AllOutcomes

\* The error is set while the flight is still under way.
LEMMA SetErrorRefines ==
    ASSUME IInv, NEW c \in Callers, SetError(c)
    PROVE  UNCHANGED Contract!vars
<1>1. /\ UNCHANGED <<done, user, load, loadErr>>
      /\ Owner(c) /\ Owner(c)' /\ load[c] \in Loads /\ ~done[load[c]]
      /\ \A d \in Callers \ {c} : pc'[d] = pc[d]
      /\ \A l \in Loads \ {load[c]} : err'[l] = err[l]
  BY CallFacts DEF SetError, GoTo, call, IInv, TypeOK, Owner, Ownership
<1>2. Same(c)
  BY <1>1 DEF Same, Outcome, Flight, Owner
<1>3. ASSUME NEW d \in Callers \ {c} PROVE Same(d)
  <2>1. Owner(d)' <=> Owner(d)
    BY <1>1 DEF Owner
  <2>2. pc[d] = "wait" /\ done[load[d]] => err'[load[d]] = err[load[d]]
    BY <1>1, CallFacts DEF IInv, Loading
  <2>3. Outcome(d)' = Outcome(d)
    BY <1>1, <2>1, <2>2 DEF Outcome
  <2> QED BY <1>1, <2>1, <2>3 DEF Same, Flight
<1> QED BY <1>2, <1>3, OneChanges DEF Contract!vars, Flights, AllOutcomes

\* Waiters and owners of a good load have got their outcome already.
LEMMA GoodLoadRefines ==
    ASSUME IInv, NEW c \in Callers, GoTo(c, "reread"),
           UNCHANGED <<cache, loads, state, ctxDone, call, load, loadErr, todo>>,
           \/ pc[c] = "wait" /\ done[load[c]] /\ err[load[c]] = "nil"
           \/ pc[c] = "loaded" /\ loadErr[c] = "nil"
    PROVE  UNCHANGED Contract!vars
<1>1. /\ UNCHANGED <<done, err, user, load, loadErr>> /\ pc'[c] = "reread"
      /\ \A d \in Callers \ {c} : pc'[d] = pc[d]
  BY DEF GoTo, state, call, IInv, TypeOK
<1>2. Same(c)
  BY <1>1 DEF Same, Outcome, Owner, Flight
<1>3. \A d \in Callers \ {c} : Same(d)
  BY <1>1, LeftAlone
<1> QED BY <1>2, <1>3, OneChanges DEF Contract!vars, Flights, AllOutcomes

\* The coordinator implements single flight.
THEOREM ImplementsSingleFlightHolds == Spec => ImplementsSingleFlight
<1> SUFFICES Spec => Contract!Spec
  BY DEF ImplementsSingleFlight
<1>1. Init => Contract!Init
  <2> SUFFICES ASSUME Init PROVE Contract!Init
    OBVIOUS
  <2>1. \A c \in Callers : Outcome(c) = "nothing" /\ ~Owner(c)
    BY DEF Init, Outcome, Owner
  <2>2. \A u \in Users : Flight(u) = {}
    BY <2>1 DEF Init, Flight
  <2> QED BY <2>1, <2>2 DEF Contract!Init
<1>2. IInv /\ [Next]_vars => [Contract!Next]_(Contract!vars)
  <2> SUFFICES ASSUME IInv, [Next]_vars PROVE [Contract!Next]_(Contract!vars)
    OBVIOUS
  <2>1. CASE UNCHANGED vars
    BY <2>1 DEF vars, state, call, Contract!vars, Flight, Outcome, Owner
  <2>2. ASSUME NEW c \in Callers, Step(c) PROVE [Contract!Next]_(Contract!vars)
    <3>1. CASE LookupReturns(c) \/ WaitCancelled(c) \/ Reread(c)
      BY <3>1, ReturnRefines DEF LookupReturns, WaitCancelled, Reread
    <3>2. CASE WaitEnds(c)
      BY <3>2, GoodLoadRefines, ReturnRefines DEF WaitEnds, state, call
    <3>3. CASE OwnerGoesOn(c)
      BY <3>3, GoodLoadRefines, ReturnRefines DEF OwnerGoesOn, state, call
    <3>4. CASE Own(c) \/ Join(c)
      BY <3>4, EnterRefines
    <3>5. CASE Publish(c)
      BY <3>5, PublishRefines
    <3>6. CASE \/ LookupMisses(c) \/ FetchFails(c) \/ StoreFails(c) \/ StoreDone(c)
               \/ \E listed \in SUBSET Profiles : FetchSucceeds(c, listed)
               \/ \E p \in Profiles : Store(c, p)
      BY <3>6, InnerRefines
    <3>7. CASE SetError(c)
      BY <3>7, SetErrorRefines
    <3> QED BY <2>2, <3>1, <3>2, <3>3, <3>4, <3>5, <3>6, <3>7 DEF Step
  <2>3. ASSUME NEW c \in Callers,
               Cancel(c) \/ \E u \in Users, p \in Profiles : GetProfile(c, u, p)
        PROVE  [Contract!Next]_(Contract!vars)
    BY <2>3, InnerRefines
  <2>4. ASSUME NEW u \in Users, NEW p \in Profiles, Evict(u, p)
        PROVE  [Contract!Next]_(Contract!vars)
    BY <2>4 DEF Evict, state, call, Contract!vars, Flight, Outcome, Owner
  <2> QED BY <2>1, <2>2, <2>3, <2>4 DEF Next
<1> QED BY <1>1, <1>2, AlwaysIInv, PTL DEF Spec, Contract!Spec
=============================================================================
