---------------------------- MODULE Preparation ----------------------------
(***************************************************************************)
(* prepareProfileData: what is attached to the profile's ad groups, the    *)
(* policies and the enabled ad groups are fetched one after another, and   *)
(* joined into one lookup by ad group.  (That the three fetches run beside *)
(* the report, and are cancelled with it, is in HandleMessage.)            *)
(***************************************************************************)
EXTENDS Amazon, ServiceCall, Sequences, Functions

CONSTANTS
    Policies,
    NoPolicy,       \* the policy of an entry is nil
    MaxAttached     \* bound: attachments of one profile

ASSUME PreparationAssumption ==
    /\ NoPolicy \notin Policies
    /\ MaxAttached \in Nat

Attachment == [adGroup : AdGroups, policy : Policies, live : BOOLEAN]
Attachments == UNION {[1 .. n -> Attachment] : n \in 0 .. MaxAttached}

\* preparedAdGroup
Entry == [bid : BidOrNone, live : BOOLEAN, policy : Policies \union {NoPolicy}]

VARIABLES
    prep,       \* where the preparation is
    attached,   \* the attachments, in the order of the user service
    policies,   \* the policies the policy service returned
    fetched,    \* the ad groups Amazon returned, with their bids
    next,       \* the loop over the attachments: the one it is at
    lookup      \* preparedAdGroupsByID

fetches == <<attached, policies, fetched>>
preparation == <<prep, fetches, next, lookup>>

Nothing == [g \in {} |-> NoBid]

PrepInit ==
    /\ prep = "off"
    /\ attached = <<>> /\ policies = {} /\ fetched = Nothing
    /\ next = 1 /\ lookup = Nothing

PrepStart ==
    /\ prep' = "attached"
    /\ attached' = <<>> /\ policies' = {} /\ fetched' = Nothing
    /\ next' = 1 /\ lookup' = Nothing

PrepFails(at) ==
    /\ prep = at
    /\ Faults
    /\ prep' = "failed"
    /\ UNCHANGED <<fetches, next, lookup>>

\* Nothing attached, or a reply without a body: there is nothing to do.
FetchAttachedPolicies ==
    /\ prep = "attached"
    /\ attached' \in Attachments
    /\ prep' = IF attached' = <<>> THEN "done" ELSE "policies"
    /\ UNCHANGED <<policies, fetched, next, lookup>>

\* GetPoliciesForMarketplace: any policies, none for a reply without a body.
PoliciesReturned ==
    {S \in SUBSET Policies : \E all \in SUBSET Policies, reply \in RepliesTo(TRUE) :
                                ~IsError(reply) /\ S = DataOf(reply, all, {})}

\* The policies of the user in the marketplace, attached or not.
FetchPolicies ==
    /\ prep = "policies"
    /\ policies' \in PoliciesReturned
    /\ prep' = "adGroups"
    /\ UNCHANGED <<attached, fetched, next, lookup>>

FetchAdGroups ==
    /\ prep = "adGroups"
    /\ LET asked == {a.adGroup : a \in Range(attached)} IN
         fetched' = [g \in asked \intersect enabled |-> bid[g]]
    /\ prep' = "build"
    /\ UNCHANGED <<attached, policies, next, lookup>>

\* Mutant: a later attachment of the same ad group replaces the first.
KeepLast ==
    /\ prep = "build" /\ next <= Len(attached)
    /\ LET a == attached[next] IN
         IF a.adGroup \in DOMAIN fetched
           THEN lookup' = [g \in DOMAIN lookup \union {a.adGroup} |->
                    IF g # a.adGroup THEN lookup[g] ELSE
                      [bid |-> fetched[g], live |-> a.live,
                       policy |-> IF a.policy \in policies THEN a.policy ELSE NoPolicy]]
           ELSE UNCHANGED lookup
    /\ next' = next + 1
    /\ UNCHANGED <<prep, fetches>>

\* One iteration of buildPreparedAdGroupLookup: an ad group that is not
\* enabled is left out, the first attachment of an ad group is kept, and its
\* entry is made even if its policy was not returned.
BuildEntry ==
    /\ prep = "build" /\ next <= Len(attached)
    /\ LET a == attached[next] IN
         IF a.adGroup \in DOMAIN fetched \ DOMAIN lookup
           THEN lookup' = [g \in DOMAIN lookup \union {a.adGroup} |->
                    IF g # a.adGroup THEN lookup[g] ELSE
                      [bid |-> fetched[g], live |-> a.live,
                       policy |-> IF a.policy \in policies THEN a.policy ELSE NoPolicy]]
           ELSE UNCHANGED lookup
    /\ next' = next + 1
    /\ UNCHANGED <<prep, fetches>>

BuildDone ==
    /\ prep = "build" /\ next > Len(attached)
    /\ prep' = "done"
    /\ UNCHANGED <<fetches, next, lookup>>

PrepStep ==
    \/ \E at \in {"attached", "policies", "adGroups"} : PrepFails(at)
    \/ FetchAttachedPolicies \/ FetchPolicies \/ FetchAdGroups
    \/ BuildEntry \/ BuildDone

-----------------------------------------------------------------------------
PrepTypeOK ==
    /\ prep \in {"off", "attached", "policies", "adGroups", "build", "done", "failed"}
    /\ attached \in Seq(Attachment)
    /\ policies \in SUBSET Policies
    /\ DOMAIN fetched \in SUBSET AdGroups
    /\ \A g \in DOMAIN fetched : fetched[g] \in BidOrNone
    /\ next \in 1 .. Len(attached) + 1
    /\ DOMAIN lookup \in SUBSET AdGroups
    /\ \A g \in DOMAIN lookup : lookup[g] \in Entry

\* Attachment number i is the one that counts for ad group g.
IsFirst(i, g) ==
    /\ attached[i].adGroup = g
    /\ \A j \in 1 .. i - 1 : attached[j].adGroup # g

\* The lookup has an entry for exactly the enabled ad groups with something
\* attached, and it is made of the ad group's first attachment: never of a
\* later one whose policy happens to be available, or that is live.
LookupIsFirst ==
    prep \in {"build", "done"} =>
        /\ \A g \in DOMAIN lookup : \E i \in 1 .. next - 1 :
             /\ IsFirst(i, g)
             /\ g \in DOMAIN fetched /\ lookup[g].bid = fetched[g]
             /\ lookup[g].live = attached[i].live
             /\ lookup[g].policy =
                  IF attached[i].policy \in policies THEN attached[i].policy ELSE NoPolicy
        /\ \A i \in 1 .. next - 1 :
             attached[i].adGroup \in DOMAIN fetched => attached[i].adGroup \in DOMAIN lookup
=============================================================================
