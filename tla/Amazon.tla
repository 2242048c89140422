------------------------------- MODULE Amazon -------------------------------
(***************************************************************************)
(* Amazon Ads as the service uses it (external): ad groups with a default  *)
(* bid, enabled targets with bids of their own, and a seller who may       *)
(* change all of them at any time.                                         *)
(***************************************************************************)
EXTENDS Integers

CONSTANTS
    AdGroups,
    Targets,
    AdGroupOf,  \* AdGroupOf[t]: the ad group of target t
    Bids,       \* bound: the bids Amazon accepts
    NoBid,      \* an ad group or a target without bid information
    Edited      \* ad groups a seller changes, too; in all others only the
                \* service does, and targets begin with the ad group's bid

ASSUME AmazonAssumption ==
    /\ AdGroupOf \in [Targets -> AdGroups]
    /\ Bids \subseteq Int
    /\ NoBid \notin Int
    /\ Edited \subseteq AdGroups

BidOrNone == Bids \union {NoBid}

VARIABLES
    enabled,    \* the ad groups in state ENABLED
    bid,        \* the default bid of each ad group
    targetBid,  \* the bid of each target
    seller      \* history: ad groups of which the seller changed something
                \* since the service last set their default bid, if it did

amazon == <<enabled, bid, targetBid, seller>>

TargetsOf(g) == {t \in Targets : AdGroupOf[t] = g}

\* Every target that has a bid has the ad group's.
Aligned(g) == \A t \in TargetsOf(g) : targetBid[t] \in {NoBid, bid[g]}

\* What is not aligned at first, a seller made so.
AmazonInit ==
    /\ enabled \in SUBSET AdGroups
    /\ bid \in [AdGroups -> BidOrNone]
    /\ targetBid \in [Targets -> BidOrNone]
    /\ seller = {g \in AdGroups : ~Aligned(g)}
    /\ seller \subseteq Edited

\* A new default bid; which targets take it over depends on their age and kind.
SetDefaultBid(g, b) ==
    /\ bid' = [bid EXCEPT ![g] = b]
    /\ \E followers \in SUBSET {t \in TargetsOf(g) : targetBid[t] # NoBid} :
         targetBid' = [t \in Targets |-> IF t \in followers THEN b ELSE targetBid[t]]
    /\ seller' = seller \ {g}
    /\ UNCHANGED enabled

SetTargetBids(S, b) ==
    /\ targetBid' = [t \in Targets |-> IF t \in S THEN b ELSE targetBid[t]]
    /\ UNCHANGED <<enabled, bid, seller>>

SellerChanges(g) ==
    /\ g \in Edited
    /\ \/ \E b \in Bids : bid' = [bid EXCEPT ![g] = b] /\ UNCHANGED <<enabled, targetBid>>
       \/ \E t \in TargetsOf(g), b \in Bids :
            targetBid' = [targetBid EXCEPT ![t] = b] /\ UNCHANGED <<enabled, bid>>
       \/ enabled' \in {enabled \union {g}, enabled \ {g}} /\ UNCHANGED <<bid, targetBid>>
    /\ seller' = seller \union {g}

AmazonTypeOK ==
    /\ enabled \in SUBSET AdGroups
    /\ bid \in [AdGroups -> BidOrNone]
    /\ targetBid \in [Targets -> BidOrNone]
    /\ seller \in SUBSET AdGroups
=============================================================================
