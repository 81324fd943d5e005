------------------------------- MODULE Observer -------------------------------
(***************************************************************************)
(* PublisherObserver (src/publisher_observer.h) in front of the trend      *)
(* selector: one downlink callback of the SDK carries one estimate and a   *)
(* list of peers, and feeds the estimate to AbrController peer by peer.    *)
(* The controller's lock is released between two peers, so ticks and       *)
(* departures may come in the middle of a callback.                        *)
(***************************************************************************)
EXTENDS AbrTrend

CONSTANTS
    Users,      \* the keys that are user ids
    Downlink,   \* the key "downlink", for when the SDK lists no peers
    PeerLists,  \* the lists of peers the SDK may report, as the keys the
                \* callback forms: a user id, or "peer<i>" for want of one
    ReportGap   \* bound: least time between two estimates for one key

ASSUME ObserverAssumption == /\ Users \subseteq Uids
                             /\ Downlink \in Uids
                             /\ PeerLists \subseteq Seq(Uids)
                             /\ ReportGap \in Nat /\ AgeCap >= ReportGap

VARIABLE callback  \* the downlink callback under way: its estimate, and the
                   \* keys it has yet to feed

ovars == <<vars, callback>>

Unfed(bwe, keys) == [bwe |-> bwe, keys |-> keys]

OInit == Init /\ callback = Unfed(0, << >>)

\* Whom a callback feeds: the peers, whatever the estimate, its sign included,
\* or "downlink" when there are none and the estimate is positive.
Keys(bwe, peers) == IF peers # << >> THEN peers
                    ELSE IF bwe > 0 THEN <<Downlink>> ELSE << >>

\* onDownlinkNetworkInfoUpdated begins; the SDK's callbacks do not overlap.
OnDownlink(bwe, peers) ==
    /\ callback.keys = << >>
    /\ \A i \in DOMAIN Keys(bwe, peers) :
          LET u == Keys(bwe, peers)[i]
          IN  u \in Tracked(receivers) => Idle(receivers[u]) >= ReportGap
    /\ callback' = Unfed(bwe, Keys(bwe, peers))
    /\ UNCHANGED vars

\* The callback goes on to its next peer, tracked or not.
Feed == /\ callback.keys # << >>
        /\ AddSample(Head(callback.keys), callback.bwe)
        /\ callback' = [callback EXCEPT !.keys = Tail(@)]

\* onUserLeft, on a thread of the SDK's of its own.  It names users, so the
\* keys "downlink" and "peer<i>" only go when they are stale.
OnUserLeft(u) == Leave(u) /\ UNCHANGED callback

ONext == \/ \E bwe \in Estimates, peers \in PeerLists : OnDownlink(bwe, peers)
         \/ Feed
         \/ \E u \in Users : OnUserLeft(u)
         \/ Elapse /\ UNCHANGED callback
         \/ EvaluateNobody /\ UNCHANGED callback
         \/ EvaluateTracked /\ UNCHANGED callback

\* Time passes and the tick thread wakes.  Callbacks owe nothing.
Fairness == WF_vars(Elapse) /\ WF_slept(Wake)

OSpec == OInit /\ [][ONext]_ovars /\ Fairness
=============================================================================
