------------------------- MODULE TransportAnswerer -------------------------
(***************************************************************************)
(* pkg/rtc/transport.go: how a peer connection that gets the offers (the   *)
(* publisher's, which also sends when there is only one) negotiates. One   *)
(* goroutine works off offers, the end of ICE gathering and requests to    *)
(* negotiate. A track the server adds waits for a media section in an      *)
(* offer: the transport counts the tracks that wait and asks the client    *)
(* for as many sections, while other goroutines add and remove tracks. An  *)
(* offer that restarts ICE during gathering is put off.                    *)
(*                                                                         *)
(* External: pion's peer connection (pion) and the client (peer), which    *)
(* adds the sections it is asked for, has one offer under way at a time,   *)
(* and restarts ICE when it resumes, with the loss of messages under way.  *)
(***************************************************************************)
EXTENDS Naturals, Sequences, FiniteSets

CONSTANTS
    AnswererTracks,  \* tracks the server sends
    AnswererScopes   \* bounds: calls of AddTrack, of RemoveTrack, the client's own
                     \* offers, its resumes; whether sending may fail, whether it closes

VARIABLES
    ascope,   \* the scope of this behaviour: what is left of the bounds
    media,    \* senders per track, AddTrack calls that have not counted theirs yet, the
              \* counts numOutstanding and numRequestSent, whether a negotiation is asked for
    loop,     \* the event queue and its goroutine: where createAndSendAnswer is, what it has
              \* counted, pendingRestartIceOffer, currentOfferIceCredential, remoteOfferId
    pion,     \* the remote description, sections, ICEGatheringState, notices of its end
    peer,     \* the client: its last offer, whether it waits for the answer or has to
              \* negotiate once more, its sections, and the tracks it was told of
    link,     \* offers under way up, answers and requirements down
    end       \* negotiation failed, transport closed, a superseded offer was applied

answererVars == <<ascope, media, loop, pion, peer, link, end>>

NoOffer == [id |-> 0, cred |-> 0, sections |-> 0]

AnswererInit ==
    /\ ascope \in AnswererScopes
    /\ media = [sender |-> [t \in AnswererTracks |-> "none"], adjusting |-> {},
                outstanding |-> 0, requested |-> 0, asks |-> FALSE]
    /\ loop = [queue |-> <<>>, at |-> "idle", counted |-> 0, pending |-> NoOffer,
               credential |-> 0, remoteOfferId |-> 0]
    /\ pion = [remote |-> NoOffer, sections |-> 0, gathering |-> "new", notices |-> 0]
    /\ peer = [offer |-> [NoOffer EXCEPT !.cred = 1], waiting |-> FALSE, negotiate |-> FALSE,
               sections |-> 0, tracks |-> {}]
    /\ link = [up |-> <<>>, down |-> <<>>]
    /\ end = [failed |-> FALSE, closed |-> FALSE, stale |-> FALSE]

Spend(b) == ascope[b] > 0 /\ ascope' = [ascope EXCEPT ![b] = @ - 1]

Unmatched == {t \in AnswererTracks : media.sender[t] = "unmatched"}
Matched   == {t \in AnswererTracks : media.sender[t] = "matched"}

-----------------------------------------------------------------------------
(* Tracks, from the goroutines of the subscriptions. *)

(* AddTrack, up to the point where the transceiver is in the peer connection; *)
(* pion may reuse one that has a section already.                             *)
AddSender(t) ==
    /\ Spend("adds") /\ media.sender[t] = "none" /\ t \notin media.adjusting
    /\ \E s \in {"unmatched", "matched"} :
         /\ s = "matched" => pion.sections > Cardinality(Matched)
         /\ media' = [media EXCEPT !.sender[t] = s, !.adjusting = @ \union {t}]
    /\ UNCHANGED <<loop, pion, peer, link, end>>

(* adjustNumOutstandingMedia, and the caller's request to negotiate. *)
AdjustOutstanding(t) ==
    /\ t \in media.adjusting
    /\ media' = [media EXCEPT !.adjusting = @ \ {t}, !.asks = TRUE,
                              !.outstanding = @ + (IF media.sender[t] = "unmatched" THEN 1 ELSE 0)]
    /\ UNCHANGED <<ascope, loop, pion, peer, link, end>>

RemoveSender(t) ==
    /\ Spend("removes") /\ media.sender[t] # "none" /\ t \notin media.adjusting
    /\ media' = [media EXCEPT !.sender[t] = "none", !.asks = TRUE]
    /\ UNCHANGED <<loop, pion, peer, link, end>>

Post(q, e) == IF end.closed THEN q ELSE Append(q, e)

(* Negotiate, whose debounce joins requests to one event. *)
AskToNegotiate ==
    /\ media.asks /\ media' = [media EXCEPT !.asks = FALSE]
    /\ loop' = [loop EXCEPT !.queue = Post(@, [kind |-> "negotiate", offer |-> NoOffer])]
    /\ UNCHANGED <<ascope, pion, peer, link, end>>

-----------------------------------------------------------------------------
(* The goroutine of the event queue. *)

Take(k) == /\ loop.at = "idle" /\ loop.queue # <<>> /\ Head(loop.queue).kind = k
           /\ ~end.closed

(* What the goroutine writes to the client, or the failure of the handler. *)
Write(m) ==
    \/ link' = [link EXCEPT !.down = Append(@, m)] /\ UNCHANGED end
    \/ ascope.fails /\ end' = [end EXCEPT !.failed = TRUE] /\ UNCHANGED link

Requirement(n) == [kind |-> "requirement", id |-> 0, tracks |-> {}, sections |-> n]

(* Mutant: only sections that were not asked for yet are worth a message. *)
ForcedOnlyIfNeeded(force, n) == n # 0

Forced(force, n) == force \/ n # 0

(* sendUnmatchedMediaRequirement *)
SendRequirement(force) ==
    LET n == media.outstanding - media.requested IN
    /\ media' = [media EXCEPT !.requested = media.outstanding]
    /\ IF Forced(force, n) THEN Write(Requirement(n)) ELSE UNCHANGED <<link, end>>

(* handleSendOffer *)
HandleNegotiate ==
    /\ Take("negotiate")
    /\ loop' = [loop EXCEPT !.queue = Tail(@)]
    /\ SendRequirement(TRUE)
    /\ UNCHANGED <<ascope, pion, peer>>

(* setRemoteDescription: pion gives sections it did not know to transceivers  *)
(* that wait, in an order of its own, and restarts ICE for a new credential.  *)
SetRemote(o, newest) ==
    LET new == IF o.sections > pion.sections THEN o.sections - pion.sections ELSE 0
        n   == IF new < Cardinality(Unmatched) THEN new ELSE Cardinality(Unmatched) IN
    \/ \E T \in SUBSET Unmatched :
         /\ Cardinality(T) = n
         /\ media' = [media EXCEPT !.sender =
                        [t \in AnswererTracks |-> IF t \in T THEN "matched" ELSE @[t]]]
         /\ pion' = [pion EXCEPT !.remote = o, !.sections = @ + new,
                        !.gathering = IF pion.remote.cred \notin {0, o.cred} THEN "gathering" ELSE @]
         /\ end' = [end EXCEPT !.stale = @ \/ o.id # newest]
    \/ /\ ascope.fails /\ end' = [end EXCEPT !.failed = TRUE]
       /\ UNCHANGED <<media, pion>>

(* isRemoteOfferRestartICE *)
RestartsICE(o) == loop.credential # 0 /\ loop.credential # o.cred

(* handleRemoteOfferReceived. The credential is kept when the offer is        *)
(* applied, not when it is put off.                                           *)
HandleOfferReceived ==
    LET o == Head(loop.queue).offer
        seen == [loop EXCEPT !.queue = Tail(@), !.remoteOfferId = o.id] IN
    /\ Take("offer")
    /\ IF RestartsICE(o) /\ pion.gathering = "gathering"
       THEN /\ loop' = [seen EXCEPT !.pending = o]
            /\ UNCHANGED <<media, pion, end>>
       ELSE /\ SetRemote(o, o.id)
            /\ loop' = IF pion'.remote # o THEN seen
                       ELSE [seen EXCEPT !.at = "count",
                               !.credential = IF @ = 0 \/ RestartsICE(o) THEN o.cred ELSE @]
    /\ UNCHANGED <<ascope, peer, link>>

(* handleICEGatheringCompleteAnswerer. Its offer may be older than the one    *)
(* applied since; the answer goes out under the id of the newer.              *)
HandleGatheredAnswerer ==
    LET o == loop.pending
        taken == [loop EXCEPT !.queue = Tail(@), !.pending = NoOffer] IN
    /\ Take("gathered")
    /\ IF o = NoOffer
       THEN loop' = taken /\ UNCHANGED <<media, pion, end>>
       ELSE /\ SetRemote(o, loop.remoteOfferId)
            /\ loop' = IF pion'.remote = o THEN [taken EXCEPT !.at = "count"] ELSE taken
    /\ UNCHANGED <<ascope, peer, link>>

(* createAndSendAnswer counts without a lock, ... *)
CountUnmatched ==
    /\ loop.at = "count"
    /\ loop' = [loop EXCEPT !.at = "store", !.counted = IF end.closed THEN 0 ELSE Cardinality(Unmatched)]
    /\ UNCHANGED <<ascope, media, pion, peer, link, end>>

(* ... stores the counts, ... *)
StoreCounts ==
    /\ loop.at = "store"
    /\ media' = [media EXCEPT !.outstanding = loop.counted, !.requested = 0]
    /\ loop' = [loop EXCEPT !.at = "answer", !.counted = 0]
    /\ UNCHANGED <<ascope, pion, peer, link, end>>

(* ... answers under the id of the last offer received, ... *)
SendAnswer ==
    /\ loop.at = "answer"
    /\ \/ /\ end.closed
          /\ loop' = [loop EXCEPT !.at = "idle"]
          /\ UNCHANGED <<pion, link, end>>
       \/ /\ ~end.closed
          /\ pion' = [pion EXCEPT !.gathering = IF @ = "new" THEN "gathering" ELSE @]
          /\ Write([kind |-> "answer", id |-> loop.remoteOfferId, tracks |-> Matched, sections |-> 0])
          /\ loop' = [loop EXCEPT !.at = IF link' = link THEN "idle" ELSE "require"]
       \/ /\ ~end.closed /\ ascope.fails       \* there is no answer to send
          /\ end' = [end EXCEPT !.failed = TRUE]
          /\ loop' = [loop EXCEPT !.at = "idle"]
          /\ UNCHANGED <<pion, link>>
    /\ UNCHANGED <<ascope, media, peer>>

(* ... and asks for sections still missing. *)
RequireSections ==
    /\ loop.at = "require"
    /\ loop' = [loop EXCEPT !.at = "idle"]
    /\ SendRequirement(FALSE)
    /\ UNCHANGED <<ascope, pion, peer>>

AnswererLoop ==
    \/ HandleNegotiate \/ HandleOfferReceived \/ HandleGatheredAnswerer
    \/ CountUnmatched \/ StoreCounts \/ SendAnswer \/ RequireSections

(* Close: events that are left are dropped. *)
CloseAnswerer ==
    /\ ascope.closes /\ ~end.closed /\ end' = [end EXCEPT !.closed = TRUE]
    /\ loop' = [loop EXCEPT !.queue = <<>>]
    /\ UNCHANGED <<ascope, media, pion, peer, link>>

-----------------------------------------------------------------------------
(* Pion and the client. *)

AnswererGathers ==
    /\ pion.gathering = "gathering" /\ ~end.closed
    /\ pion' = [pion EXCEPT !.gathering = "complete", !.notices = @ + 1]
    /\ UNCHANGED <<ascope, media, loop, peer, link, end>>

(* onICEGatheringStateChange *)
AnswererGathered ==
    /\ pion.notices > 0 /\ pion' = [pion EXCEPT !.notices = @ - 1]
    /\ loop' = [loop EXCEPT !.queue = Post(@, [kind |-> "gathered", offer |-> NoOffer])]
    /\ UNCHANGED <<ascope, media, peer, link, end>>

(* HandleRemoteDescription *)
OfferArrives ==
    /\ link.up # <<>> /\ link' = [link EXCEPT !.up = Tail(@)]
    /\ loop' = [loop EXCEPT !.queue = Post(@, [kind |-> "offer", offer |-> Head(link.up)])]
    /\ UNCHANGED <<ascope, media, pion, peer, end>>

(* An offer, with a new credential when ICE is restarted. *)
MakeOffer(up, down, cred) ==
    LET o == [id |-> peer.offer.id + 1, cred |-> cred, sections |-> peer.sections] IN
    /\ peer' = [peer EXCEPT !.offer = o, !.waiting = TRUE, !.negotiate = FALSE]
    /\ link' = [up |-> Append(up, o), down |-> down]

PeerOffers ==
    /\ peer.negotiate /\ ~peer.waiting
    /\ MakeOffer(link.up, link.down, peer.offer.cred)
    /\ UNCHANGED <<ascope, media, loop, pion, end>>

(* The client has media of its own to negotiate. *)
PeerPublishes ==
    /\ Spend("offers") /\ ~peer.negotiate
    /\ peer' = [peer EXCEPT !.negotiate = TRUE]
    /\ UNCHANGED <<media, loop, pion, link, end>>

(* The client adds the sections it is asked for and takes the answer to its   *)
(* last offer.                                                                *)
PeerReceives ==
    LET m == Head(link.down) IN
    /\ link.down # <<>> /\ link' = [link EXCEPT !.down = Tail(@)]
    /\ peer' = CASE m.kind = "requirement" ->
                     [peer EXCEPT !.negotiate = TRUE, !.sections = @ + m.sections]
                [] m.kind = "answer" /\ peer.waiting /\ m.id = peer.offer.id ->
                     [peer EXCEPT !.waiting = FALSE, !.tracks = m.tracks]
                [] OTHER -> peer
    /\ UNCHANGED <<ascope, media, loop, pion, end>>

PeerResumes ==
    /\ Spend("resumes") /\ peer.offer.id # 0
    /\ \E up \in {link.up, <<>>}, down \in {link.down, <<>>} :
         MakeOffer(up, down, peer.offer.cred + 1)
    /\ UNCHANGED <<media, loop, pion, end>>

-----------------------------------------------------------------------------
SubscriptionSteps == \E t \in AnswererTracks : AdjustOutstanding(t)

AnswererNext ==
    \/ \E t \in AnswererTracks : AddSender(t) \/ RemoveSender(t)
    \/ SubscriptionSteps \/ AskToNegotiate
    \/ AnswererLoop \/ CloseAnswerer
    \/ AnswererGathers \/ AnswererGathered
    \/ OfferArrives \/ PeerOffers \/ PeerPublishes \/ PeerReceives \/ PeerResumes

(* Goroutines run, gathering ends, and the client, once it has resumed for    *)
(* the last time, gets what it is sent, negotiates and is heard.              *)
AnswererFairness ==
    /\ WF_answererVars(SubscriptionSteps) /\ WF_answererVars(AskToNegotiate)
    /\ WF_answererVars(AnswererLoop)
    /\ WF_answererVars(AnswererGathers) /\ WF_answererVars(AnswererGathered)
    /\ WF_answererVars(OfferArrives) /\ WF_answererVars(PeerOffers) /\ WF_answererVars(PeerReceives)

AnswererSpec == AnswererInit /\ [][AnswererNext]_answererVars /\ AnswererFairness

-----------------------------------------------------------------------------
(* Every track the server sends gets a media section, and the client's last   *)
(* offer is the one the server has applied and answered, with exactly these   *)
(* tracks: although a track added between the count of the waiting tracks and *)
(* its store is left out of numOutstanding, although a requirement may be     *)
(* lost when the client resumes, and although an offer put off until ICE      *)
(* gathering ends is applied without keeping its credential, so that the next *)
(* one is taken for a restart. Not so after a failure, a close, or once an    *)
(* offer that was put off is applied after a newer one (end.stale).           *)
AnswererSettles ==
    <>[](\/ end.failed \/ end.closed \/ end.stale
         \/ /\ Unmatched = {} /\ pion.remote.id = peer.offer.id
            /\ ~peer.waiting /\ ~peer.negotiate /\ peer.tracks = Matched)

=============================================================================
