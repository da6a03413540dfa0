-------------------------- MODULE DownTrackPackets --------------------------
(***************************************************************************)
(* The packet path of one video DownTrack: pkg/sfu/forwarder.go (which     *)
(* packets go out, and under which number), downtrack.go (WriteRTP,        *)
(* padding, retransmission), with the RTP munger and the sequencer.        *)
(*                                                                         *)
(* One goroutine per simulcast layer delivers the packets of that layer;   *)
(* another one probes with padding; another answers NACKs; the publisher's *)
(* receiver may restart. The forwarder and the sequencer have a lock each: *)
(* a packet gets its number under the first and is recorded under the      *)
(* second, later.                                                          *)
(*                                                                         *)
(* Which packets a layer selector or a codec munger filters is data of the *)
(* stream: the model lets them choose within the rules of the code.        *)
(***************************************************************************)
EXTENDS RTPMunger, Sequencer, FiniteSets

CONSTANTS
    FirstSN,      \* first source number of every stream
    KeyFrames,    \* source numbers that begin a key frame
    Scopes        \* what a behaviour ranges over, see Scope

(* The codec: VP8 is sent as one stream per layer, VP9 and AV1 here as one    *)
(* stream of all layers (SVC), with or without the dependency descriptor. The *)
(* bounds: the last source number of every stream; paddings and blank frames; *)
(* mutes, unmutes and new targets; NACKs; restarts of the receiver.           *)
Scope == [codec : {"VP8", "VP9", "AV1"}, dd : BOOLEAN, lastSN : Nat,
          pads : Nat, events : Nat, nacks : Nat, restarts : Nat]

ASSUME PacketAssumption == /\ FirstSN \in Nat \ {0}
                           /\ KeyFrames \in SUBSET Nat
                           /\ Scopes \in SUBSET Scope

Layers  == 0 .. 1
NoLayer == -1

VARIABLES
    scope,      \* the scope of this behaviour, constant
    munger,     \* the RTP munger
    fwd,        \* the forwarder: layer selector, started, lastSSRC (a stream), cur and target
                \* layer, reference layer known
    muted,      \* who mutes: the subscriber, the publisher
    seqr,       \* the sequencer
    arrived,    \* source numbers of the current streams delivered to the DownTrack, per layer
    flight,     \* per layer, the packet that has a number but is not recorded yet
    padder,     \* the goroutine that writes padding
    nacker,     \* the retransmit worker
    restart,    \* the receiver's restart, as far as this DownTrack sees it
    gen,        \* generation of the source streams
    out,        \* what was sent under every outgoing number (history)
    gaveUp,     \* outgoing numbers that will never be sent (history)
    passed,     \* packets of the current source that came before the switch to it (history)
    wiped,      \* numbers whose slot late padding a full turn behind has cleared (history)
    pads, events, nacks, restarts     \* counters for the bounds

fwVars     == <<scope, munger, fwd, muted>>
seqVars    == <<seqr>>
srcVars    == <<arrived, gen, restart>>
histVars   == <<out, gaveUp, passed, wiped>>
boundVars  == <<pads, events, nacks, restarts>>
packetVars == <<fwVars, seqVars, srcVars, flight, padder, nacker, histVars, boundVars>>

SNs == FirstSN .. scope.lastSN

NoFlight == [sn |-> 0, source |-> <<>>]
NoPadder == [pc |-> "idle", first |-> 0, last |-> 0]
NoNacker == [pc |-> "idle", sn |-> 0, source |-> <<>>]

(* DetermineCodec *)
Selector == CASE scope.codec = "VP8" -> "simulcast"
              [] scope.codec # "VP8" /\ scope.dd -> "dd"
              [] scope.codec = "VP9" /\ ~scope.dd -> "vp9"
              [] scope.codec = "AV1" /\ ~scope.dd -> "simulcast"

PacketInit ==
    /\ scope \in Scopes
    /\ munger = NewMunger
    /\ fwd = [selector |-> Selector, started |-> FALSE, lastSSRC |-> NoLayer, cur |-> NoLayer, target |-> 1, ref |-> FALSE]
    /\ muted = {}
    /\ seqr = NewSequencer
    /\ arrived = [l \in Layers |-> {}]
    /\ flight = [l \in Layers |-> NoFlight]
    /\ padder = NoPadder
    /\ nacker = NoNacker
    /\ restart = "no"
    /\ gen = 0
    /\ out = <<>>
    /\ gaveUp = {}
    /\ passed = {} /\ wiped = {}
    /\ pads = 0 /\ events = 0 /\ nacks = 0 /\ restarts = 0

-----------------------------------------------------------------------------
(* Layer selection: the layers and verdicts a selector may return.          *)

Verdict(cur, selected, relevant) == [cur |-> cur, selected |-> selected, relevant |-> relevant]

(* Simulcast.Select: towards the target at key frames; the first layer may be *)
(* kept back until it is the target.                                          *)
SelectSimulcast(l, sn) ==
    LET found == /\ sn \in KeyFrames
                 /\ \/ fwd.cur < l /\ l <= fwd.target
                    \/ fwd.target <= l /\ l < fwd.cur
        kept  == ~found \/ (fwd.cur = NoLayer /\ l # fwd.target)
    IN  {Verdict(l, TRUE, FALSE) : x \in {y \in {0} : found}}
        \cup {Verdict(fwd.cur, l = fwd.cur, FALSE) : x \in {y \in {0} : kept}}

(* Mutant: packets are relevant before a layer is current. *)
SelectDDRelevant(sn, payload) ==
    {Verdict(fwd.cur, FALSE, TRUE)}
    \cup {Verdict(c, TRUE, TRUE) :
            c \in {d \in 0 .. fwd.target : payload /\ (sn \in KeyFrames \/ fwd.cur # NoLayer)}}

(* DependencyDescriptor.Select: every packet of the stream is relevant once a *)
(* layer is current; which frames are decodable is up to the stream. An empty *)
(* packet has no descriptor.                                                  *)
SelectDD(sn, payload) ==
    {Verdict(fwd.cur, FALSE, fwd.cur # NoLayer)}
    \cup {Verdict(c, TRUE, TRUE) :
            c \in {d \in 0 .. fwd.target : payload /\ (sn \in KeyFrames \/ fwd.cur # NoLayer)}}

(* VP9.Select: the packet is compared with the layer that was current before, *)
(* except on a step up; so the packet that acquires a layer is not selected.  *)
SelectVP9(sn, payload) ==
    IF ~payload \/ (fwd.cur = NoLayer /\ sn \notin KeyFrames)
    THEN {Verdict(fwd.cur, FALSE, FALSE)}
    ELSE IF fwd.cur = NoLayer THEN {Verdict(0, FALSE, TRUE)}
    ELSE {Verdict(fwd.cur, FALSE, TRUE), Verdict(fwd.cur, TRUE, TRUE), Verdict(fwd.target, TRUE, TRUE)}

Select(l, sn, payload) == CASE fwd.selector = "simulcast" -> SelectSimulcast(l, sn)
                            [] fwd.selector = "dd"  -> SelectDD(sn, payload)
                            [] fwd.selector = "vp9" -> SelectVP9(sn, payload)

(* getTranslationParamsVideo: a packet without a descriptor that is not       *)
(* selected turns the selection by descriptors off, until a restart.          *)
NextSelector(payload) == IF fwd.selector # "dd" \/ payload THEN fwd.selector
                         ELSE IF scope.codec = "VP9" THEN "vp9" ELSE "simulcast"

(* The streams a codec has: one per layer, or one for all layers. *)
Streams == IF scope.codec = "VP8" THEN Layers ELSE {0}

-----------------------------------------------------------------------------
(* GetTranslationParams: the number of a packet.                            *)

IsOutOfOrder(l, sn) == \E other \in arrived[l] : other > sn

(* Numbers that no packet will take any more once the source is let go. *)
Unsent == {n \in FirstSN .. munger.lastSN : n \notin DOMAIN out}

(* processSourceSwitch: it starts the stream, or continues the numbers with a *)
(* timestamp after the last one. Without a sender report for the layer, or    *)
(* too far behind, it fails and the layer is rolled back.                     *)
StartAllowed(l, sn) == (fwd.started /\ fwd.ref) \/ ~IsOutOfOrder(l, sn)

Switched(l, sn, ts) ==
    IF fwd.lastSSRC = l THEN {munger}
    ELSE IF ~fwd.started THEN {SetLastSnTs(munger, sn, ts)}
    ELSE {UpdateSnTsOffsets(munger, sn, ts, 1, d) : d \in 1 .. 2}

(* UpdateAndGetSnTs: the munger after the packet, and whether it has a number. *)
HasNumber(m, sn, payload) ==
    Contiguous(m, sn, payload) \/ Gap(m, sn) \/ (OutOfOrder(m, sn) /\ LateFound(m, sn))

Translated(m, sn, ts, payload, marker) ==
    IF Contiguous(m, sn, payload) \/ Gap(m, sn) THEN InOrder(m, sn, ts, marker)
    ELSE IF PaddingOnly(m, sn, payload) THEN SkipPadding(m, sn) ELSE m

SetOut(sn, what) == out' = [n \in DOMAIN out \cup {sn} |-> IF n = sn THEN what ELSE out[n]]

Packet(l, sn) == <<l, gen, sn>>
Padding       == <<>>

(* Mutant: the number is given back after a gap as well. *)
FilteredAlwaysBack(m, sn, ts, payload, marker) ==
    IF Contiguous(m, sn, payload) \/ Gap(m, sn)
    THEN munger' = PacketDropped(InOrder(m, sn, ts, marker), sn) /\ UNCHANGED out
    ELSE munger' = Translated(m, sn, ts, payload, marker) /\ SetOut(TranslatedSN(m, sn), Padding)

(* A packet that got a number but is filtered: the number is given back, or   *)
(* padding is sent in its place when packets before it may still come.        *)
Filtered(m, sn, ts, payload, marker) ==
    IF Contiguous(m, sn, payload)
    THEN munger' = PacketDropped(InOrder(m, sn, ts, marker), sn) /\ UNCHANGED out
    ELSE munger' = Translated(m, sn, ts, payload, marker) /\ SetOut(TranslatedSN(m, sn), Padding)

-----------------------------------------------------------------------------
(* WriteRTP of a packet of layer l, by the goroutine of that layer.         *)

(* The buffer lets every packet pass once, in any order; of the empty ones    *)
(* only those that come late.                                                 *)
Comes(l, sn, payload) ==
    /\ l \in Streams /\ restart = "no" /\ flight[l] = NoFlight
    /\ sn \notin arrived[l]
    /\ payload \/ (IsOutOfOrder(l, sn) /\ sn \notin KeyFrames)
    /\ arrived' = [arrived EXCEPT ![l] = @ \cup {sn}]
    /\ UNCHANGED <<scope, muted, seqVars, gen, restart, padder, nacker, boundVars>>

(* Muted or paused: nothing is translated. *)
DropWhileMuted(l, sn) ==
    /\ muted # {} \/ fwd.target = NoLayer
    /\ Comes(l, sn, TRUE)
    /\ UNCHANGED <<munger, fwd, flight, histVars>>

Flowing == muted = {} /\ fwd.target # NoLayer

(* Not selected: a relevant packet still uses up, or gives back, its number. *)
NotSelected(l, sn, payload, marker) ==
    /\ Flowing
    /\ \E v \in Select(l, sn, payload) :
         /\ ~v.selected
         /\ fwd' = [fwd EXCEPT !.cur = v.cur, !.selector = NextSelector(payload)]
         /\ IF v.relevant /\ fwd.started
            THEN IF HasNumber(munger, sn, payload)
                 THEN Filtered(munger, sn, sn, payload, marker)
                 ELSE munger' = Translated(munger, sn, sn, payload, marker) /\ UNCHANGED out
            ELSE UNCHANGED <<munger, out>>
    /\ UNCHANGED <<flight, gaveUp, passed, wiped>>

(* Selected, but the source cannot be switched to now. *)
SwitchFails(l, sn, payload) ==
    /\ Flowing /\ fwd.lastSSRC # l
    /\ fwd.started \/ ~StartAllowed(l, sn)
    /\ \E v \in Select(l, sn, payload) :
         /\ v.selected
         /\ fwd' = [fwd EXCEPT !.cur = IF v.cur # @ THEN @ ELSE NoLayer,
                               !.ref = @ \/ (fwd.started /\ StartAllowed(l, sn))]
    /\ UNCHANGED <<munger, flight, histVars>>

(* Selected: the packet goes out under its number; or it has none; or it is   *)
(* filtered; or, after a downgrade for lack of bandwidth, its number is spent *)
(* and nothing is sent.                                                       *)
Selected(l, sn, payload, marker) ==
    /\ Flowing
    /\ fwd.lastSSRC # l => StartAllowed(l, sn)
    /\ UNCHANGED wiped
    /\ \E v \in Select(l, sn, payload) : \E m \in Switched(l, sn, sn) :
         /\ v.selected
         /\ fwd' = [fwd EXCEPT !.cur = v.cur, !.started = TRUE, !.lastSSRC = l, !.ref = TRUE]
         /\ passed' = IF fwd.lastSSRC = l THEN passed ELSE {o \in arrived[l] : o > sn}
         /\ LET left == IF fwd.lastSSRC = l THEN gaveUp ELSE gaveUp \cup Unsent
                n    == TranslatedSN(m, sn)
            IN
            \/ /\ ~HasNumber(m, sn, payload)
               /\ munger' = Translated(m, sn, sn, payload, marker)
               /\ gaveUp' = left
               /\ UNCHANGED <<flight, out>>
            \/ /\ fwd.selector = "simulcast" /\ HasNumber(m, sn, payload) /\ payload
               /\ sn \notin KeyFrames \/ OutOfOrder(m, sn)
               /\ Filtered(m, sn, sn, payload, marker)
               /\ gaveUp' = left
               /\ UNCHANGED flight
            \/ /\ HasNumber(m, sn, payload)
               /\ fwd.target < v.cur
               /\ munger' = Translated(m, sn, sn, payload, marker)
               /\ gaveUp' = left \cup {n}
               /\ UNCHANGED <<flight, out>>
            \/ /\ HasNumber(m, sn, payload)
               /\ munger' = Translated(m, sn, sn, payload, marker)
               /\ flight' = [flight EXCEPT ![l] = [sn |-> n, source |-> Packet(l, sn)]]
               /\ SetOut(n, Packet(l, sn))
               /\ gaveUp' = left

(* ... the packet is recorded for retransmission, and queued for sending. *)
Record(l) ==
    /\ flight[l] # NoFlight
    /\ seqr' = SequencerPush(seqr, flight[l].sn, flight[l].source)
    /\ flight' = [flight EXCEPT ![l] = NoFlight]
    /\ UNCHANGED <<fwVars, srcVars, padder, nacker, histVars, boundVars>>

WriteRTP ==
    \E l \in Layers, sn \in SNs :
        \/ DropWhileMuted(l, sn)
        \/ \E payload, marker \in BOOLEAN :
             /\ Comes(l, sn, payload)
             /\ \/ NotSelected(l, sn, payload, marker) \/ Selected(l, sn, payload, marker)
                \/ SwitchFails(l, sn, payload) /\ ~marker

-----------------------------------------------------------------------------
(* WritePaddingRTP and blank frames.                                        *)

(* Probing needs a stream that has begun and is not muted by the subscriber;  *)
(* padding on mute is for one that has not begun. Both are checked first ...  *)
CheckPadding(kind) ==
    /\ padder.pc = "idle" /\ pads < scope.pads
    /\ IF kind = "probe" THEN out # <<>> /\ "subscriber" \notin muted ELSE out = <<>>
    /\ padder' = [padder EXCEPT !.pc = kind]
    /\ pads' = pads + 1
    /\ UNCHANGED <<fwVars, seqVars, srcVars, flight, nacker, histVars, events, nacks, restarts>>

(* maybeStart: a stream that begins with padding has a number of its own. *)
Started == IF fwd.started THEN munger ELSE SetLastSnTs(munger, FirstSN, FirstSN)

AddOut(first, last) ==
    out' = [n \in DOMAIN out \cup (first .. last) |-> IF n \in first .. last THEN Padding ELSE out[n]]

(* ... then the numbers are taken, if the last packet ended a frame; while    *)
(* paused, and on mute, the end of the frame is forced ...                    *)
TakePadding(num) ==
    LET onMute == padder.pc = "onMute"
        force  == onMute \/ fwd.target = NoLayer
        lastTS == IF onMute /\ Started.lastMarker THEN Started.lastTS + 1 ELSE Started.lastTS
    IN
    /\ padder.pc \in {"probe", "onMute"}
    /\ onMute => num = 1
    /\ fwd' = [fwd EXCEPT !.started = TRUE]
    /\ IF CanPad(Started, force)
       THEN /\ munger' = Padded(Started, num, lastTS, Started.lastTS, force)
            /\ padder' = [pc |-> "push", first |-> Started.lastSN + 1, last |-> Started.lastSN + num]
            /\ AddOut(Started.lastSN + 1, Started.lastSN + num)
       ELSE munger' = Started /\ padder' = NoPadder /\ UNCHANGED out
    /\ UNCHANGED <<scope, muted, seqVars, srcVars, flight, nacker, gaveUp, passed, wiped, boundVars>>

(* ... and the sequencer leaves them out. *)
PushPadding ==
    /\ padder.pc = "push"
    /\ seqr' = SequencerPushPadding(seqr, padder.first, padder.last)
    /\ padder' = NoPadder
    /\ wiped' = IF seqr.extHighestSN - Slots \in padder.first .. padder.last
                THEN wiped \cup {seqr.extHighestSN} ELSE wiped
    /\ UNCHANGED <<fwVars, srcVars, flight, nacker, out, gaveUp, passed, boundVars>>

(* A blank frame, and before it the end of a frame that is open. *)
BlankFrame ==
    LET num == IF munger.lastMarker THEN 1 ELSE 2 IN
    /\ out # <<>> /\ pads < scope.pads
    /\ munger' = Padded(munger, num, munger.lastTS + 1, munger.lastTS, ~munger.lastMarker)
    /\ AddOut(munger.lastSN + 1, munger.lastSN + num)
    /\ pads' = pads + 1
    /\ UNCHANGED <<scope, fwd, muted, seqVars, srcVars, flight, padder, nacker, gaveUp, passed, wiped, events, nacks, restarts>>

-----------------------------------------------------------------------------
(* Mute, target layers, resync.                                             *)

Resync(target) ==
    /\ fwd' = [fwd EXCEPT !.cur = NoLayer, !.lastSSRC = NoLayer, !.target = target]
    /\ gaveUp' = gaveUp \cup Unsent

(* The allocator may refuse a subscriber's mute while the stream is paused. *)
Mute(who) ==
    /\ who \notin muted /\ muted' = muted \cup {who}
    /\ Resync(fwd.target)

Unmute(who) ==
    /\ who \in muted /\ muted' = muted \ {who}
    /\ UNCHANGED <<fwd, gaveUp>>

(* The allocator's new target; none pauses the stream. *)
SetTargetLayer(t) ==
    /\ t # fwd.target
    /\ IF t = NoLayer THEN Resync(t) ELSE fwd' = [fwd EXCEPT !.target = t] /\ UNCHANGED gaveUp
    /\ UNCHANGED muted

Control ==
    /\ events < scope.events /\ events' = events + 1
    /\ \/ \E who \in {"subscriber", "publisher"} : Mute(who) \/ Unmute(who)
       \/ \E t \in Layers \cup {NoLayer} : SetTargetLayer(t)
    /\ UNCHANGED <<scope, munger, seqVars, srcVars, flight, padder, nacker, out, passed, wiped, pads, nacks, restarts>>

-----------------------------------------------------------------------------
(* Retransmission. The worker finds the packet of a NACKed number ...       *)

GetExtPacketMetas(n) ==
    LET meta == ExtPacketMeta(seqr, n % SNModulus) IN
    /\ nacker.pc = "idle" /\ meta # NoMeta
    /\ nacks < scope.nacks /\ nacks' = nacks + 1
    /\ nacker' = [pc |-> "read", sn |-> n, source |-> meta.source]
    /\ UNCHANGED <<fwVars, seqVars, srcVars, flight, padder, histVars, pads, events, restarts>>

(* ... and reads the number from the bucket of its layer, as it is by then:   *)
(* that of the stream after a restart, or gone.                               *)
Retransmit ==
    /\ nacker.pc = "read"
    /\ \/ nacker' = [nacker EXCEPT !.pc = "sent", !.source = Packet(nacker.source[1], nacker.source[3])]
       \/ nacker' = NoNacker
    /\ UNCHANGED <<fwVars, seqVars, srcVars, flight, padder, histVars, boundVars>>

NackDone ==
    /\ nacker.pc = "sent" /\ nacker' = NoNacker
    /\ UNCHANGED <<fwVars, seqVars, srcVars, flight, padder, histVars, boundVars>>

-----------------------------------------------------------------------------
(* The receiver restarts: once its goroutines have stopped the buffers begin  *)
(* again, and fill; then the DownTrack's forwarder is reset ...               *)

RestartStreams ==
    /\ restart = "no" /\ restarts < scope.restarts
    /\ \A l \in Layers : flight[l] = NoFlight
    /\ restart' = "forwarder" /\ restarts' = restarts + 1
    /\ gen' = gen + 1
    /\ arrived' = [l \in Layers |-> {}]
    /\ UNCHANGED <<fwVars, seqVars, flight, padder, nacker, histVars, pads, events, nacks>>

(* Forwarder.Restart, and DetermineCodec, which goes back to the selector the *)
(* stream began with (after the flush; no packet asks for it until then).     *)
RestartForwarder ==
    /\ restart = "forwarder" /\ restart' = "flush"
    /\ fwd' = [fwd EXCEPT !.selector = Selector, !.cur = NoLayer, !.lastSSRC = NoLayer,
                          !.target = NoLayer, !.ref = FALSE]
    /\ gaveUp' = gaveUp \cup Unsent
    /\ UNCHANGED <<scope, munger, muted, seqVars, arrived, gen, flight, padder, nacker, out, passed, wiped, boundVars>>

(* ... and its sequencer flushed; then delivery goes on. *)
FlushSequencer ==
    /\ restart = "flush" /\ restart' = "no"
    /\ seqr' = SequencerFlush(seqr)
    /\ UNCHANGED <<fwVars, arrived, gen, flight, padder, nacker, histVars, boundVars>>

-----------------------------------------------------------------------------
PacketNext ==
    \/ WriteRTP
    \/ \E l \in Layers : Record(l)
    \/ \E kind \in {"probe", "onMute"} : CheckPadding(kind)
    \/ \E num \in 1 .. 2 : TakePadding(num)
    \/ PushPadding \/ BlankFrame \/ Control
    \/ \E n \in DOMAIN out : GetExtPacketMetas(n)
    \/ Retransmit \/ NackDone
    \/ RestartStreams \/ RestartForwarder \/ FlushSequencer

PacketSpec == PacketInit /\ [][PacketNext]_packetVars

-----------------------------------------------------------------------------
(* Properties.                                                              *)

(* Between a resync and the first packet selected by the VP9 selector the     *)
(* munger sees packets of a stream it is not synchronised with: the code      *)
(* promises nothing then.                                                     *)
OutOfSync == fwd.selector = "vp9" /\ fwd.lastSSRC = NoLayer

(* Whatever is filtered, padded, switched, muted, late or restarted: an       *)
(* outgoing sequence number is never given to a second packet. A subscriber's *)
(* decoder would take one for the other.                                      *)
NumbersAreUnique ==
    [][OutOfSync \/ \A n \in DOMAIN out : n \in DOMAIN out' /\ out'[n] = out[n]]_packetVars

(* A number below the last one that was not sent yet still belongs to a       *)
(* packet that may come late and will then get exactly that number, unless    *)
(* the source was switched away from it, its packet was withheld for lack of  *)
(* bandwidth, it came before a late key frame switched to its layer, or the   *)
(* map of offsets is full and has forgotten the ranges of numbers that old.   *)
(* For SVC without descriptors the code does not promise it.                  *)
Awaited(n) ==
    /\ fwd.lastSSRC # NoLayer
    /\ \E sn \in (SNs \ arrived[fwd.lastSSRC]) \cup passed :
         OutOfOrder(munger, sn) /\ LateFound(munger, sn) /\ TranslatedSN(munger, sn) = n

Forgotten(n) == /\ Len(munger.ranges) = MungerRanges + 1
                /\ n < munger.ranges[1].start - munger.ranges[1].value

HolesAreAwaited ==
    (scope.codec = "VP8" \/ fwd.selector = "dd") =>
        \A n \in FirstSN .. munger.lastSN :
            \/ n \in DOMAIN out \/ n \in gaveUp \/ Awaited(n) \/ Forgotten(n)
            \/ \A o \in DOMAIN out : n < o

(* The timestamp that the next packets build on never goes back, through      *)
(* padding, blank frames, drops, late packets, switches and restarts.         *)
TimestampsAdvance == [][munger'.lastTS >= munger.lastTS]_packetVars

(* The packet found for a NACK is the one that was sent under that number,    *)
(* although slots are shared, padding takes none, and packets are recorded    *)
(* later and in another order than they were numbered.                        *)
NackFindsWhatWasSent ==
    [][nacker.pc = "idle" /\ nacker'.pc = "read" => nacker'.source = out[nacker'.sn]]_packetVars

(* A recorded packet among the newest Slots numbers is found again. One case  *)
(* of the code is left out: padding pushed late that lies exactly Slots       *)
(* numbers behind the newest packet passes for recent, and clears its slot.   *)
RecentIsFound ==
    \A n \in DOMAIN out :
        (/\ n \notin wiped /\ out[n] # Padding /\ out[n][2] = gen /\ restart = "no"
         /\ \A l \in Layers : flight[l].sn # n
         /\ seqr.initialized /\ n >= seqr.extStartSN /\ seqr.extHighestSN - n < Slots)
        => ExtPacketMeta(seqr, n % SNModulus).source = out[n]

(* "resync when muted so that sequence numbers do not jump on unmute": the    *)
(* first packet after a resync takes the number after the last one, whatever  *)
(* came and was not selected before. (The VP9 selector breaks this: see       *)
(* OutOfSync.)                                                                *)
NoJumpAfterResync ==
    [][(~OutOfSync /\ fwd.lastSSRC = NoLayer /\ fwd.started /\ arrived' # arrived)
        => munger'.lastSN - munger.lastSN \in 0 .. 1]_packetVars

=============================================================================
