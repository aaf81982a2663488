--------------------------- MODULE TransportsProofs ---------------------------
(***************************************************************************)
(* What a bridge promises of its two media, for any number of publishes,   *)
(* restarts and reports: its counters say what happened (BridgeInv), and   *)
(* a stopped bridge is silent (StoppedIsSilent).                           *)
(***************************************************************************)
EXTENDS Transports, FiniteSetTheorems, TLAPS

-----------------------------------------------------------------------------
(* The inductive invariant.                                                *)

MemberStates == {"none", "ready", "waiting", "returned", "refused", "raised"}
FutureStates == {"none", "open", "ok", "refused", "timeout", "cancelled"}
TaskStates == {"none", "created", "sending", "refused", "counted"}
BleStates == [pumping : BOOLEAN, adv : BOOLEAN, scan : BOOLEAN, callback : BOOLEAN]
RadioStates == [adv : BOOLEAN, scan : BOOLEAN]
Counters == [sent : Nat, errors : Nat, timeouts : Nat, published : Nat, partial : Nat,
             failed : Nat, reports : Nat, rejected : Nat, delivered : Nat]

\* The life of the bridge is in its type.
LifeType ==
  /\ started \in {{}, {"ble"}, Media} /\ running = (started = Media)
  /\ ble \in BleStates /\ udp \in BOOLEAN /\ half \in BOOLEAN /\ heeded \in BOOLEAN
  /\ radio \in RadioStates

\* So is what belongs to the publishes.
PublishType ==
  /\ pending \in Packets \cup {None}
  /\ future \in [Packets -> FutureStates]
  /\ task \in [Packets -> TaskStates]
  /\ member \in [Packets -> [Media -> MemberStates]]
  /\ crossed \in SUBSET Packets

CountType == stats \in Counters /\ accepted \in Nat

\* A member has work, and a future waits, only inside the publish that made
\* them; a member that waits has a command that was sent.
Flights ==
  \A p \in Packets :
     /\ member[p]["ble"] \in {"ready", "waiting"} => task[p] = "sending"
     /\ member[p]["udp"] \in {"ready", "waiting"} => task[p] = "sending"
     /\ future[p] = "open" => member[p]["ble"] = "waiting"
     /\ member[p]["ble"] = "waiting" => future[p] # "none"

\* The pump hands its packets to a callback.
Callback == ble.pumping => ble.callback

\* What the running agent has on, and one whose start awaits its endpoint.
Up ==
  /\ started # {} => ble.pumping /\ (~half => ble.adv /\ ble.scan)
  /\ running => udp

\* Until a stop catches a publish, a publish is under way only while the
\* agent runs, so neither member finds its medium closed.
Uncrossed ==
  crossed = {} =>
    /\ \A p \in Packets : task[p] \in {"created", "sending"} => running
    /\ \A p \in Packets : /\ member[p]["ble"] # "raised" /\ member[p]["udp"] # "raised"
                          /\ future[p] # "cancelled"
    /\ stats.partial = 0 /\ stats.failed = 0

IInv ==
  /\ LifeType /\ PublishType /\ CountType /\ Flights /\ Callback /\ Up /\ Uncrossed
  /\ SentIsAcknowledged /\ RejectionsAreCounted /\ StoppedIsSilent

-----------------------------------------------------------------------------
(* Counting.                                                               *)

\* The publishes whose command was acknowledged and whose task has not woken.
Paid == {p \in Packets : future[p] = "ok" /\ member[p]["ble"] = "waiting"}

LEMMA PaidFinite ==
  /\ IsFiniteSet(Paid) /\ Cardinality(Paid) \in Nat
  /\ IsFiniteSet(Paid') /\ Cardinality(Paid') \in Nat
<1>1. IsFiniteSet(Packets)
  BY FS_Interval, TransportsAssumption DEF Packets
<1>2. Paid \in SUBSET Packets /\ Paid' \in SUBSET Packets
  BY DEF Paid, Packets
<1> QED BY <1>1, <1>2, FS_Subset, FS_CardinalityType

\* Where nobody more is paid for, nothing is owed.
LEMMA SentKept ==
  ASSUME SentIsAcknowledged, CountType, Paid' \subseteq Paid,
         stats'.sent = stats.sent, accepted' \in Nat, accepted' >= accepted
  PROVE  SentIsAcknowledged'
<1>1. Cardinality(Paid') <= Cardinality(Paid)
  BY PaidFinite, FS_Subset
<1>2. stats.sent + Cardinality(Paid) <= accepted
  BY DEF SentIsAcknowledged, Paid
<1>3. stats.sent \in Nat /\ accepted \in Nat
  BY DEF CountType, Counters
<1>4. stats'.sent + Cardinality(Paid') <= accepted'
  BY <1>1, <1>2, <1>3, PaidFinite
<1> QED BY <1>4 DEF SentIsAcknowledged, Paid

\* A counter that goes up stays a counter, and touches no other.
LEMMA BumpType ==
  ASSUME CountType, NEW f \in {"sent", "errors", "timeouts", "published", "partial", "failed"}, Bump(f)
  PROVE  /\ stats' \in Counters
         /\ stats'.sent = IF f = "sent" THEN stats.sent + 1 ELSE stats.sent
         /\ stats'.partial = IF f = "partial" THEN stats.partial + 1 ELSE stats.partial
         /\ stats'.failed = IF f = "failed" THEN stats.failed + 1 ELSE stats.failed
         /\ stats'.reports = stats.reports
         /\ stats'.rejected = stats.rejected
         /\ stats'.delivered = stats.delivered
BY DEF CountType, Counters, Bump

LEMMA LifeUnchanged ==
  ASSUME LifeType, Callback, Up, UNCHANGED <<lifeVars, radio>>
  PROVE  LifeType' /\ Callback' /\ Up'
BY DEF lifeVars, LifeType, Callback, Up

\* A stopped bridge stays silent through whatever its tasks still do.
LEMMA SilenceUnchanged ==
  ASSUME StoppedIsSilent, UNCHANGED <<lifeVars, radio>>,
         \A p \in Packets : (future'[p] = "open" /\ pending' = p)
                              => (started # {} \/ half \/ (future[p] = "open" /\ pending = p))
  PROVE  StoppedIsSilent'
BY DEF lifeVars, StoppedIsSilent

-----------------------------------------------------------------------------
(* Start and stop.                                                         *)

LEMMA InitialIInv == ASSUME Init PROVE IInv
<1>1. LifeType /\ Callback /\ Up /\ StoppedIsSilent
  BY DEF Init, LifeType, Callback, Up, StoppedIsSilent, Media, Down, BleStates, RadioStates, None, Packets
<1>2. PublishType /\ CountType /\ Flights /\ Uncrossed
  BY DEF Init, PublishType, CountType, Flights, Uncrossed, Media, FutureStates, TaskStates,
         MemberStates, Counters, None
<1>3. RejectionsAreCounted
  BY DEF Init, RejectionsAreCounted
<1>4. SentIsAcknowledged
  <2>1. Paid = {}
    BY DEF Init, Paid
  <2>2. stats.sent = 0 /\ accepted = 0 /\ Cardinality(Paid) = 0
    BY <2>1, FS_EmptySet DEF Init
  <2>3. stats.sent + Cardinality(Paid) <= accepted
    BY <2>2
  <2> QED BY <2>3 DEF SentIsAcknowledged, Paid
<1> QED BY <1>1, <1>2, <1>3, <1>4 DEF IInv

LEMMA CancelType ==
  ASSUME PublishType
  PROVE  /\ CancelPending \in [Packets -> FutureStates]
         /\ \A p \in Packets : CancelPending[p] = future[p]
                                 \/ (future[p] = "open" /\ CancelPending[p] = "cancelled")
BY DEF PublishType, FutureStates, CancelPending

LEMMA BleStopStep ==
  ASSUME PublishType, NEW h \in BleStates, NEW r \in RadioStates, NEW obeyed \in BOOLEAN,
         BleStop(h, r, obeyed)
  PROVE  /\ ble' = Down /\ Down \in BleStates /\ ~Down.pumping
         /\ radio' \in RadioStates /\ heeded' = obeyed
         /\ (h.adv /\ obeyed) => ~radio'.adv
         /\ (h.scan /\ obeyed) => ~radio'.scan
         /\ pending' = None /\ None \notin Packets
         /\ future' = CancelPending
<1>1. ble' = Down /\ pending' = None /\ future' = CancelPending /\ heeded' = obeyed
  BY DEF BleStop, Stopped
<1>2. Down \in BleStates /\ ~Down.pumping /\ None \notin Packets
  BY DEF Down, BleStates, None, Packets
<1>3. radio' = [adv |-> Off(h.adv, r.adv, obeyed), scan |-> Off(h.scan, r.scan, obeyed)]
  BY DEF BleStop, RadioStates
<1>4. Off(h.adv, r.adv, obeyed) \in BOOLEAN /\ Off(h.scan, r.scan, obeyed) \in BOOLEAN
  BY DEF BleStates, RadioStates, Off
<1>5. (h.adv /\ obeyed) => ~Off(h.adv, r.adv, obeyed)
  BY DEF Off
<1>6. (h.scan /\ obeyed) => ~Off(h.scan, r.scan, obeyed)
  BY DEF Off
<1> QED BY <1>1, <1>2, <1>3, <1>4, <1>5, <1>6 DEF RadioStates

\* What every start leaves alone, and what it finds: nothing runs, so as long
\* as no stop has caught a publish, none is under way.
LEMMA StartKeeps ==
  ASSUME IInv, Start
  PROVE  /\ CountType' /\ RejectionsAreCounted' /\ ~running /\ started = {}
         /\ UNCHANGED <<task, member, stats, accepted, crossed>>
BY DEF IInv, LifeType, Media, CountType, RejectionsAreCounted, Start

\* Cancelling the registered future disturbs no count and no flight.
LEMMA CancelStep ==
  ASSUME PublishType, CountType, Flights, SentIsAcknowledged,
         UNCHANGED <<task, member, stats, accepted>>, crossed' \in SUBSET Packets,
         pending' = None, future' = CancelPending
  PROVE  PublishType' /\ Flights' /\ SentIsAcknowledged'
<1>1. PublishType' /\ Flights'
  BY CancelType DEF PublishType, Flights
<1>2. Paid' \subseteq Paid
  BY CancelType DEF Paid
<1>3. SentIsAcknowledged'
  <2>1. accepted' \in Nat /\ accepted' >= accepted /\ stats'.sent = stats.sent
    BY DEF CountType
  <2> QED BY <1>2, <2>1, SentKept
<1> QED BY <1>1, <1>3

LEMMA UnchangedPublishes ==
  ASSUME PublishType, CountType, Flights, SentIsAcknowledged,
         UNCHANGED <<task, member, stats, accepted, crossed, pending, future>>
  PROVE  PublishType' /\ Flights' /\ SentIsAcknowledged'
BY DEF PublishType, Flights, SentIsAcknowledged

LEMMA StartStep == ASSUME IInv, Start PROVE IInv'
<1> USE DEF IInv
<1>1. /\ CountType' /\ RejectionsAreCounted' /\ ~running /\ started = {}
      /\ UNCHANGED <<task, member, stats, accepted, crossed>>
  BY StartKeeps
<1>2. PICK s \in Setups, r \in RadioStates :
        \/ FailedBle(s)
        \/ LET up == IF ble.pumping THEN ble ELSE SetupHost("up")
           IN  /\ ble.pumping => r = radio
               /\ ~ble.pumping => r \in SetupRadio("up")
               /\ FailedUdp(up, r) \/ BleUp(up, r)
  BY DEF Start, SetupRadio, LifeType, RadioStates, Setups
<1>3. SetupHost(s) \in BleStates /\ SetupHost("up") \in BleStates
  BY DEF SetupHost, BleStates
<1>4. CASE FailedBle(s)
  <2>1. LifeType'
    BY <1>3, <1>4 DEF FailedBle, LifeType, SetupRadio, RadioStates, BleStates, Media
  <2>2. Callback' /\ Up' /\ StoppedIsSilent'
    BY <1>3, <1>4 DEF FailedBle, Callback, Up, StoppedIsSilent, SetupHost, BleStates
  <2>3. PublishType' /\ Flights' /\ SentIsAcknowledged'
    BY <1>1, <1>4, UnchangedPublishes DEF FailedBle
  <2>4. Uncrossed'
    BY <1>1, <1>4 DEF FailedBle, Uncrossed
  <2> QED BY <1>1, <2>1, <2>2, <2>3, <2>4
<1>5. CASE ~FailedBle(s)
  <2> DEFINE up == IF ble.pumping THEN ble ELSE SetupHost("up")
  <2>1. up \in BleStates /\ up.pumping /\ up.callback /\ (~ble.pumping => up.adv /\ up.scan)
    BY <1>3 DEF LifeType, Callback, SetupHost, BleStates
  <2>2. FailedUdp(up, r) \/ BleUp(up, r)
    BY <1>2, <1>5
  <2>3. ~half => ~ble.pumping
    BY <1>1 DEF StoppedIsSilent
  <2> HIDE DEF up
  <2>4. CASE FailedUdp(up, r)
    <3>1. PICK obeyed \in BOOLEAN : BleStop(up, r, obeyed)
      BY <2>4 DEF FailedUdp
    <3>2. /\ ble' = Down /\ Down \in BleStates /\ ~Down.pumping
          /\ radio' \in RadioStates /\ heeded' = obeyed
          /\ (up.adv /\ obeyed) => ~radio'.adv
          /\ (up.scan /\ obeyed) => ~radio'.scan
          /\ pending' = None /\ None \notin Packets
          /\ future' = CancelPending
      BY <2>1, <3>1, BleStopStep
    <3>3. running' = FALSE /\ started' = {} /\ UNCHANGED <<half, udp>>
      BY <2>4 DEF FailedUdp
    <3>4. LifeType'
      BY <3>2, <3>3 DEF LifeType, Media
    <3>5. Callback' /\ Up'
      BY <3>2, <3>3 DEF Callback, Up
    <3>6. StoppedIsSilent'
      BY <1>1, <2>1, <2>3, <3>2, <3>3 DEF StoppedIsSilent
    <3>7. PublishType' /\ Flights' /\ SentIsAcknowledged'
      BY <1>1, <3>2, CancelStep DEF PublishType
    <3>8. Uncrossed'
      <4>1. crossed = {} => \A p \in Packets : CancelPending[p] # "cancelled"
        BY <1>1, CancelType DEF Uncrossed, Flights
      <4> QED BY <1>1, <3>2, <3>3, <4>1 DEF Uncrossed
    <3> QED BY <1>1, <3>4, <3>5, <3>6, <3>7, <3>8
  <2>5. CASE BleUp(up, r)
    <3>1. /\ ble' = up /\ radio' = r /\ started' = {"ble"}
          /\ UNCHANGED <<running, half, udp, heeded, pending, future>>
      BY <2>5 DEF BleUp
    <3>2. LifeType'
      BY <1>1, <2>1, <3>1 DEF LifeType, Media
    <3>3. Callback' /\ Up' /\ StoppedIsSilent'
      BY <2>1, <2>3, <3>1 DEF Callback, Up, StoppedIsSilent
    <3>4. PublishType' /\ Flights' /\ SentIsAcknowledged'
      BY <1>1, <3>1, UnchangedPublishes
    <3>5. Uncrossed'
      BY <1>1, <3>1 DEF Uncrossed
    <3> QED BY <1>1, <3>2, <3>3, <3>4, <3>5
  <2> QED BY <2>2, <2>4, <2>5
<1> QED BY <1>4, <1>5

LEMMA OpenedStep == ASSUME IInv, Opened PROVE IInv'
<1> USE DEF IInv
<1>1. /\ started = {"ble"} /\ udp' = TRUE /\ started' = Media /\ running' = TRUE
      /\ UNCHANGED <<half, ble, radio, heeded, pending, future, task, member, stats, accepted, crossed>>
  BY DEF Opened
<1>2. LifeType'
  BY <1>1 DEF LifeType, Media
<1>3. Callback' /\ Up' /\ StoppedIsSilent'
  BY <1>1 DEF Callback, Up, StoppedIsSilent, Media
<1>4. PublishType' /\ Flights' /\ SentIsAcknowledged'
  BY <1>1, UnchangedPublishes
<1>5. Uncrossed'
  BY <1>1 DEF Uncrossed
<1>6. CountType' /\ RejectionsAreCounted'
  BY <1>1 DEF CountType, RejectionsAreCounted
<1> QED BY <1>2, <1>3, <1>4, <1>5, <1>6

LEMMA StopStep == ASSUME IInv, Stop PROVE IInv'
<1> USE DEF IInv
<1>1. PICK obeyed \in BOOLEAN : BleStop(ble, radio, obeyed)
  BY DEF Stop
<1>2. /\ ble' = Down /\ Down \in BleStates /\ ~Down.pumping
      /\ radio' \in RadioStates /\ heeded' = obeyed
      /\ (ble.adv /\ obeyed) => ~radio'.adv
      /\ (ble.scan /\ obeyed) => ~radio'.scan
      /\ pending' = None /\ None \notin Packets
      /\ future' = CancelPending
  BY <1>1, BleStopStep DEF LifeType
<1>3. /\ running /\ running' = FALSE /\ udp' = FALSE /\ started' = {}
      /\ crossed' = crossed \cup UnderWay
      /\ UNCHANGED <<half, task, member, stats, accepted>>
  BY DEF Stop
<1>4. LifeType'
  BY <1>2, <1>3 DEF LifeType, Media
<1>5. Callback' /\ Up'
  BY <1>2, <1>3 DEF Callback, Up
<1>6. StoppedIsSilent'
  BY <1>2, <1>3 DEF Up, StoppedIsSilent
<1>7. PublishType' /\ Flights' /\ SentIsAcknowledged'
  <2>1. crossed' \in SUBSET Packets
    BY <1>3 DEF PublishType, UnderWay
  <2> QED BY <1>2, <1>3, <2>1, CancelStep
<1>8. Uncrossed'
  <2> SUFFICES ASSUME crossed' = {} PROVE Uncrossed'
    BY DEF Uncrossed
  <2>1. crossed = {} /\ \A p \in Packets : task[p] \notin {"created", "sending"}
    BY <1>3 DEF UnderWay
  <2>2. \A p \in Packets : CancelPending[p] # "cancelled"
    BY <2>1, CancelType DEF Uncrossed, Flights
  <2> QED BY <1>2, <1>3, <2>1, <2>2 DEF Uncrossed
<1>9. CountType' /\ RejectionsAreCounted'
  BY <1>3 DEF CountType, RejectionsAreCounted
<1> QED BY <1>4, <1>5, <1>6, <1>7, <1>8, <1>9

-----------------------------------------------------------------------------
(* The publishes.                                                          *)

\* One member of one publish moves on: what becomes of the others.
LEMMA ToType ==
  ASSUME PublishType, NEW p \in Packets, NEW m \in Media, NEW r \in MemberStates, To(p, m, r)
  PROVE  /\ member' \in [Packets -> [Media -> MemberStates]]
         /\ member'[p][m] = r
         /\ \A q \in Packets, k \in Media : (q # p \/ k # m) => member'[q][k] = member[q][k]
<1>1. member[p] \in [Media -> MemberStates]
  BY DEF PublishType
<1>2. member' = [member EXCEPT ![p] = [member[p] EXCEPT ![m] = r]]
  BY DEF To
<1>3. [member[p] EXCEPT ![m] = r] \in [Media -> MemberStates]
  BY <1>1
<1> QED BY <1>1, <1>2, <1>3 DEF PublishType

LEMMA Members == "ble" \in Media /\ "udp" \in Media /\ "ble" # "udp"
BY DEF Media

LEMMA PublishStep ==
  ASSUME IInv, NEW p \in Packets, Publish(p) PROVE IInv'
<1> USE DEF IInv
<1>1. /\ UNCHANGED <<lifeVars, radio, pending, future, member, stats, accepted>>
      /\ running /\ task[p] = "none" /\ task' = [task EXCEPT ![p] = "created"]
  BY DEF Publish
<1>2. UNCHANGED crossed /\ UNCHANGED running
  BY <1>1 DEF lifeVars
<1>3. LifeType' /\ Callback' /\ Up'
  BY <1>1, LifeUnchanged
<1>4. StoppedIsSilent'
  BY <1>1, SilenceUnchanged
<1>5. PublishType' /\ Flights'
  BY <1>1, <1>2 DEF PublishType, Flights, TaskStates
<1>6. SentIsAcknowledged' /\ RejectionsAreCounted' /\ CountType'
  BY <1>1 DEF SentIsAcknowledged, RejectionsAreCounted, CountType
<1>7. Uncrossed'
  BY <1>1, <1>2 DEF Uncrossed
<1> QED BY <1>3, <1>4, <1>5, <1>6, <1>7

LEMMA FanOutStep ==
  ASSUME IInv, NEW p \in Packets, FanOut(p) PROVE IInv'
<1> USE DEF IInv
<1>1. /\ UNCHANGED <<lifeVars, radio, pending, future, stats, accepted>>
      /\ task[p] = "created"
  BY DEF FanOut
<1>2. UNCHANGED crossed /\ UNCHANGED running
  BY <1>1 DEF lifeVars
<1>3. LifeType' /\ Callback' /\ Up'
  BY <1>1, LifeUnchanged
<1>4. StoppedIsSilent'
  BY <1>1, SilenceUnchanged
<1>5. RejectionsAreCounted' /\ CountType'
  BY <1>1 DEF RejectionsAreCounted, CountType
<1>6. member[p]["ble"] \notin {"ready", "waiting"} /\ member[p]["udp"] \notin {"ready", "waiting"}
      /\ future[p] # "open"
  BY <1>1 DEF Flights
<1>7. CASE started = {}
  <2>1. task' = [task EXCEPT ![p] = "refused"] /\ UNCHANGED member
    BY <1>7 DEF FanOut
  <2>2. PublishType' /\ Flights'
    BY <1>1, <1>2, <1>6, <2>1 DEF PublishType, Flights, TaskStates
  <2>3. SentIsAcknowledged'
    BY <1>1, <2>1 DEF SentIsAcknowledged
  <2>4. Uncrossed'
    BY <1>1, <1>2, <2>1 DEF Uncrossed, PublishType
  <2> QED BY <1>3, <1>4, <1>5, <2>2, <2>3, <2>4
<1>8. CASE started # {}
  <2> DEFINE fan == [m \in Media |-> IF m \in started THEN "ready" ELSE "none"]
  <2>1. task' = [task EXCEPT ![p] = "sending"] /\ member' = [member EXCEPT ![p] = fan]
    BY <1>8 DEF FanOut
  <2>2. fan \in [Media -> {"ready", "none"}]
    OBVIOUS
  <2> HIDE DEF fan
  <2>3. fan["ble"] \in {"ready", "none"} /\ fan["udp"] \in {"ready", "none"}
    BY <2>2, Members
  <2>4. fan \in [Media -> MemberStates]
    BY <2>2 DEF MemberStates
  <2>5. PublishType'
    BY <1>1, <1>2, <2>1, <2>4 DEF PublishType, TaskStates
  <2>6. Flights'
    BY <1>1, <1>6, <2>1, <2>3 DEF Flights, PublishType
  <2>7. Paid' \subseteq Paid
    BY <1>1, <2>1, <2>3 DEF Paid, PublishType
  <2>8. SentIsAcknowledged'
    BY <1>1, <2>7, SentKept DEF CountType
  <2>9. Uncrossed'
    BY <1>1, <1>2, <2>1, <2>3 DEF Uncrossed, PublishType
  <2> QED BY <1>3, <1>4, <1>5, <2>5, <2>6, <2>8, <2>9
<1> QED BY <1>7, <1>8

LEMMA UdpPublishStep ==
  ASSUME IInv, NEW p \in Packets, UdpPublish(p) PROVE IInv'
<1> USE DEF IInv
<1>1. /\ UNCHANGED <<lifeVars, radio, pending, future, task, stats, accepted>>
      /\ member[p]["udp"] = "ready"
  BY DEF UdpPublish
<1>2. UNCHANGED crossed /\ UNCHANGED running /\ UNCHANGED udp
  BY <1>1 DEF lifeVars
<1>3. PICK r \in {"returned", "refused", "raised"} : To(p, "udp", r) /\ (udp => r # "raised")
  BY DEF UdpPublish
<1>4. /\ member' \in [Packets -> [Media -> MemberStates]]
      /\ member'[p]["udp"] = r
      /\ \A q \in Packets, k \in Media : (q # p \/ k # "udp") => member'[q][k] = member[q][k]
  BY <1>3, ToType, Members DEF MemberStates
<1>5. LifeType' /\ Callback' /\ Up'
  BY <1>1, LifeUnchanged
<1>6. StoppedIsSilent'
  BY <1>1, SilenceUnchanged
<1>7. RejectionsAreCounted' /\ CountType'
  BY <1>1 DEF RejectionsAreCounted, CountType
<1>8. \A q \in Packets : /\ member'[q]["ble"] = member[q]["ble"]
                         /\ member'[q]["udp"] \in {member[q]["udp"], r}
  BY <1>4, Members
<1>9. PublishType' /\ Flights'
  BY <1>1, <1>2, <1>4, <1>8 DEF PublishType, Flights
<1>10. Paid' \subseteq Paid
  BY <1>1, <1>8 DEF Paid
<1>11. SentIsAcknowledged'
  BY <1>1, <1>10, SentKept DEF CountType
<1>12. Uncrossed'
  BY <1>1, <1>2, <1>3, <1>8 DEF Uncrossed, Flights, Up
<1> QED BY <1>5, <1>6, <1>7, <1>9, <1>11, <1>12

LEMMA BlePublishStep ==
  ASSUME IInv, NEW p \in Packets, BlePublish(p) PROVE IInv'
<1> USE DEF IInv
<1>1. UNCHANGED <<lifeVars, radio, task, accepted>> /\ member[p]["ble"] = "ready"
  BY DEF BlePublish
<1>2. UNCHANGED crossed /\ UNCHANGED running /\ future[p] # "open" /\ task[p] = "sending"
  BY <1>1 DEF lifeVars, Flights
<1>3. LifeType' /\ Callback' /\ Up'
  BY <1>1, LifeUnchanged
<1>4. CASE ~ble.pumping /\ To(p, "ble", "raised") /\ UNCHANGED <<pending, future, stats>>
  <2>1. /\ member' \in [Packets -> [Media -> MemberStates]]
        /\ member'[p]["ble"] = "raised"
        /\ \A q \in Packets, k \in Media : (q # p \/ k # "ble") => member'[q][k] = member[q][k]
    BY <1>4, ToType, Members DEF MemberStates
  <2>2. \A q \in Packets : /\ member'[q]["udp"] = member[q]["udp"]
                           /\ member'[q]["ble"] = IF q = p THEN "raised" ELSE member[q]["ble"]
    BY <2>1, Members
  <2>3. PublishType' /\ Flights'
    BY <1>1, <1>2, <1>4, <2>1, <2>2 DEF PublishType, Flights
  <2>4. Paid' \subseteq Paid
    BY <1>4, <2>2 DEF Paid
  <2>5. SentIsAcknowledged' /\ RejectionsAreCounted' /\ CountType'
    BY <1>1, <1>4, <2>4, SentKept DEF CountType, RejectionsAreCounted
  <2>6. crossed # {}
    BY <1>2, <1>4 DEF Uncrossed, Up, LifeType, Media
  <2>7. Uncrossed' /\ StoppedIsSilent'
    BY <1>1, <1>2, <1>4, <2>6, SilenceUnchanged DEF Uncrossed
  <2> QED BY <1>3, <2>3, <2>5, <2>7
<1>5. CASE /\ ble.pumping /\ To(p, "ble", "refused") /\ Bump("errors") /\ UNCHANGED future
           /\ pending' \in {pending, None}
  <2>1. /\ member' \in [Packets -> [Media -> MemberStates]]
        /\ member'[p]["ble"] = "refused"
        /\ \A q \in Packets, k \in Media : (q # p \/ k # "ble") => member'[q][k] = member[q][k]
    BY <1>5, ToType, Members DEF MemberStates
  <2>2. \A q \in Packets : /\ member'[q]["udp"] = member[q]["udp"]
                           /\ member'[q]["ble"] = IF q = p THEN "refused" ELSE member[q]["ble"]
    BY <2>1, Members
  <2>3. PublishType' /\ Flights'
    BY <1>1, <1>2, <1>5, <2>1, <2>2 DEF PublishType, Flights
  <2>4. Paid' \subseteq Paid
    BY <1>5, <2>2 DEF Paid
  <2>5. /\ stats' \in Counters /\ stats'.sent = stats.sent
        /\ stats'.partial = stats.partial /\ stats'.failed = stats.failed
        /\ stats'.reports = stats.reports /\ stats'.rejected = stats.rejected
        /\ stats'.delivered = stats.delivered
    BY <1>5, BumpType
  <2>6. SentIsAcknowledged' /\ RejectionsAreCounted' /\ CountType'
    BY <1>1, <2>4, <2>5, SentKept DEF CountType, RejectionsAreCounted
  <2>7. Uncrossed'
    BY <1>1, <1>2, <1>5, <2>2, <2>5 DEF Uncrossed
  <2>8. StoppedIsSilent'
    <3>1. None \notin Packets
      BY DEF None, Packets
    <3> QED BY <1>1, <1>5, <3>1, SilenceUnchanged
  <2> QED BY <1>3, <2>3, <2>6, <2>7, <2>8
<1>6. CASE /\ ble.pumping /\ pending' = p /\ future' = [future EXCEPT ![p] = "open"]
           /\ To(p, "ble", "waiting") /\ UNCHANGED stats
  <2>1. /\ member' \in [Packets -> [Media -> MemberStates]]
        /\ member'[p]["ble"] = "waiting"
        /\ \A q \in Packets, k \in Media : (q # p \/ k # "ble") => member'[q][k] = member[q][k]
    BY <1>6, ToType, Members DEF MemberStates
  <2>2. \A q \in Packets : /\ member'[q]["udp"] = member[q]["udp"]
                           /\ member'[q]["ble"] = IF q = p THEN "waiting" ELSE member[q]["ble"]
                           /\ future'[q] = IF q = p THEN "open" ELSE future[q]
    BY <1>6, <2>1, Members DEF PublishType
  <2>3. PublishType'
    BY <1>1, <1>2, <1>6, <2>1 DEF PublishType, FutureStates
  <2>4. Flights'
    BY <1>1, <1>2, <2>2 DEF Flights
  <2>5. Paid' \subseteq Paid
    BY <2>2 DEF Paid
  <2>6. SentIsAcknowledged' /\ RejectionsAreCounted' /\ CountType'
    BY <1>1, <1>6, <2>5, SentKept DEF CountType, RejectionsAreCounted
  <2>7. Uncrossed'
    BY <1>1, <1>2, <1>6, <2>2 DEF Uncrossed
  <2>8. StoppedIsSilent'
    BY <1>1, <1>6 DEF lifeVars, StoppedIsSilent
  <2> QED BY <1>3, <2>3, <2>4, <2>6, <2>7, <2>8
<1> QED BY <1>4, <1>5, <1>6 DEF BlePublish

\* A future that is settled is open before and stays with its publish: what
\* Completion, CommandStatus and Timeout do to the futures.
LEMMA SettledStep ==
  ASSUME IInv, NEW p \in Packets, NEW r \in {"ok", "refused", "timeout"},
         future[p] = "open", future' = [future EXCEPT ![p] = r],
         UNCHANGED <<lifeVars, radio, pending, task, member, stats>>
  PROVE  /\ LifeType' /\ PublishType' /\ Flights' /\ Callback' /\ Up' /\ Uncrossed'
         /\ RejectionsAreCounted' /\ StoppedIsSilent'
         /\ Paid' \subseteq (Paid \cup {p})
         /\ r # "ok" => Paid' \subseteq Paid
<1> USE DEF IInv
<1>1. LifeType' /\ Callback' /\ Up'
  BY LifeUnchanged
<1>2. UNCHANGED crossed /\ UNCHANGED running
  BY DEF lifeVars
<1>3. \A q \in Packets : future'[q] = IF q = p THEN r ELSE future[q]
  BY DEF PublishType
<1>4. PublishType' /\ Flights'
  BY <1>2, <1>3 DEF PublishType, FutureStates, Flights
<1>5. Uncrossed'
  BY <1>2, <1>3 DEF Uncrossed
<1>6. RejectionsAreCounted'
  BY DEF RejectionsAreCounted
<1>7. StoppedIsSilent'
  BY <1>3, SilenceUnchanged
<1>8. (Paid' \subseteq (Paid \cup {p})) /\ (r # "ok" => Paid' \subseteq Paid)
  BY <1>3 DEF Paid
<1> QED BY <1>1, <1>4, <1>5, <1>6, <1>7, <1>8

\* An answer that settles no future changes none of what is counted here.
LEMMA UnsettledStep ==
  ASSUME IInv, UNCHANGED <<lifeVars, radio, pending, future, task, member, stats>>
  PROVE  /\ LifeType' /\ PublishType' /\ Flights' /\ Callback' /\ Up' /\ Uncrossed'
         /\ RejectionsAreCounted' /\ StoppedIsSilent' /\ Paid' \subseteq Paid
<1> USE DEF IInv
<1>1. LifeType' /\ Callback' /\ Up'
  BY LifeUnchanged
<1>2. UNCHANGED crossed /\ UNCHANGED running
  BY DEF lifeVars
<1>3. PublishType' /\ Flights' /\ Uncrossed'
  BY <1>2 DEF PublishType, Flights, Uncrossed
<1>4. RejectionsAreCounted' /\ Paid' \subseteq Paid
  BY DEF RejectionsAreCounted, Paid
<1>5. StoppedIsSilent'
  BY SilenceUnchanged
<1> QED BY <1>1, <1>3, <1>4, <1>5

LEMMA RegisteredFuture ==
  ASSUME PublishType, NEW r, Settle(r)
  PROVE  \/ UNCHANGED future
         \/ pending \in Packets /\ future[pending] = "open"
              /\ future' = [future EXCEPT ![pending] = r]
BY DEF PublishType, Settle, Outstanding

\* An answer that grants nothing: a refusal, or silence.
LEMMA RefusedStep ==
  ASSUME IInv, UNCHANGED <<lifeVars, radio, pending, task, member, stats, accepted>>,
         Settle("refused") \/ UNCHANGED future
  PROVE  IInv'
<1> USE DEF IInv
<1>1. accepted' \in Nat /\ accepted' >= accepted /\ CountType' /\ stats'.sent = stats.sent
  BY DEF CountType
<1>2. CASE UNCHANGED future
  <2>1. /\ LifeType' /\ PublishType' /\ Flights' /\ Callback' /\ Up' /\ Uncrossed'
        /\ RejectionsAreCounted' /\ StoppedIsSilent' /\ Paid' \subseteq Paid
    BY <1>2, UnsettledStep
  <2>2. SentIsAcknowledged'
    BY <1>1, <2>1, SentKept
  <2> QED BY <1>1, <2>1, <2>2
<1>3. CASE pending \in Packets /\ future[pending] = "open"
             /\ future' = [future EXCEPT ![pending] = "refused"]
  <2>1. /\ LifeType' /\ PublishType' /\ Flights' /\ Callback' /\ Up' /\ Uncrossed'
        /\ RejectionsAreCounted' /\ StoppedIsSilent' /\ Paid' \subseteq Paid
    BY <1>3, SettledStep
  <2>2. SentIsAcknowledged'
    BY <1>1, <2>1, SentKept
  <2> QED BY <1>1, <2>1, <2>2
<1> QED BY <1>2, <1>3, RegisteredFuture

\* A completed command pays for one publish at most: whoever is registered.
LEMMA AcceptedStep ==
  ASSUME IInv, UNCHANGED <<lifeVars, radio, pending, task, member, stats>>,
         accepted' = accepted + 1, Settle("ok")
  PROVE  IInv'
<1> USE DEF IInv
<1>1. accepted \in Nat /\ accepted' \in Nat /\ accepted' >= accepted /\ CountType'
      /\ stats'.sent = stats.sent /\ stats.sent \in Nat
  BY DEF CountType, Counters
<1>2. CASE UNCHANGED future
  <2>1. /\ LifeType' /\ PublishType' /\ Flights' /\ Callback' /\ Up' /\ Uncrossed'
        /\ RejectionsAreCounted' /\ StoppedIsSilent' /\ Paid' \subseteq Paid
    BY <1>2, UnsettledStep
  <2>2. SentIsAcknowledged'
    BY <1>1, <2>1, SentKept
  <2> QED BY <1>1, <2>1, <2>2
<1>3. CASE pending \in Packets /\ future[pending] = "open"
             /\ future' = [future EXCEPT ![pending] = "ok"]
  <2>1. /\ LifeType' /\ PublishType' /\ Flights' /\ Callback' /\ Up' /\ Uncrossed'
        /\ RejectionsAreCounted' /\ StoppedIsSilent' /\ Paid' \subseteq (Paid \cup {pending})
    BY <1>3, SettledStep
  <2>2. Cardinality(Paid') <= Cardinality(Paid) + 1
    <3> DEFINE more == Paid \cup {pending}
    <3>1. IsFiniteSet(more)
          /\ Cardinality(more) = IF pending \in Paid THEN Cardinality(Paid) ELSE Cardinality(Paid) + 1
      BY PaidFinite, FS_AddElement
    <3> HIDE DEF more
    <3>2. Cardinality(more) <= Cardinality(Paid) + 1
      BY <3>1, PaidFinite
    <3>3. Cardinality(Paid') <= Cardinality(more)
      BY <2>1, <3>1, FS_Subset DEF more
    <3>4. Cardinality(more) \in Nat
      BY <3>1, PaidFinite
    <3> QED BY <3>2, <3>3, <3>4, PaidFinite
  <2>3. stats.sent + Cardinality(Paid) <= accepted
    BY DEF SentIsAcknowledged, Paid
  <2>4. stats'.sent + Cardinality(Paid') <= accepted'
    BY <1>1, <2>2, <2>3, PaidFinite
  <2>5. SentIsAcknowledged'
    BY <2>4 DEF SentIsAcknowledged, Paid
  <2> QED BY <1>1, <2>1, <2>5
<1> QED BY <1>2, <1>3, RegisteredFuture

LEMMA CompletionStep == ASSUME IInv, Completion PROVE IInv'
<1>1. UNCHANGED <<lifeVars, radio, pending, task, member, stats>>
  BY DEF Completion
<1>2. \/ accepted' = accepted + 1 /\ Settle("ok")
      \/ UNCHANGED accepted /\ (Settle("refused") \/ UNCHANGED future)
  BY DEF Completion
<1> QED BY <1>1, <1>2, AcceptedStep, RefusedStep

LEMMA CommandStatusStep == ASSUME IInv, CommandStatus PROVE IInv'
BY RefusedStep DEF CommandStatus

LEMMA TimeoutStep ==
  ASSUME IInv, NEW p \in Packets, Timeout(p) PROVE IInv'
<1> USE DEF IInv
<1>1. /\ future[p] = "open" /\ future' = [future EXCEPT ![p] = "timeout"]
      /\ UNCHANGED <<lifeVars, radio, pending, task, member, stats, accepted>>
  BY DEF Timeout
<1>2. /\ LifeType' /\ PublishType' /\ Flights' /\ Callback' /\ Up' /\ Uncrossed'
      /\ RejectionsAreCounted' /\ StoppedIsSilent' /\ Paid' \subseteq Paid
  BY <1>1, SettledStep
<1>3. SentIsAcknowledged' /\ CountType'
  BY <1>1, <1>2, SentKept DEF CountType
<1> QED BY <1>2, <1>3

LEMMA BleDoneStep ==
  ASSUME IInv, NEW p \in Packets, BleDone(p) PROVE IInv'
<1> USE DEF IInv
<1>1. /\ UNCHANGED <<lifeVars, radio, future, task, accepted>> /\ pending' = None
      /\ member[p]["ble"] = "waiting" /\ future[p] # "open" /\ None \notin Packets
  BY DEF BleDone, None, Packets
<1>2. future[p] \in {"ok", "refused", "timeout", "cancelled"}
  BY <1>1 DEF PublishType, FutureStates, Flights
<1>3. UNCHANGED crossed /\ UNCHANGED running
  BY <1>1 DEF lifeVars
<1>4. PICK r \in {"returned", "refused", "raised"} :
        /\ To(p, "ble", r)
        /\ r = "raised" => future[p] = "cancelled"
        /\ \/ future[p] = "ok" /\ Bump("sent")
           \/ future[p] # "ok" /\ (Bump("errors") \/ Bump("timeouts") \/ UNCHANGED stats)
  BY <1>2 DEF BleDone
<1>5. /\ member' \in [Packets -> [Media -> MemberStates]]
      /\ member'[p]["ble"] = r
      /\ \A q \in Packets, k \in Media : (q # p \/ k # "ble") => member'[q][k] = member[q][k]
  BY <1>4, ToType, Members DEF MemberStates
<1>6. \A q \in Packets : /\ member'[q]["udp"] = member[q]["udp"]
                         /\ member'[q]["ble"] = IF q = p THEN r ELSE member[q]["ble"]
  BY <1>5, Members
<1>7. /\ stats' \in Counters
      /\ stats'.sent = IF future[p] = "ok" THEN stats.sent + 1 ELSE stats.sent
      /\ stats'.partial = stats.partial /\ stats'.failed = stats.failed
      /\ stats'.reports = stats.reports /\ stats'.rejected = stats.rejected
      /\ stats'.delivered = stats.delivered
  <2>1. CASE future[p] = "ok" /\ Bump("sent")
    BY <2>1, BumpType
  <2>2. CASE future[p] # "ok" /\ (Bump("errors") \/ Bump("timeouts"))
    BY <2>2, BumpType
  <2>3. CASE future[p] # "ok" /\ UNCHANGED stats
    BY <2>3 DEF CountType
  <2> QED BY <1>4, <2>1, <2>2, <2>3
<1>8. LifeType' /\ Callback' /\ Up'
  BY <1>1, LifeUnchanged
<1>9. PublishType'
  BY <1>1, <1>3, <1>5 DEF PublishType
<1>10. Flights'
  BY <1>1, <1>6 DEF Flights
<1>11. Uncrossed'
  BY <1>1, <1>3, <1>4, <1>6, <1>7 DEF Uncrossed
<1>12. RejectionsAreCounted' /\ CountType'
  BY <1>1, <1>7 DEF RejectionsAreCounted, CountType
<1>13. StoppedIsSilent'
  BY <1>1, SilenceUnchanged
<1>14. SentIsAcknowledged'
  <2>1. Paid' = Paid \ {p}
    BY <1>1, <1>6 DEF Paid
  <2>2. CASE future[p] = "ok"
    <3>1. p \in Paid
      BY <1>1, <2>2 DEF Paid
    <3>2. Cardinality(Paid') = Cardinality(Paid) - 1
      BY <2>1, <3>1, PaidFinite, FS_RemoveElement
    <3>3. stats.sent + Cardinality(Paid) <= accepted
      BY DEF SentIsAcknowledged, Paid
    <3>4. stats.sent \in Nat /\ accepted \in Nat /\ stats'.sent = stats.sent + 1 /\ accepted' = accepted
      BY <1>1, <1>7, <2>2 DEF CountType, Counters
    <3>5. stats'.sent + Cardinality(Paid') <= accepted'
      BY <3>2, <3>3, <3>4, PaidFinite
    <3> QED BY <3>5 DEF SentIsAcknowledged, Paid
  <2>3. CASE future[p] # "ok"
    BY <1>1, <1>7, <2>1, <2>3, SentKept DEF CountType
  <2> QED BY <2>2, <2>3
<1> QED BY <1>8, <1>9, <1>10, <1>11, <1>12, <1>13, <1>14

LEMMA CountStep ==
  ASSUME IInv, NEW p \in Packets, Count(p) PROVE IInv'
<1> USE DEF IInv
<1>1. /\ UNCHANGED <<lifeVars, radio, pending, future, member, accepted>>
      /\ task' = [task EXCEPT ![p] = "counted"]
      /\ member[p]["ble"] \notin {"ready", "waiting"} /\ member[p]["udp"] \notin {"ready", "waiting"}
  BY Members DEF Count, Finished
<1>2. UNCHANGED crossed /\ UNCHANGED running
  BY <1>1 DEF lifeVars
<1>3. PICK f \in {"published", "partial", "failed"} :
        Bump(f) /\ (Failures(p) = 0 => f = "published")
  BY DEF Count
<1>4. /\ stats' \in Counters /\ stats'.sent = stats.sent
      /\ f = "published" => stats'.partial = stats.partial /\ stats'.failed = stats.failed
      /\ stats'.reports = stats.reports /\ stats'.rejected = stats.rejected
      /\ stats'.delivered = stats.delivered
  BY <1>3, BumpType
<1>5. LifeType' /\ Callback' /\ Up'
  BY <1>1, LifeUnchanged
<1>6. PublishType' /\ Flights'
  BY <1>1, <1>2 DEF PublishType, Flights, TaskStates
<1>7. RejectionsAreCounted' /\ CountType'
  BY <1>1, <1>4 DEF RejectionsAreCounted, CountType
<1>8. StoppedIsSilent'
  BY <1>1, SilenceUnchanged
<1>9. SentIsAcknowledged'
  <2>1. Paid' \subseteq Paid
    BY <1>1 DEF Paid
  <2> QED BY <1>1, <1>4, <2>1, SentKept DEF CountType
<1>10. Uncrossed'
  <2> SUFFICES ASSUME crossed = {} PROVE Uncrossed'
    BY <1>2 DEF Uncrossed
  <2>1. {m \in started : member[p][m] = "raised"} = {}
    BY DEF Uncrossed, LifeType, Media
  <2>2. f = "published"
    BY <1>3, <2>1, FS_EmptySet DEF Failures
  <2> QED BY <1>1, <1>2, <1>4, <2>2 DEF Uncrossed, PublishType
<1> QED BY <1>5, <1>6, <1>7, <1>8, <1>9, <1>10

\* A report is one more in two of the counters, and touches no other.
LEMMA CountedReport ==
  ASSUME NEW c \in Counters, NEW seen \in Nat, NEW bad \in Nat, NEW good \in Nat,
         NEW n, n = [sent |-> c.sent, errors |-> c.errors, timeouts |-> c.timeouts,
                     published |-> c.published, partial |-> c.partial, failed |-> c.failed,
                     reports |-> seen, rejected |-> bad, delivered |-> good]
  PROVE  /\ n \in Counters
         /\ n.sent = c.sent /\ n.partial = c.partial /\ n.failed = c.failed
         /\ n.reports = seen /\ n.rejected = bad /\ n.delivered = good
BY DEF Counters

LEMMA ReportStep == ASSUME IInv, Report PROVE IInv'
<1> USE DEF IInv
<1>1. /\ UNCHANGED <<lifeVars, radio, pending, future, task, member, accepted>> /\ ble.callback
  BY DEF Report, Callback
<1>2. PICK v \in Verdicts :
        stats' = [stats EXCEPT !.reports = @ + 1,
                               ![v] = IF v = "delivered" /\ ~ble.callback THEN @ ELSE @ + 1]
  BY DEF Report
<1>3. /\ stats' \in Counters /\ stats'.sent = stats.sent
      /\ stats'.partial = stats.partial /\ stats'.failed = stats.failed
      /\ stats'.reports = stats.reports + 1
      /\ \/ stats'.rejected = stats.rejected + 1 /\ stats'.delivered = stats.delivered
         \/ stats'.rejected = stats.rejected /\ stats'.delivered = stats.delivered + 1
  <2>1. stats \in Counters
    BY DEF CountType
  <2>2. /\ stats.reports + 1 \in Nat /\ stats.rejected + 1 \in Nat /\ stats.delivered + 1 \in Nat
        /\ stats.rejected \in Nat /\ stats.delivered \in Nat
    BY <2>1 DEF Counters
  <2>3. CASE v = "rejected"
    <3>1. stats' = [stats EXCEPT !.reports = @ + 1, !.rejected = @ + 1]
      BY <1>1, <1>2, <2>3
    <3>2. stats' = [sent |-> stats.sent, errors |-> stats.errors, timeouts |-> stats.timeouts,
                    published |-> stats.published, partial |-> stats.partial, failed |-> stats.failed,
                    reports |-> stats.reports + 1, rejected |-> stats.rejected + 1, delivered |-> stats.delivered]
      BY <2>1, <3>1 DEF Counters
    <3> QED BY <2>1, <2>2, <3>2, CountedReport
  <2>4. CASE v = "delivered"
    <3>1. stats' = [stats EXCEPT !.reports = @ + 1, !.delivered = @ + 1]
      BY <1>1, <1>2, <2>4
    <3>2. stats' = [sent |-> stats.sent, errors |-> stats.errors, timeouts |-> stats.timeouts,
                    published |-> stats.published, partial |-> stats.partial, failed |-> stats.failed,
                    reports |-> stats.reports + 1, rejected |-> stats.rejected, delivered |-> stats.delivered + 1]
      BY <2>1, <3>1 DEF Counters
    <3> QED BY <2>1, <2>2, <3>2, CountedReport
  <2> QED BY <2>3, <2>4 DEF Verdicts
<1>4. UNCHANGED crossed /\ UNCHANGED running
  BY <1>1 DEF lifeVars
<1>5. LifeType' /\ Callback' /\ Up'
  BY <1>1, LifeUnchanged
<1>6. PublishType' /\ Flights'
  BY <1>1, <1>4 DEF PublishType, Flights
<1>7. StoppedIsSilent'
  BY <1>1, SilenceUnchanged
<1>8. Uncrossed'
  BY <1>1, <1>3, <1>4 DEF Uncrossed
<1>9. CountType'
  BY <1>1, <1>3 DEF CountType
<1>10. SentIsAcknowledged'
  <2>1. Paid' \subseteq Paid
    BY <1>1 DEF Paid
  <2> QED BY <1>1, <1>3, <2>1, SentKept DEF CountType
<1>11. RejectionsAreCounted'
  <2>1. stats.reports \in Nat /\ stats.rejected \in Nat /\ stats.delivered \in Nat
    BY DEF CountType, Counters
  <2> QED BY <1>3, <2>1 DEF RejectionsAreCounted
<1> QED BY <1>5, <1>6, <1>7, <1>8, <1>9, <1>10, <1>11

-----------------------------------------------------------------------------
(* The theorems.                                                           *)

LEMMA NextIInv == ASSUME IInv, [Next]_vars PROVE IInv'
<1>1. CASE UNCHANGED vars
  <2>1. LifeType' /\ Callback' /\ Up' /\ StoppedIsSilent'
    BY <1>1, LifeUnchanged, SilenceUnchanged DEF IInv, vars, lifeVars
  <2>2. PublishType' /\ CountType' /\ Flights' /\ Uncrossed'
    BY <1>1 DEF IInv, vars, PublishType, CountType, Flights, Uncrossed
  <2>3. SentIsAcknowledged' /\ RejectionsAreCounted'
    BY <1>1 DEF IInv, vars, SentIsAcknowledged, RejectionsAreCounted
  <2> QED BY <2>1, <2>2, <2>3 DEF IInv
<1>2. CASE Start \/ Opened \/ Stop \/ Completion \/ CommandStatus \/ Report
  BY <1>2, StartStep, OpenedStep, StopStep, CompletionStep, CommandStatusStep, ReportStep
<1>3. ASSUME NEW p \in Packets,
             \/ Publish(p) \/ FanOut(p) \/ UdpPublish(p) \/ BlePublish(p)
             \/ Timeout(p) \/ BleDone(p) \/ Count(p)
      PROVE  IInv'
  BY <1>3, PublishStep, FanOutStep, UdpPublishStep, BlePublishStep, TimeoutStep,
     BleDoneStep, CountStep
<1> QED BY <1>1, <1>2, <1>3 DEF Next

\* The counters of the bridge say what happened, for any number of publishes,
\* restarts and reports: nothing is counted as sent that the controller did not
\* complete, no report is lost, and a partial publish is one a stop crossed
\* (BleTransport._command, _settle, _consume_reports; MultiTransport.publish).
THEOREM BridgeAccounted == Spec => []BridgeInv
<1>1. Init => IInv
  BY InitialIInv
<1>2. IInv /\ [Next]_vars => IInv'
  BY NextIInv
<1>3. IInv => TypeOK
  <2>1. LifeType => /\ started \in {{}, {"ble"}, Media} /\ running = (started = Media)
                    /\ ble \in [pumping : BOOLEAN, adv : BOOLEAN, scan : BOOLEAN, callback : BOOLEAN]
                    /\ udp \in BOOLEAN /\ half \in BOOLEAN /\ heeded \in BOOLEAN
                    /\ radio \in [adv : BOOLEAN, scan : BOOLEAN]
    BY DEF LifeType, BleStates, RadioStates
  <2> QED BY <2>1 DEF IInv, PublishType, TypeOK, FutureStates, TaskStates, MemberStates
<1>4. IInv => OnlyStopsCountPartial
  BY DEF IInv, Uncrossed, OnlyStopsCountPartial
<1>5. IInv => BridgeInv
  BY <1>3, <1>4 DEF IInv, BridgeInv
<1> QED BY <1>1, <1>2, <1>5, PTL DEF Spec

\* After a stop, or a start that was unwound, no pump runs, no endpoint is
\* open, no future is awaited, and nothing is transmitted where the controller
\* obeyed, however the stop fell among the publishes (MultiTransport.start,
\* stop; BleTransport.stop).
THEOREM SilentWhenStopped == Spec => []StoppedIsSilent
<1>1. Init => IInv
  BY InitialIInv
<1>2. IInv /\ [Next]_vars => IInv'
  BY NextIInv
<1>3. IInv => StoppedIsSilent
  BY DEF IInv
<1> QED BY <1>1, <1>2, <1>3, PTL DEF Spec
===============================================================================
