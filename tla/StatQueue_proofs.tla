--------------------------- MODULE StatQueue_proofs ---------------------------
(***************************************************************************)
(* The statistics queue, for every number of devices and of records.       *)
(***************************************************************************)
EXTENDS StatQueue, RingQueue_proofs, WellFoundedInduction

(* A set of numbers that is not empty has a smallest one. *)
LEMMA Smallest ==
  ASSUME NEW S \in SUBSET Nat, S # {}
  PROVE  \E m \in S : \A n \in S : m <= n
<1> DEFINE Less == OpToRel(<, Nat)
<1>1. \A n, m \in Nat : n < m => <<n, m>> \in Less
  BY DEF OpToRel
<1>2. IsWellFoundedOn(Less, Nat)
  BY NatLessThanWellFounded
<1> HIDE DEF Less
<1>3. PICK m \in S : \A n \in S : ~(<<n, m>> \in Less)
  BY <1>2, WFMin
<1>4. \A n \in S : ~(n < m)
  BY <1>1, <1>3
<1> QED
  BY <1>4

(* The oldest record is one of the records, and none is older. *)
LEMMA OldestRecord ==
  ASSUME records \in Seq(Record), records # <<>>
  PROVE  /\ Oldest \in DOMAIN records
         /\ \A j \in DOMAIN records : records[Oldest].lastSeen <= records[j].lastSeen
<1> DEFINE Time(i) == records[i].lastSeen
<1>1. \A i \in DOMAIN records : i \in Nat /\ Time(i) \in Nat
  <2>1. \A i \in DOMAIN records : i \in Nat /\ records[i] \in Record
    BY ElementOfSeq, LenProperties
  <2>2. \A r \in Record : r.lastSeen \in Nat
    BY StatAssumption DEF Record
  <2> QED
    BY <2>1, <2>2
<1>2. 1 \in DOMAIN records
  <2>1. Len(records) \in Nat \ {0} /\ DOMAIN records = 1 .. Len(records)
    BY EmptySeq, LenProperties
  <2> QED
    BY <2>1
<1> HIDE DEF Time
<1>3. PICK v \in {Time(i) : i \in DOMAIN records} :
        \A w \in {Time(i) : i \in DOMAIN records} : v <= w
  BY <1>1, <1>2, Smallest
<1>4. PICK k \in {i \in DOMAIN records : Time(i) = v} :
        \A j \in {i \in DOMAIN records : Time(i) = v} : k <= j
  BY <1>1, <1>3, Smallest
<1>5. k \in DOMAIN records /\ \A j \in DOMAIN records :
        Time(k) <= Time(j) /\ (j < k => Time(k) < Time(j))
  BY <1>1, <1>3, <1>4
<1> QED
  BY <1>5 DEF Oldest, Time
-------------------------------------------------------------------------------
(* Two devices are never heard at the same time. *)
HeardApart ==
  \A d, e \in Devices : heard[d] = heard[e] /\ heard[d] > 0 => d = e

RecordedWereHeard == \A i \in DOMAIN records : heard[records[i].deviceId] > 0

StatInv ==
  StatTypeOK /\ HeardApart /\ RecordedWereHeard /\ OneRecordEach /\ MostRecent

(* The record of a reception, and which slot it goes to. *)
LEMMA RecordedAt ==
  ASSUME StatTypeOK, OneRecordEach, NEW stat \in Record, AddToStat(stat)
  PROVE  \E k \in 1 .. MAXQSZ :
           /\ records' \in Seq(Record) /\ Len(records') <= MAXQSZ
           /\ k \in DOMAIN records' /\ records'[k] = stat
           /\ DOMAIN records \subseteq DOMAIN records'
           /\ \A i \in DOMAIN records' :
                i # k => /\ i \in DOMAIN records /\ records'[i] = records[i]
                         /\ records[i].deviceId # stat.deviceId
           /\ \/ Of(stat.deviceId) = {k} /\ k \in DOMAIN records
              \/ k = Oldest /\ Len(records) = MAXQSZ /\ k \in DOMAIN records
              \/ k \notin DOMAIN records /\ Len(records) < MAXQSZ
<1> USE RingAssumption
<1>1. records \in Seq(Record) /\ Len(records) \in Nat /\ Len(records) <= MAXQSZ
  BY DEF StatTypeOK
<1>2. CASE Of(stat.deviceId) # {}
  <2>1. PICK k \in DOMAIN records : Of(stat.deviceId) = {k}
    BY <1>2 DEF Of, OneRecordEach
  <2>2. records' = [i \in 1 .. Len(records) |-> IF i = k THEN stat ELSE records[i]]
    BY <1>1, <1>2, <2>1 DEF AddToStat
  <2>3. records' \in Seq(Record) /\ Len(records') = Len(records)
    BY <1>1, <2>2
  <2>4. DOMAIN records = 1 .. Len(records) /\ DOMAIN records' = 1 .. Len(records)
    BY <1>1, <2>2
  <2>5. \A i \in DOMAIN records : i # k => records[i].deviceId # stat.deviceId
    BY <2>1 DEF Of
  <2>6. k \in 1 .. MAXQSZ /\ records'[k] = stat
    BY <1>1, <2>1, <2>2, <2>4
  <2>7. \A i \in DOMAIN records' : i # k => records'[i] = records[i]
    BY <2>2, <2>4
  <2> QED
    BY <1>1, <2>1, <2>3, <2>4, <2>5, <2>6, <2>7
<1>3. CASE Of(stat.deviceId) = {} /\ Len(records) = MAXQSZ
  <2>1. Oldest \in DOMAIN records
    BY <1>1, <1>3, OldestRecord
  <2>2. records' = [records EXCEPT ![Oldest] = stat]
    BY <1>3 DEF AddToStat
  <2>3. records' \in Seq(Record) /\ Len(records') = Len(records)
    BY <1>1, <2>1, <2>2
  <2> QED
    BY <1>1, <1>3, <2>1, <2>2, <2>3 DEF Of
<1>4. CASE Of(stat.deviceId) = {} /\ Len(records) # MAXQSZ
  <2>1. records' = Append(records, stat)
    BY <1>4 DEF AddToStat
  <2>2. records' \in Seq(Record) /\ Len(records') = Len(records) + 1
    BY <1>1, <2>1
  <2> QED
    BY <1>1, <1>4, <2>1, <2>2 DEF Of
<1> QED
  BY <1>2, <1>3, <1>4

(* The types, that a device has one record, and that the table holds the   *)
(* devices heard last until the clock rolls over, are inductive together.  *)
LEMMA StatInvInductive == StatSpec => []StatInv
<1> USE RingAssumption, StatAssumption
<1>1. StatInit => StatInv
  <2> SUFFICES ASSUME StatInit PROVE StatInv
    OBVIOUS
  <2>1. records = <<>> /\ DOMAIN records = {} /\ now = 0 /\ heard = [d \in Devices |-> 0]
    BY DEF StatInit
  <2>2. StatTypeOK
    BY <2>1 DEF StatTypeOK
  <2>3. HeardApart /\ RecordedWereHeard /\ OneRecordEach /\ MostRecent
    BY <2>1 DEF HeardApart, RecordedWereHeard, OneRecordEach, MostRecent, Who
  <2> QED
    BY <2>2, <2>3 DEF StatInv
<1>2. StatInv /\ [StatNext]_<<vars, statVars>> => StatInv'
  <2> SUFFICES ASSUME StatInv, [StatNext]_<<vars, statVars>> PROVE StatInv'
    OBVIOUS
  <2>1. ASSUME NEW d \in Devices, Receive(d) PROVE StatInv'
    <3> DEFINE stat == [deviceId |-> d, lastSeen |-> now' % ClockPeriod]
    <3>1. now \in Nat /\ now' = now + 1 /\ now' \in 0 .. MaxTime
      BY <2>1 DEF Receive, StatInv, StatTypeOK
    <3>2. stat \in Record /\ (now' < ClockPeriod => stat.lastSeen = now')
      BY <3>1 DEF Record
    <3>3. heard \in [Devices -> 0 .. now] /\ heard' = [heard EXCEPT ![d] = now']
      BY <2>1 DEF Receive, StatInv, StatTypeOK
    <3>4. stat.deviceId = d /\ AddToStat(stat)
      BY <2>1 DEF Receive
    <3> HIDE DEF stat
    <3>5. PICK k \in 1 .. MAXQSZ :
           /\ records' \in Seq(Record) /\ Len(records') <= MAXQSZ
           /\ k \in DOMAIN records' /\ records'[k] = stat
           /\ DOMAIN records \subseteq DOMAIN records'
           /\ \A i \in DOMAIN records' :
                i # k => /\ i \in DOMAIN records /\ records'[i] = records[i]
                         /\ records[i].deviceId # d
           /\ \/ Of(d) = {k} /\ k \in DOMAIN records
              \/ k = Oldest /\ Len(records) = MAXQSZ /\ k \in DOMAIN records
              \/ k \notin DOMAIN records /\ Len(records) < MAXQSZ
      BY ZenonT(30), <3>2, <3>4, RecordedAt DEF StatInv
    <3>6. StatTypeOK'
      BY <3>1, <3>3, <3>5 DEF StatTypeOK
    <3>7. \A i \in DOMAIN records : records[i] \in Record
      BY ElementOfSeq, LenProperties DEF StatInv, StatTypeOK
    <3>8. HeardApart'
      BY <3>1, <3>3 DEF HeardApart, StatInv
    <3>9. RecordedWereHeard'
      <4> SUFFICES ASSUME NEW i \in DOMAIN records' PROVE heard'[records'[i].deviceId] > 0
        BY DEF RecordedWereHeard
      <4>1. CASE i = k
        BY <4>1, <3>1, <3>3, <3>4, <3>5
      <4>2. CASE i # k
        <5>1. i \in DOMAIN records /\ records'[i] = records[i] /\ records[i].deviceId # d
          BY <4>2, <3>5
        <5>2. heard[records[i].deviceId] > 0 /\ records[i].deviceId \in Devices
          BY <5>1, <3>7 DEF StatInv, RecordedWereHeard, Record
        <5> QED
          BY <5>1, <5>2, <3>3
      <4> QED
        BY <4>1, <4>2
    <3>10. OneRecordEach'
      <4>1. ASSUME NEW i \in DOMAIN records', NEW j \in DOMAIN records',
                   records'[i].deviceId = records'[j].deviceId
            PROVE  i = j
        BY <4>1, <3>4, <3>5 DEF StatInv, OneRecordEach
      <4>2. ASSUME NEW e \in Devices, heard'[e] = now' PROVE Of(e)' # {}
        <5>1. e = d
          BY <4>2, <3>1, <3>3
        <5> QED
          BY <5>1, <3>4, <3>5 DEF Of
      <4> QED
        BY <4>1, <4>2 DEF OneRecordEach
    <3>11. MostRecent'
      <4> SUFFICES ASSUME now' < ClockPeriod PROVE MostRecent'
        BY DEF MostRecent
      <4>1. /\ \A i \in DOMAIN records : records[i].lastSeen = heard[records[i].deviceId]
            /\ \A e \in Devices : heard[e] > 0 /\ Of(e) = {} =>
                 /\ Len(records) = MAXQSZ
                 /\ \A i \in DOMAIN records : heard[e] < records[i].lastSeen
        BY <3>1 DEF StatInv, MostRecent, Who
      <4>2. ASSUME NEW i \in DOMAIN records'
            PROVE  records'[i].lastSeen = heard'[records'[i].deviceId]
        <5>1. CASE i = k
          BY <5>1, <3>2, <3>3, <3>4, <3>5
        <5>2. CASE i # k
          <6>1. i \in DOMAIN records /\ records'[i] = records[i] /\ records[i].deviceId # d
            BY <5>2, <3>5
          <6>2. records[i].deviceId \in Devices
            BY <6>1, <3>7 DEF Record
          <6> QED
            BY <6>1, <6>2, <4>1, <3>3
        <5> QED
          BY <5>1, <5>2
      <4>3. ASSUME NEW e \in Devices, heard'[e] > 0, Of(e)' = {}
            PROVE  /\ Len(records') = MAXQSZ
                   /\ \A i \in DOMAIN records' : heard'[e] < records'[i].lastSeen
        <5>1. e # d /\ heard'[e] = heard[e] /\ heard[e] \in Nat /\ heard[e] <= now
          BY <4>3, <3>1, <3>3, <3>4, <3>5 DEF Of
        <5>2. CASE Of(e) = {}
          <6>1. Len(records) = MAXQSZ /\ \A i \in DOMAIN records : heard[e] < records[i].lastSeen
            BY <4>1, <4>3, <5>1, <5>2
          <6>2. DOMAIN records = 1 .. MAXQSZ /\ DOMAIN records' = 1 .. Len(records')
            BY <6>1, <3>5, LenProperties DEF StatInv, StatTypeOK
          <6>3. Len(records') = MAXQSZ
            BY <6>2, <3>5, LenProperties
          <6>4. \A i \in DOMAIN records' : heard[e] < records'[i].lastSeen
            BY <6>1, <3>1, <3>2, <3>5, <5>1
          <6> QED
            BY <6>3, <6>4, <5>1
        <5>3. CASE Of(e) # {}
          <6>1. PICK j \in DOMAIN records : records[j].deviceId = e
            BY <5>3 DEF Of
          <6>2. j = k
            BY <6>1, <3>5, <4>3 DEF Of
          <6>3. k = Oldest /\ Len(records) = MAXQSZ /\ k \in DOMAIN records
            BY <6>1, <6>2, <3>5, <5>1 DEF Of
          <6>4. \A i \in DOMAIN records : records[k].lastSeen <= records[i].lastSeen
            BY <6>3, OldestRecord DEF StatInv, StatTypeOK
          <6>5. ASSUME NEW i \in DOMAIN records, i # k
                PROVE  heard[e] < records[i].lastSeen
            <7>1. heard[e] = records[k].lastSeen
              BY <4>1, <6>1, <6>2
            <7>2. records[i].deviceId \in Devices /\ records[i].deviceId # e
              BY <6>1, <6>2, <6>5, <3>7 DEF StatInv, OneRecordEach, Record
            <7>3. heard[records[i].deviceId] # heard[e]
              BY <7>2, <4>3, <5>1 DEF StatInv, HeardApart
            <7>4. records[i].lastSeen \in Nat
              BY <3>7 DEF Record
            <7> QED
              BY <7>1, <7>3, <7>4, <4>1, <5>1, <6>4
          <6>6. DOMAIN records' = 1 .. Len(records') /\ MAXQSZ \in DOMAIN records'
            BY <6>3, <3>5, LenProperties DEF StatInv, StatTypeOK
          <6>7. Len(records') = MAXQSZ
            <7>1. Len(records') \in Nat /\ MAXQSZ \in Nat /\ MAXQSZ <= Len(records')
              BY <6>6, <3>5, LenProperties
            <7> QED
              BY <7>1, <3>5
          <6>8. \A i \in DOMAIN records' : heard[e] < records'[i].lastSeen
            BY <6>5, <3>1, <3>2, <3>5, <5>1
          <6> QED
            BY <6>7, <6>8, <5>1
        <5> QED
          BY <5>2, <5>3
      <4> QED
        BY <4>2, <4>3 DEF MostRecent, Who
    <3> QED
      BY <3>6, <3>8, <3>9, <3>10, <3>11 DEF StatInv
  <2>2. CASE UNCHANGED statVars
    BY <2>2 DEF statVars, StatInv, StatTypeOK, HeardApart, RecordedWereHeard,
                OneRecordEach, MostRecent, Who, Of
  <2> QED
    BY <2>1, <2>2 DEF StatNext, Poll
<1> QED
  BY <1>1, <1>2, PTL DEF StatSpec
-------------------------------------------------------------------------------
(* The records and the history keep their types. *)
THEOREM StatTypeCorrect == StatSpec => []StatTypeOK
  BY StatInvInductive, PTL DEF StatInv

(* A device never has two records, and the last one heard has its record,  *)
(* whatever was replaced before.                                           *)
THEOREM OneRecordForEach == StatSpec => []OneRecordEach
  BY StatInvInductive, PTL DEF StatInv

(* Until the clock rolls over AT+WHO lists the devices heard last, whatever *)
(* their number.                                                           *)
THEOREM ListsMostRecent == StatSpec => []MostRecent
  BY StatInvInductive, PTL DEF StatInv

(* The packets received are a ring of RingQueue, and so first in, first    *)
(* out, whatever the statistics do.                                        *)
THEOREM PacketsInOrder == StatSpec => []RingInv /\ ImplementsFifo
<1>1. [StatNext]_<<vars, statVars>> => [Next]_vars
  BY DEF StatNext, Receive, Poll, Next, vars, statVars, Devices
<1>2. StatSpec => Spec
  BY <1>1, PTL DEF StatSpec, StatInit, Spec
<1> QED
  BY <1>2, RingCorrect, RingImplementsFifo, PTL
===============================================================================
