------------------------------ MODULE StatQueue ------------------------------
(***************************************************************************)
(* What a node keeps of the messages it receives: state_rxing puts each    *)
(* one in the queue of the received packets, a ring of MAXQSZ slots, and   *)
(* its source in the statistics queue, which has one record for a device   *)
(* and as many slots.  AT+POLLRX takes a packet out, AT+WHO lists the      *)
(* records.                                                                *)
(***************************************************************************)
EXTENDS RingQueue, FiniteSets

CONSTANTS
  ClockPeriod, \* the time of day is a number below it: 2^32 on the hardware
  MaxTime      \* bound: when the behaviour ends

ASSUME StatAssumption == ClockPeriod \in Nat \ {0} /\ MaxTime \in Nat

(* The source stands for the message, whose contents change nothing here. *)
Devices == Elements

VARIABLES
  records, \* els[0 .. count - 1] of the statistics queue
  now,     \* time
  heard    \* history: when each device was last heard, 0 for never

statVars == <<records, now, heard>>

Record == [deviceId : Devices, lastSeen : 0 .. ClockPeriod - 1]

StatInit ==
  Init /\ records = <<>> /\ now = 0 /\ heard = [d \in Devices |-> 0]

Of(d) == {i \in DOMAIN records : records[i].deviceId = d}

(* Mutant of Oldest: the comparison is the other way round. *)
Newest == CHOOSE i \in DOMAIN records :
  \A j \in DOMAIN records : records[j].lastSeen <= records[i].lastSeen

(* oldestRecordI: the first of the records with the smallest time. *)
Oldest == CHOOSE i \in DOMAIN records :
  \A j \in DOMAIN records :
    /\ records[i].lastSeen <= records[j].lastSeen
    /\ j < i => records[i].lastSeen < records[j].lastSeen

(* Mutant of AddToStat: a device that is in the table is not looked for. *)
AddToStatAnew(stat) ==
  records' = IF Len(records) = MAXQSZ THEN [records EXCEPT ![Oldest] = stat]
             ELSE Append(records, stat)

(* add_to_statqueue: the record of the device is updated, else a record is *)
(* added, in place of the oldest when there is no room.                    *)
AddToStat(stat) ==
  records' =
    IF Of(stat.deviceId) # {}
    THEN [i \in DOMAIN records |-> IF i \in Of(stat.deviceId) THEN stat ELSE records[i]]
    ELSE IF Len(records) = MAXQSZ THEN [records EXCEPT ![Oldest] = stat]
    ELSE Append(records, stat)

(* state_rxing: a message is received, later than the one before.  It      *)
(* counts for the statistics although the queue of the packets is full.    *)
Receive(d) ==
  /\ now < MaxTime
  /\ now' = now + 1
  /\ Add(d)
  /\ AddToStat([deviceId |-> d, lastSeen |-> now' % ClockPeriod])
  /\ heard' = [heard EXCEPT ![d] = now']

(* AT+POLLRX *)
Poll == Get /\ UNCHANGED statVars

StatNext == (\E d \in Devices : Receive(d)) \/ Poll

StatSpec == StatInit /\ [][StatNext]_<<vars, statVars>>
-----------------------------------------------------------------------------
StatTypeOK ==
  /\ records \in Seq(Record) /\ Len(records) <= MAXQSZ
  /\ now \in 0 .. MaxTime /\ heard \in [Devices -> 0 .. now]

(* What AT+WHO answers. *)
Who == {records[i] : i \in DOMAIN records}

(* A device has one record, however often its record was replaced and it   *)
(* came back, and the last device heard has one.                           *)
OneRecordEach ==
  /\ \A i, j \in DOMAIN records :
       records[i].deviceId = records[j].deviceId => i = j
  /\ \A d \in Devices : now > 0 /\ heard[d] = now => Of(d) # {}

(* AT+WHO lists the MAXQSZ devices heard last, each with the time of its   *)
(* last message: a device is left out only for devices heard after it.     *)
(* This ends with the rollover of the clock of the hardware, after which   *)
(* the devices heard last replace each other.                              *)
MostRecent ==
  now < ClockPeriod =>
    /\ \A r \in Who : r.lastSeen = heard[r.deviceId]
    /\ \A d \in Devices : heard[d] > 0 /\ Of(d) = {} =>
         Len(records) = MAXQSZ /\ \A r \in Who : heard[d] < r.lastSeen
=============================================================================
