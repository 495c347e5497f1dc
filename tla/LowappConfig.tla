---------------------------- MODULE LowappConfig ----------------------------
(***************************************************************************)
(* The configuration of a node of the hardware build, in its four places:  *)
(* the bytes of the EEPROM, the structure myConfig of the system layer,    *)
(* the variables of the core, and what the radio and the CAD timer were    *)
(* given.  AT+SET, READCFG, WRITECFG, CONNECT, DISCONNECT and RST move it  *)
(* from one to another; the power may fail between two bytes of a write.   *)
(*                                                                         *)
(* groupId and gwMask, which nothing checks and nothing depends on, are    *)
(* left out: they are stored between the preamble time and the key.        *)
(***************************************************************************)
EXTENDS Integers, Sequences

CONSTANTS
  KeySize,       \* bytes of the encryption key: 16 in the code
  DeviceIds, Channels, Factors, PreambleTimes, EncKeys, \* values AT+SET is given
  Wraps          \* whether converting a negative double wraps, or gives 0

Byte == 0 .. 255
(* uint16_t *)
MaxWord == 65535
Word == 0 .. MaxWord

(* MIN_DEVICE_ID and the other bounds. *)
LegalIds == 1 .. 250
LegalChannels == 0 .. 15
LegalFactors == 7 .. 12
LegalTimes == 1 .. MaxWord

Keys == [1 .. KeySize -> Byte]
NoKey == [i \in 1 .. KeySize |-> 0]

(* What check_attribute lets through, and what fits the variables. *)
Legal == [deviceId : LegalIds, rchanId : LegalChannels, rsf : LegalFactors,
          preambleTime : LegalTimes, encKey : Keys]

Configs == [deviceId : Byte, rchanId : Byte, rsf : Byte,
            preambleTime : Word, encKey : Keys]

ASSUME ConfigAssumption ==
  /\ KeySize \in Nat \ {0}
  /\ DeviceIds \subseteq LegalIds
  /\ Channels \subseteq LegalChannels
  /\ Factors \subseteq LegalFactors
  /\ PreambleTimes \subseteq LegalTimes
  /\ EncKeys \subseteq Keys \ {NoKey}
  /\ Wraps \in BOOLEAN

VARIABLES
  eeprom,    \* the bytes stored
  written,   \* bytes erased or written so far by save_configuration, 0 outside
  myConfig,  \* the system layer's copy
  node,      \* the core's copy, and what it derived from it
  connected, \* _connected
  images,    \* history: what the storage may be taken for
  past       \* history: "misread" once READCFG read what is not a configuration

vars == <<eeprom, written, myConfig, node, connected, images, past>>

Size == KeySize + 5

Image(c) == <<c.deviceId, c.rchanId, c.rsf,
              c.preambleTime % 256, c.preambleTime \div 256>> \o c.encKey

Stored(bytes) ==
  [deviceId |-> bytes[1], rchanId |-> bytes[2], rsf |-> bytes[3],
   preambleTime |-> bytes[4] + 256 * bytes[5],
   encKey |-> [i \in 1 .. KeySize |-> bytes[5 + i]]]

Erased == [i \in 1 .. Size |-> 0]

(* Program order is address order: the writes go on after the erasures. *)
Erases == written <= Size

(* 1 << _rsf, up to the largest spreading factor. *)
Chips(rsf) == <<1, 2, 4, 8, 16, 32, 64, 128, 256, 512, 1024, 2048, 4096>>[rsf + 1]

(* A symbol lasts Chips(rsf) / 125 ms. *)
PreambleSymbols(ms, rsf) ==
  LET symbols == (500 * ms - 17 * Chips(rsf)) \div (4 * Chips(rsf))
  IN  IF symbols >= 0 \/ Wraps THEN symbols % 65536 ELSE 0

(* _preambleLen *)
PreambleLength(ms, rsf) == (PreambleSymbols(ms, rsf) + 10) % 65536

PreambleMs(symbols, rsf) == ((4 * symbols + 17) * Chips(rsf)) \div 500

(* The variables of the core at a reset. *)
Blank ==
  [config |-> [deviceId |-> 0, rchanId |-> 255, rsf |-> 0, preambleTime |-> 0,
               encKey |-> NoKey],
   preambleLen |-> 0, cadInterval |-> 0, \* derived from them
   channel |-> 255,                      \* what the radio is set to
   modem |-> [rsf |-> 0, preambleLen |-> 0],
   cadTimer |-> 0]                       \* 0: stopped

(* load_full_config refuses one value, a preamble time of 0, and keeps the *)
(* others.                                                                 *)
Applied(n, m) ==
  [n EXCEPT !.config = [m EXCEPT !.preambleTime =
                          IF @ = 0 THEN n.config.preambleTime ELSE @],
            !.channel = IF m.rchanId # n.config.rchanId THEN m.rchanId ELSE @]

(* Mutant of Derived: the timer goes on with the interval it had. *)
DerivedTimerKept(n, on) ==
  LET c == n.config
      length == PreambleLength(c.preambleTime, c.rsf)
  IN  [n EXCEPT !.preambleLen = length,
                !.cadInterval = PreambleMs((length - 10) % 65536, c.rsf),
                !.modem = [rsf |-> c.rsf, preambleLen |-> length]]

Derived(n, on) ==
  LET c == n.config
      length == PreambleLength(c.preambleTime, c.rsf)
      interval == PreambleMs((length - 10) % 65536, c.rsf)
  IN  [n EXCEPT !.preambleLen = length, !.cadInterval = interval,
                !.modem = [rsf |-> c.rsf, preambleLen |-> length],
                !.cadTimer = IF on THEN interval ELSE @]

(* Mutant of RadioChanged: another spreading factor does not count. *)
RadioChangedPreamble(n, m) == m.preambleTime # n.config.preambleTime

RadioChanged(n, m) ==
  m.rsf # n.config.rsf \/ m.preambleTime # n.config.preambleTime

Loaded(n, m, on) ==
  IF m.preambleTime # 0 /\ RadioChanged(n, m)
  THEN Derived(Applied(n, m), on)
  ELSE Applied(n, m)

(* Mutant of CheckConfiguration: the key is not looked at. *)
CheckConfigurationNoKey(n) ==
  /\ n.preambleLen # 0
  /\ n.config.deviceId \in LegalIds
  /\ n.config.rsf \in LegalFactors
  /\ n.config.rchanId \in LegalChannels

CheckConfiguration(n) ==
  /\ n.config.encKey # NoKey
  /\ n.preambleLen # 0
  /\ n.config.deviceId \in LegalIds
  /\ n.config.rsf \in LegalFactors
  /\ n.config.rchanId \in LegalChannels

(* What check_attribute requires of each value. *)
Usable(c) == c \in Legal /\ c.encKey # NoKey

Init ==
  /\ eeprom = Erased
  /\ written = 0
  /\ myConfig = Stored(eeprom)
  /\ node = Loaded(Blank, myConfig, FALSE)
  /\ connected = FALSE
  /\ images = {myConfig}
  /\ past = {}

(* The commands run one after the other, in the main loop. *)
AtPrompt == written = 0

(* One attribute takes a value that check_attribute accepts. *)
NewConfigs ==
  {[myConfig EXCEPT !.deviceId = v] : v \in DeviceIds}
    \union {[myConfig EXCEPT !.rchanId = v] : v \in Channels}
    \union {[myConfig EXCEPT !.rsf = v] : v \in Factors}
    \union {[myConfig EXCEPT !.preambleTime = v] : v \in PreambleTimes}
    \union {[myConfig EXCEPT !.encKey = v] : v \in EncKeys}

CmdSet ==
  /\ AtPrompt
  /\ \E m \in NewConfigs :
       /\ myConfig' = m
       /\ node' = Loaded(node, m, connected)
  /\ UNCHANGED <<eeprom, written, connected, images, past>>

CmdReadCfg ==
  /\ AtPrompt
  /\ myConfig' = Stored(eeprom)
  /\ node' = Loaded(node, Stored(eeprom), connected)
  /\ past' = IF Usable(Stored(eeprom)) THEN past ELSE past \union {"misread"}
  /\ UNCHANGED <<eeprom, written, connected, images>>

(* What was programmed of an image before the power failed: all of it, but *)
(* for the last bytes of the key.                                          *)
ButForKeyEnd(c, full) ==
  \E n \in 0 .. KeySize :
    c = [full EXCEPT !.encKey = [i \in 1 .. KeySize |-> IF i <= n THEN @[i] ELSE 0]]

(* Mutant of CmdWriteCfg: the old bytes are not erased. *)
CmdWriteCfgUnerased ==
  /\ AtPrompt
  /\ written' = Size + 1
  /\ images' = {c \in images : ButForKeyEnd(Stored(eeprom), c)}
                 \union {Stored(Erased), myConfig}
  /\ UNCHANGED <<eeprom, myConfig, node, connected, past>>

(* save_configuration starts. *)
CmdWriteCfg ==
  /\ AtPrompt
  /\ written' = 1
  /\ images' = {c \in images : ButForKeyEnd(Stored(eeprom), c)}
                 \union {Stored(Erased), myConfig}
  /\ UNCHANGED <<eeprom, myConfig, node, connected, past>>

(* Mutant of WriteByte: one byte too many. *)
WriteByteBeyond ==
  /\ ~AtPrompt
  /\ eeprom' = IF Erases THEN [eeprom EXCEPT ![written] = 0]
               ELSE [eeprom EXCEPT ![written - Size] = (Image(myConfig) \o <<0>>)[written - Size]]
  /\ IF written <= 2 * Size
     THEN written' = written + 1 /\ UNCHANGED images
     ELSE written' = 0 /\ images' = {myConfig}
  /\ UNCHANGED <<myConfig, node, connected, past>>

WriteByte ==
  /\ ~AtPrompt
  /\ eeprom' = IF Erases THEN [eeprom EXCEPT ![written] = 0]
               ELSE [eeprom EXCEPT ![written - Size] = Image(myConfig)[written - Size]]
  /\ IF written < 2 * Size
     THEN written' = written + 1 /\ UNCHANGED images
     ELSE written' = 0 /\ images' = {myConfig}
  /\ UNCHANGED <<myConfig, node, connected, past>>

CmdConnect ==
  /\ AtPrompt
  /\ ~connected
  /\ CheckConfiguration(node)
  /\ connected' = TRUE
  /\ node' = [node EXCEPT !.cadTimer = node.cadInterval]
  /\ UNCHANGED <<eeprom, written, myConfig, images, past>>

CmdDisconnect ==
  /\ AtPrompt
  /\ connected
  /\ connected' = FALSE
  /\ node' = [node EXCEPT !.cadTimer = 0]
  /\ UNCHANGED <<eeprom, written, myConfig, images, past>>

(* cadTimeoutCB starts the timer again, from the interrupt. *)
CadExpires ==
  /\ node.cadTimer # 0
  /\ node' = [node EXCEPT !.cadTimer = node.cadInterval]
  /\ UNCHANGED <<eeprom, written, myConfig, connected, images, past>>

(* AT+RST, or the power fails: lowapp_init. *)
Restart ==
  LET stored == Stored(eeprom)
      loaded == Loaded(Blank, stored, FALSE)
      ok == stored.preambleTime # 0 /\ CheckConfiguration(loaded)
  IN  /\ myConfig' = stored
      /\ connected' = ok
      /\ node' = IF ok THEN [loaded EXCEPT !.cadTimer = loaded.cadInterval] ELSE loaded
      /\ written' = 0
      /\ past' = {}
      /\ UNCHANGED <<eeprom, images>>

Command == CmdSet \/ CmdReadCfg \/ CmdWriteCfg \/ CmdConnect \/ CmdDisconnect

Next == Command \/ WriteByte \/ CadExpires \/ Restart

Spec == Init /\ [][Next]_vars

-----------------------------------------------------------------------------

(* Every stored byte is a byte, and no write goes past the last.            *)
TypeOK ==
  /\ eeprom \in [1 .. Size -> Byte]
  /\ written \in 0 .. 2 * Size
  /\ Stored(Image(myConfig)) = myConfig
  /\ node.config \in Configs
  /\ node.preambleLen \in Word
  /\ connected \in BOOLEAN
  /\ past \subseteq {"misread"}

(* cmd_set: a value that is not right implies a device disconnected.  Of   *)
(* all the ways to connect, and to change the values of a connected device,*)
(* only AT+READCFG of a storage that is blank or half written breaks it.   *)
ConnectedIsUsable == connected /\ past = {} => Usable(node.config)

(* The radio of a connected device is set to the channel, the spreading    *)
(* factor and the preamble of the configuration AT+GET shows, however they *)
(* were set: load_full_config leaves the radio alone when a value is       *)
(* refused, or when it finds nothing changed.                              *)
RadioFollows ==
  connected /\ past = {} =>
    /\ myConfig = node.config
    /\ node.channel = node.config.rchanId
    /\ node.modem = [rsf |-> node.config.rsf, preambleLen |-> node.preambleLen]

(* A connected device looks for a preamble at least once in the time a     *)
(* peer of the same configuration sends one, and never stops looking: for  *)
(* every preamble time, those under 4.25 symbols, whose number of symbols  *)
(* is negative, included.  It is a claim about the builds that convert a   *)
(* negative double to 0.                                                   *)
CadCatchesPreamble ==
  connected /\ past = {} =>
    node.cadTimer \in 1 .. PreambleMs(node.preambleLen, node.config.rsf)

(* Whenever the power fails, the device that says BOOT OK has a            *)
(* configuration that was given to AT+WRITECFG as a whole, but maybe for   *)
(* the end of its key; and what a completed AT+WRITECFG stored, if it is   *)
(* legal, boots.                                                           *)
BootsWhole ==
  [][ Restart =>
        /\ connected' => \E c \in images : ButForKeyEnd(myConfig', c)
        /\ \A c \in images :
             images = {c} /\ Usable(c) => connected' /\ node'.config = c ]_vars
=============================================================================
