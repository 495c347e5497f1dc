------------------------ MODULE LowappConfig_proofs ------------------------
(***************************************************************************)
(* Proofs about the configuration, for every size of the key and whatever  *)
(* values AT+SET is given.                                                 *)
(***************************************************************************)
EXTENDS LowappConfig, SequenceTheorems, TLAPS

(* A record of the fields of node. *)
IsNode(n) ==
  /\ DOMAIN n = {"config", "preambleLen", "cadInterval", "channel", "modem", "cadTimer"}
  /\ n = [f \in DOMAIN n |-> n[f]]

Typed ==
  /\ eeprom \in [1 .. Size -> Byte]
  /\ written \in 0 .. 2 * Size
  /\ myConfig \in Configs
  /\ IsNode(node)
  /\ node.config \in Configs
  /\ connected \in BOOLEAN
  /\ past \subseteq {"misread"}
  /\ images \subseteq Configs

(***************************************************************************)
(* What the core and the radio have, while READCFG has not read what is no *)
(* configuration: a copy of the system layer's values, with the derived    *)
(* values and the radio's once there is a preamble time.                   *)
(***************************************************************************)
InStep(n) ==
  /\ n.channel = n.config.rchanId
  /\ IF n.config.preambleTime = 0 THEN n.preambleLen = 0
     ELSE n.modem = [rsf |-> n.config.rsf, preambleLen |-> n.preambleLen]

Synced ==
  past = {} =>
    /\ node.config = myConfig
    /\ InStep(node)
    /\ connected => Usable(node.config)

(***************************************************************************)
(* What is in the EEPROM: nothing check_configuration accepts, or one of   *)
(* the images, but for the end of its key.                                 *)
(***************************************************************************)
Refused(bytes) == bytes[1] = 0 \/ Stored(bytes).encKey = NoKey

(* The bytes in the middle of save_configuration. *)
Halfway ==
  /\ written <= Size => \A i \in 1 .. Size : i < written => eeprom[i] = 0
  /\ Size < written =>
       \A i \in 1 .. Size :
         eeprom[i] = IF i < written - Size THEN Image(myConfig)[i] ELSE 0
  /\ 0 < written => myConfig \in images /\ Stored(Erased) \in images

Recognised == Refused(eeprom) \/ \E c \in images : ButForKeyEnd(Stored(eeprom), c)

Complete ==
  \A c \in images : images = {c} /\ Usable(c) => written = 0 /\ Stored(eeprom) = c

IInv == Typed /\ Synced /\ Halfway /\ Recognised /\ Complete

-----------------------------------------------------------------------------

LEMMA SizeType == Size \in Nat /\ Size = KeySize + 5 /\ KeySize \in Nat \ {0}
  BY ConfigAssumption DEF Size

LEMMA Fields ==
  ASSUME NEW A, NEW B, NEW C, NEW D, NEW E,
         NEW c \in [deviceId : A, rchanId : B, rsf : C, preambleTime : D, encKey : E]
  PROVE  /\ c.deviceId \in A /\ c.rchanId \in B /\ c.rsf \in C
         /\ c.preambleTime \in D /\ c.encKey \in E
         /\ c = [deviceId |-> c.deviceId, rchanId |-> c.rchanId, rsf |-> c.rsf,
                 preambleTime |-> c.preambleTime, encKey |-> c.encKey]
  OBVIOUS

LEMMA ConfigFields ==
  ASSUME NEW c \in Configs
  PROVE  /\ c.deviceId \in Byte /\ c.rchanId \in Byte /\ c.rsf \in Byte
         /\ c.preambleTime \in Word /\ c.encKey \in Keys
         /\ c = [deviceId |-> c.deviceId, rchanId |-> c.rchanId, rsf |-> c.rsf,
                 preambleTime |-> c.preambleTime, encKey |-> c.encKey]
  BY DEF Configs

LEMMA LegalFields ==
  ASSUME NEW c \in Legal
  PROVE  /\ c.deviceId \in LegalIds /\ c.rchanId \in LegalChannels
         /\ c.rsf \in LegalFactors /\ c.preambleTime \in LegalTimes
         /\ c.encKey \in Keys
  BY DEF Legal

(* The bounds of the intervals stay folded: the provers would unfold them. *)
LEMMA WordBounds ==
  /\ \A w : w \in Word <=> w \in Int /\ 0 <= w /\ w <= MaxWord
  /\ \A w : w \in LegalTimes <=> w \in Int /\ 1 <= w /\ w <= MaxWord
<1>1. MaxWord \in Int BY DEF MaxWord
<1> QED BY <1>1 DEF Word, LegalTimes

LEMMA WordIs ==
  /\ \A w \in Word : w \in Int /\ 0 <= w /\ w <= 65535
  /\ \A w \in Int : 0 <= w /\ w <= 65535 => w \in Word
  /\ \A w \in LegalTimes : w \in Word /\ 1 <= w
  /\ \A w \in Word : w # 0 => w \in LegalTimes
  /\ 0 \notin LegalTimes
<1>1. \A w \in Int : w <= MaxWord <=> w <= 65535 BY DEF MaxWord
<1>2. \A w \in Word : w \in Int /\ 0 <= w /\ w <= 65535 BY <1>1, WordBounds
<1>3. \A w \in Int : 0 <= w /\ w <= 65535 => w \in Word BY <1>1, WordBounds
<1>4. \A w \in LegalTimes : w \in Word /\ 1 <= w BY WordBounds
<1>5. \A w \in Word : w # 0 => w \in LegalTimes BY WordBounds
<1>6. 0 \notin LegalTimes BY WordBounds
<1> QED BY <1>2, <1>3, <1>4, <1>5, <1>6

LEMMA Eta ==
  ASSUME NEW S, NEW T, NEW f \in [S -> T]
  PROVE  f = [i \in S |-> f[i]]
  OBVIOUS

(* A word is made of two bytes. *)
LEMMA Words ==
  /\ \A low, high \in Byte : low + 256 * high \in Word
  /\ \A w \in Word : /\ w % 256 \in Byte /\ w \div 256 \in Byte
                     /\ (w % 256) + 256 * (w \div 256) = w
<1>1. ASSUME NEW low \in Byte, NEW high \in Byte PROVE low + 256 * high \in Word
  <2>1. low \in 0 .. 255 /\ high \in 0 .. 255 BY DEF Byte
  <2>2. low + 256 * high \in Int /\ 0 <= low + 256 * high /\ low + 256 * high <= 65535
    BY <2>1
  <2> QED BY <2>2, WordIs
<1>2. ASSUME NEW w \in Word
      PROVE  /\ w % 256 \in Byte /\ w \div 256 \in Byte
             /\ (w % 256) + 256 * (w \div 256) = w
  <2>1. w \in Int /\ 0 <= w /\ w <= 65535 BY WordIs
  <2>2. w % 256 \in Int /\ 0 <= w % 256 /\ w % 256 <= 255 BY <2>1
  <2>3. w \div 256 \in Int BY <2>1
  <2>4. w = 256 * (w \div 256) + (w % 256) BY <2>1
  <2>5. 0 <= w \div 256 /\ w \div 256 <= 255 BY <2>1, <2>2, <2>3, <2>4
  <2>6. w % 256 \in Byte BY <2>2 DEF Byte
  <2>7. w \div 256 \in Byte BY <2>3, <2>5 DEF Byte
  <2>8. (w % 256) + 256 * (w \div 256) = w BY <2>2, <2>3, <2>4
  <2> QED BY <2>6, <2>7, <2>8
<1> QED BY <1>1, <1>2

LEMMA StoredType ==
  ASSUME NEW bytes \in [1 .. Size -> Byte]
  PROVE  Stored(bytes) \in Configs
<1>1. {1, 2, 3, 4, 5} \subseteq 1 .. Size BY SizeType
<1>2. bytes[1] \in Byte /\ bytes[2] \in Byte /\ bytes[3] \in Byte
      /\ bytes[4] \in Byte /\ bytes[5] \in Byte
  BY <1>1
<1>3. bytes[4] + 256 * bytes[5] \in Word BY ZenonT(60), <1>2, Words
<1>4. \A i \in 1 .. KeySize : 5 + i \in 1 .. Size BY SizeType
<1>5. [i \in 1 .. KeySize |-> bytes[5 + i]] \in Keys
  BY <1>4 DEF Keys
<1> QED BY <1>2, <1>3, <1>5 DEF Stored, Configs

LEMMA ImageBytes ==
  ASSUME NEW c \in Configs
  PROVE  /\ Image(c) \in [1 .. Size -> Byte]
         /\ Image(c)[1] = c.deviceId /\ Image(c)[2] = c.rchanId
         /\ Image(c)[3] = c.rsf
         /\ Image(c)[4] + 256 * Image(c)[5] = c.preambleTime
         /\ \A i \in 1 .. KeySize : Image(c)[5 + i] = c.encKey[i]
<1> DEFINE low == c.preambleTime % 256
           high == c.preambleTime \div 256
           head == <<c.deviceId, c.rchanId, c.rsf, low, high>>
<1>1. c.deviceId \in Byte /\ c.rchanId \in Byte /\ c.rsf \in Byte
      /\ c.preambleTime \in Word /\ c.encKey \in Keys
  BY ConfigFields
<1>2. low \in Byte /\ high \in Byte /\ low + 256 * high = c.preambleTime
  BY ZenonT(60), <1>1, Words
<1>3. Image(c) = head \o c.encKey BY DEF Image
<1> HIDE DEF low, high
<1>4. head \in Seq(Byte) /\ Len(head) = 5 BY <1>1, <1>2
<1>5. c.encKey \in Seq(Byte) /\ Len(c.encKey) = KeySize
  BY <1>1, SizeType DEF Keys
<1>6. /\ head[1] = c.deviceId /\ head[2] = c.rchanId /\ head[3] = c.rsf
      /\ head[4] = low /\ head[5] = high
  OBVIOUS
<1> HIDE DEF head
<1>7. /\ Image(c) \in Seq(Byte)
      /\ Len(Image(c)) = 5 + KeySize
      /\ \A i \in 1 .. 5 + KeySize :
           Image(c)[i] = IF i <= 5 THEN head[i] ELSE c.encKey[i - 5]
  <2> DEFINE k == c.encKey
  <2> HIDE DEF k
  <2>1. k \in Seq(Byte) /\ Len(k) = KeySize /\ Image(c) = head \o k
    BY <1>3, <1>5 DEF k
  <2>2. /\ head \o k \in Seq(Byte)
        /\ Len(head \o k) = Len(head) + Len(k)
        /\ \A i \in 1 .. Len(head) + Len(k) :
             (head \o k)[i] = IF i <= Len(head) THEN head[i] ELSE k[i - Len(head)]
    BY <1>4, <2>1, ConcatProperties
  <2> QED BY <1>4, <2>1, <2>2 DEF k
<1>8. Image(c) \in [1 .. Size -> Byte]
  <2>1. Image(c) \in [1 .. Len(Image(c)) -> Byte] BY <1>7, LenProperties
  <2>2. Len(Image(c)) = Size BY <1>7, SizeType
  <2> QED BY <2>1, <2>2
<1>9. \A i \in 1 .. 5 : Image(c)[i] = head[i]
  BY <1>7, SizeType
<1>10. \A i \in 1 .. KeySize : Image(c)[5 + i] = c.encKey[i]
  <2> TAKE i \in 1 .. KeySize
  <2>1. 5 + i \in 1 .. 5 + KeySize /\ ~(5 + i <= 5) /\ (5 + i) - 5 = i BY SizeType
  <2> QED BY <2>1, <1>7
<1>11. Image(c)[1] = head[1] /\ Image(c)[2] = head[2] /\ Image(c)[3] = head[3]
       /\ Image(c)[4] = head[4] /\ Image(c)[5] = head[5]
  BY <1>9
<1> QED BY <1>2, <1>6, <1>8, <1>10, <1>11

LEMMA StoredImage ==
  ASSUME NEW c \in Configs
  PROVE  Stored(Image(c)) = c
<1>1. [i \in 1 .. KeySize |-> Image(c)[5 + i]] = c.encKey
  <2>1. c.encKey \in [1 .. KeySize -> Byte] BY ConfigFields DEF Keys
  <2>2. c.encKey = [i \in 1 .. KeySize |-> c.encKey[i]] BY <2>1
  <2>3. \A i \in 1 .. KeySize : Image(c)[5 + i] = c.encKey[i] BY ImageBytes
  <2> QED BY <2>2, <2>3
<1>2. c = [deviceId |-> c.deviceId, rchanId |-> c.rchanId, rsf |-> c.rsf,
           preambleTime |-> c.preambleTime, encKey |-> c.encKey]
  BY ConfigFields
<1>3. /\ Image(c)[1] = c.deviceId /\ Image(c)[2] = c.rchanId /\ Image(c)[3] = c.rsf
      /\ Image(c)[4] + 256 * Image(c)[5] = c.preambleTime
  BY ImageBytes
<1>4. Stored(Image(c)) =
        [deviceId |-> Image(c)[1], rchanId |-> Image(c)[2], rsf |-> Image(c)[3],
         preambleTime |-> Image(c)[4] + 256 * Image(c)[5],
         encKey |-> [i \in 1 .. KeySize |-> Image(c)[5 + i]]]
  BY DEF Stored
<1>5. Stored(Image(c)) =
        [deviceId |-> c.deviceId, rchanId |-> c.rchanId, rsf |-> c.rsf,
         preambleTime |-> c.preambleTime, encKey |-> c.encKey]
  BY <1>1, <1>3, <1>4, Zenon
<1> QED BY <1>2, <1>5, Zenon

LEMMA ErasedType ==
  /\ Erased \in [1 .. Size -> Byte] /\ Erased[1] = 0
  /\ Stored(Erased) \in Configs /\ ~Usable(Stored(Erased))
<1>1. Erased \in [1 .. Size -> Byte] BY SizeType DEF Erased, Byte
<1>2. 1 \in 1 .. Size BY SizeType
<1>3. Stored(Erased).deviceId = 0 /\ Erased[1] = 0 BY <1>2 DEF Stored, Erased
<1>4. 0 \notin LegalIds BY DEF LegalIds
<1> QED BY <1>1, <1>3, <1>4, StoredType, LegalFields DEF Usable

LEMMA BlankType ==
  Blank.config \in Configs /\ InStep(Blank)
<1>1. 0 \in Byte /\ 255 \in Byte /\ 0 \in Word BY WordIs DEF Byte
<1>2. NoKey \in Keys BY <1>1 DEF NoKey, Keys
<1> QED BY <1>1, <1>2 DEF Blank, Configs, InStep

LEMMA DerivedFields ==
  ASSUME NEW n, IsNode(n), NEW on
  PROVE  LET d == Derived(n, on)
         IN  /\ IsNode(d) /\ d.config = n.config /\ d.channel = n.channel
             /\ d.preambleLen = PreambleLength(n.config.preambleTime, n.config.rsf)
             /\ d.modem = [rsf |-> n.config.rsf, preambleLen |-> d.preambleLen]
<1> DEFINE length == PreambleLength(n.config.preambleTime, n.config.rsf)
           interval == PreambleMs((length - 10) % 65536, n.config.rsf)
           modem == [rsf |-> n.config.rsf, preambleLen |-> length]
           timer == IF on THEN interval ELSE n.cadTimer
<1>1. Derived(n, on) = [n EXCEPT !.preambleLen = length, !.cadInterval = interval,
                                 !.modem = modem, !.cadTimer = timer]
  BY DEF Derived
<1>2. /\ modem = [rsf |-> n.config.rsf, preambleLen |-> length]
      /\ length = PreambleLength(n.config.preambleTime, n.config.rsf)
  OBVIOUS
<1> HIDE DEF length, interval, modem, timer
<1> QED BY ZenonT(60), <1>1, <1>2 DEF IsNode

LEMMA AppliedNode ==
  ASSUME NEW n, IsNode(n), NEW m
  PROVE  IsNode(Applied(n, m))
<1> DEFINE config == [m EXCEPT !.preambleTime = IF @ = 0 THEN n.config.preambleTime ELSE @]
           channel == IF m.rchanId # n.config.rchanId THEN m.rchanId ELSE n.channel
<1>1. Applied(n, m) = [n EXCEPT !.config = config, !.channel = channel]
  BY DEF Applied
<1> HIDE DEF config, channel
<1> QED BY <1>1 DEF IsNode

(* load_full_config keeps the radio and the derived values in step with    *)
(* the configuration, when that one only goes without a preamble time if   *)
(* the core's copy does.                                                   *)
LEMMA LoadedInStep ==
  ASSUME NEW n, IsNode(n), n.config \in Configs, InStep(n), NEW m \in Configs, NEW on,
         m.preambleTime = 0 => n.config.preambleTime = 0
  PROVE  InStep(Loaded(n, m, on)) /\ Loaded(n, m, on).config = m
<1> DEFINE a == Applied(n, m)
<1>1. m = [deviceId |-> m.deviceId, rchanId |-> m.rchanId, rsf |-> m.rsf,
           preambleTime |-> m.preambleTime, encKey |-> m.encKey]
  BY ConfigFields
<1>2. [m EXCEPT !.preambleTime = IF @ = 0 THEN n.config.preambleTime ELSE @] = m
  BY <1>1
<1>3. a.config = m /\ a.channel = m.rchanId /\ a.modem = n.modem
      /\ a.preambleLen = n.preambleLen
  BY <1>2 DEF Applied, InStep, IsNode
<1>4. IsNode(a)
  BY DEF Applied, IsNode
<1> HIDE DEF a
<1>5. CASE m.preambleTime # 0 /\ RadioChanged(n, m)
  <2>1. Loaded(n, m, on) = Derived(a, on) BY <1>5 DEF Loaded, a
  <2>2. Derived(a, on).config = a.config /\ Derived(a, on).channel = a.channel
        /\ Derived(a, on).modem =
             [rsf |-> a.config.rsf, preambleLen |-> Derived(a, on).preambleLen]
    BY <1>4, DerivedFields
  <2> QED BY <2>1, <2>2, <1>3, <1>5 DEF InStep
<1>6. CASE ~(m.preambleTime # 0 /\ RadioChanged(n, m))
  <2>1. Loaded(n, m, on) = a BY <1>6 DEF Loaded, a
  <2>2. IF m.preambleTime = 0 THEN n.config.preambleTime = 0
        ELSE m.preambleTime = n.config.preambleTime /\ m.rsf = n.config.rsf
    BY <1>6 DEF RadioChanged
  <2> QED BY <2>1, <2>2, <1>3 DEF InStep
<1> QED BY <1>5, <1>6

LEMMA LoadedType ==
  ASSUME NEW n, IsNode(n), n.config \in Configs, NEW m \in Configs, NEW on
  PROVE  LET l == Loaded(n, m, on)
         IN  /\ l.config \in Configs
             /\ IsNode(l)
<1> DEFINE a == Applied(n, m)
<1>1. [m EXCEPT !.preambleTime = IF @ = 0 THEN n.config.preambleTime ELSE @] \in Configs
  <2>1. n.config.preambleTime \in Word BY ConfigFields
  <2> QED BY <2>1 DEF Configs
<1>2. a.config \in Configs
      /\ IsNode(a)
  BY <1>1 DEF Applied, IsNode
<1> HIDE DEF a
<1>3. Derived(a, on).config = a.config
      /\ IsNode(Derived(a, on))
  BY <1>2, DerivedFields
<1>4. Loaded(n, m, on) = IF m.preambleTime # 0 /\ RadioChanged(n, m)
                         THEN Derived(a, on) ELSE a
  BY DEF Loaded, a
<1> QED BY <1>2, <1>3, <1>4

(* One legal value for another. *)
LEMMA NewConfigsType ==
  ASSUME myConfig \in Configs, NEW m \in NewConfigs
  PROVE  /\ m \in Configs
         /\ m.preambleTime = 0 => myConfig.preambleTime = 0
         /\ Usable(myConfig) => Usable(m)
<1>1. LegalIds \subseteq Byte /\ LegalChannels \subseteq Byte
      /\ LegalFactors \subseteq Byte /\ LegalTimes \subseteq Word /\ 0 \notin LegalTimes
  <2>1. LegalIds \subseteq Byte BY DEF LegalIds, Byte
  <2>2. LegalChannels \subseteq Byte BY DEF LegalChannels, Byte
  <2>3. LegalFactors \subseteq Byte BY DEF LegalFactors, Byte
  <2>4. ASSUME NEW w \in LegalTimes PROVE w \in Word /\ w # 0
    BY WordIs
  <2> QED BY <2>1, <2>2, <2>3, <2>4
<1>2. CASE \E v \in DeviceIds : m = [myConfig EXCEPT !.deviceId = v]
  <2> PICK v \in DeviceIds : m = [myConfig EXCEPT !.deviceId = v] BY <1>2
  <2> QED BY <1>1, ConfigAssumption DEF Configs, Usable, Legal
<1>3. CASE \E v \in Channels : m = [myConfig EXCEPT !.rchanId = v]
  <2> PICK v \in Channels : m = [myConfig EXCEPT !.rchanId = v] BY <1>3
  <2> QED BY <1>1, ConfigAssumption DEF Configs, Usable, Legal
<1>4. CASE \E v \in Factors : m = [myConfig EXCEPT !.rsf = v]
  <2> PICK v \in Factors : m = [myConfig EXCEPT !.rsf = v] BY <1>4
  <2> QED BY <1>1, ConfigAssumption DEF Configs, Usable, Legal
<1>5. CASE \E v \in PreambleTimes : m = [myConfig EXCEPT !.preambleTime = v]
  <2> PICK v \in PreambleTimes : m = [myConfig EXCEPT !.preambleTime = v] BY <1>5
  <2> QED BY <1>1, ConfigAssumption DEF Configs, Usable, Legal
<1>6. CASE \E v \in EncKeys : m = [myConfig EXCEPT !.encKey = v]
  <2> PICK v \in EncKeys : m = [myConfig EXCEPT !.encKey = v] BY <1>6
  <2> QED BY <1>1, ConfigAssumption DEF Configs, Usable, Legal
<1> QED BY <1>2, <1>3, <1>4, <1>5, <1>6 DEF NewConfigs

(* check_configuration, of a copy in step, is check_attribute of each value. *)
LEMMA CheckedIsUsable ==
  ASSUME NEW n, n.config \in Configs, InStep(n), CheckConfiguration(n)
  PROVE  Usable(n.config)
<1>1. n.config.preambleTime # 0 BY DEF CheckConfiguration, InStep
<1>2. n.config.preambleTime \in LegalTimes
  <2>1. \A w \in Word : w # 0 => w \in LegalTimes BY WordIs
  <2> QED BY <1>1, <2>1, ConfigFields
<1> QED BY <1>2, ConfigFields DEF CheckConfiguration, Usable, Legal

(* The derived length is never null, which would be refused. *)
LEMMA LengthNotNull ==
  ASSUME NEW ms \in LegalTimes, NEW rsf \in LegalFactors
  PROVE  PreambleLength(ms, rsf) # 0
<1>1. ms \in Int /\ 1 <= ms /\ ms <= 65535 BY WordIs
<1>2. ASSUME NEW c \in {128, 256, 512, 1024, 2048, 4096}
      PROVE  /\ (500 * ms - 17 * c) \div (4 * c) \in Int
             /\ -5 <= (500 * ms - 17 * c) \div (4 * c)
             /\ (500 * ms - 17 * c) \div (4 * c) <= 65000
  <2>1. CASE c = 128 BY <1>1, <2>1
  <2>2. CASE c = 256 BY <1>1, <2>2
  <2>3. CASE c = 512 BY <1>1, <2>3
  <2>4. CASE c = 1024 BY <1>1, <2>4
  <2>5. CASE c = 2048 BY <1>1, <2>5
  <2>6. CASE c = 4096 BY <1>1, <2>6
  <2> QED BY <2>1, <2>2, <2>3, <2>4, <2>5, <2>6
<1>3. Chips(rsf) \in {128, 256, 512, 1024, 2048, 4096}
  <2>1. rsf \in {7, 8, 9, 10, 11, 12} BY DEF LegalFactors
  <2> QED BY <2>1 DEF Chips
<1> DEFINE n == (500 * ms - 17 * Chips(rsf)) \div (4 * Chips(rsf))
<1>4. n \in Int /\ -5 <= n /\ n <= 65000 BY <1>2, <1>3
<1>5. PreambleSymbols(ms, rsf) = IF n >= 0 \/ Wraps THEN n % 65536 ELSE 0
  BY DEF PreambleSymbols
<1> HIDE DEF n
<1> USE DEF PreambleLength
<1>6. CASE 0 <= n BY <1>4, <1>5, <1>6
<1>7. CASE n < 0
  <2>1. n % 65536 = n + 65536 BY <1>4, <1>7
  <2> QED BY <1>4, <1>5, <1>7, <2>1
<1> QED BY <1>4, <1>6, <1>7

LEMMA InitIInv == Init => IInv
<1> SUFFICES ASSUME Init PROVE IInv
  OBVIOUS
<1> DEFINE e == Stored(Erased)
<1>1. eeprom = Erased /\ written = 0 /\ myConfig = e /\ node = Loaded(Blank, e, FALSE)
      /\ connected = FALSE /\ images = {e} /\ past = {}
  BY DEF Init
<1>2. e \in Configs /\ ~Usable(e) /\ Erased \in [1 .. Size -> Byte] /\ Erased[1] = 0
  BY ErasedType
<1>3. IsNode(Blank) /\ Blank.config.preambleTime = 0 BY DEF IsNode, Blank
<1> HIDE DEF e
<1>4. IsNode(node) /\ node.config \in Configs
  BY <1>1, <1>2, <1>3, BlankType, LoadedType
<1>5. InStep(node) /\ node.config = e
  BY <1>1, <1>2, <1>3, BlankType, LoadedInStep
<1>a. 0 \in 0 .. 2 * Size BY SizeType
<1>6. Typed BY <1>1, <1>2, <1>4, <1>a DEF Typed
<1>7. Synced BY <1>1, <1>5 DEF Synced
<1>8. Halfway BY <1>1, <1>2, SizeType DEF Halfway, Erased
<1>9. Recognised BY <1>1, <1>2 DEF Recognised, Refused
<1>10. Complete BY <1>1, <1>2 DEF Complete
<1> QED BY <1>6, <1>7, <1>8, <1>9, <1>10 DEF IInv

(* What leaves the storage alone, outside of a write. *)
LEMMA StorageKept ==
  ASSUME IInv, written = 0, UNCHANGED <<eeprom, written, images>>
  PROVE  Halfway' /\ Recognised' /\ Complete'
<1>1. Halfway' BY SizeType DEF IInv, Halfway
<1> QED BY <1>1 DEF IInv, Recognised, Complete, Refused

LEMMA SetIInv ==
  ASSUME IInv, CmdSet
  PROVE  IInv'
<1>1. PICK m \in NewConfigs : myConfig' = m /\ node' = Loaded(node, m, connected)
  BY DEF CmdSet
<1>2. /\ m \in Configs /\ (m.preambleTime = 0 => myConfig.preambleTime = 0)
      /\ (Usable(myConfig) => Usable(m))
  BY NewConfigsType DEF IInv, Typed
<1>3. IsNode(node') /\ node'.config \in Configs
  BY <1>1, <1>2, LoadedType DEF IInv, Typed
<1>4. written = 0 /\ UNCHANGED <<eeprom, written, connected, images, past>>
  BY DEF CmdSet, AtPrompt
<1>5. past = {} => InStep(node') /\ node'.config = m
  BY <1>1, <1>2, LoadedInStep DEF IInv, Typed, Synced
<1>6. Typed' BY <1>1, <1>2, <1>3, <1>4 DEF IInv, Typed
<1>7. Synced' BY <1>1, <1>2, <1>4, <1>5 DEF IInv, Synced
<1> QED BY <1>4, <1>6, <1>7, StorageKept DEF IInv

LEMMA ReadCfgIInv ==
  ASSUME IInv, CmdReadCfg
  PROVE  IInv'
<1> DEFINE m == Stored(eeprom)
<1>1. /\ written = 0 /\ myConfig' = m /\ node' = Loaded(node, m, connected)
      /\ UNCHANGED <<eeprom, written, connected, images>>
      /\ past' = IF Usable(m) THEN past ELSE past \union {"misread"}
  BY DEF CmdReadCfg, AtPrompt
<1>2. m \in Configs BY StoredType DEF IInv, Typed
<1> HIDE DEF m
<1>3. IsNode(node') /\ node'.config \in Configs
  BY <1>1, <1>2, LoadedType DEF IInv, Typed
<1>4. past' = {} => past = {} /\ Usable(m) BY <1>1
<1>5. Usable(m) => m.preambleTime # 0
  <2>1. 0 \notin LegalTimes BY WordIs
  <2> QED BY <2>1, LegalFields DEF Usable
<1>6. past' = {} => InStep(node') /\ node'.config = m
  BY <1>1, <1>2, <1>4, <1>5, LoadedInStep DEF IInv, Typed, Synced
<1>7. Typed' BY <1>1, <1>2, <1>3 DEF IInv, Typed
<1>8. Synced' BY <1>1, <1>4, <1>6 DEF Synced
<1> QED BY <1>1, <1>7, <1>8, StorageKept DEF IInv

LEMMA WriteCfgIInv ==
  ASSUME IInv, CmdWriteCfg
  PROVE  IInv'
<1>1. /\ written = 0 /\ written' = 1
      /\ images' = {c \in images : ButForKeyEnd(Stored(eeprom), c)}
                     \union {Stored(Erased), myConfig}
      /\ UNCHANGED <<eeprom, myConfig, node, connected, past>>
  BY DEF CmdWriteCfg, AtPrompt
<1>2. Typed' BY <1>1, ErasedType, SizeType DEF IInv, Typed
<1>3. Synced' BY <1>1 DEF IInv, Synced
<1>4. Halfway' BY <1>1, SizeType DEF Halfway
<1>5. Recognised' BY <1>1 DEF IInv, Recognised, Refused
<1>6. Complete' BY <1>1, ErasedType DEF Complete
<1> QED BY <1>2, <1>3, <1>4, <1>5, <1>6 DEF IInv

LEMMA ConnectIInv ==
  ASSUME IInv, CmdConnect \/ CmdDisconnect \/ CadExpires
  PROVE  IInv'
<1>1. /\ UNCHANGED <<eeprom, written, myConfig, images, past>>
      /\ \E t : node' = [node EXCEPT !.cadTimer = t]
      /\ connected' \in BOOLEAN
      /\ connected' => connected \/ CheckConfiguration(node)
  <2>1. CASE CmdConnect BY <2>1 DEF CmdConnect
  <2>2. CASE CmdDisconnect BY <2>2 DEF CmdDisconnect
  <2>3. CASE CadExpires BY <2>3 DEF CadExpires, IInv, Typed
  <2> QED BY <2>1, <2>2, <2>3
<1>2. /\ IsNode(node') /\ node'.config = node.config
      /\ (InStep(node) => InStep(node'))
  BY <1>1 DEF IInv, Typed, IsNode, InStep
<1>3. Typed' BY <1>1, <1>2 DEF IInv, Typed
<1>4. Synced' BY <1>1, <1>2, CheckedIsUsable DEF IInv, Typed, Synced
<1>5. Halfway' /\ Recognised' /\ Complete'
  BY <1>1 DEF IInv, Halfway, Recognised, Complete, Refused
<1> QED BY <1>3, <1>4, <1>5 DEF IInv

LEMMA WriteByteIInv ==
  ASSUME IInv, WriteByte
  PROVE  IInv'
<1> DEFINE image == Image(myConfig)
<1>1. /\ written # 0 /\ UNCHANGED <<myConfig, node, connected, past>>
      /\ IF written < 2 * Size
         THEN written' = written + 1 /\ UNCHANGED images
         ELSE written' = 0 /\ images' = {myConfig}
  BY DEF WriteByte, AtPrompt
<1>2. /\ eeprom \in [1 .. Size -> Byte] /\ written \in 1 .. 2 * Size
      /\ Size \in Nat /\ KeySize \in Nat /\ Size = KeySize + 5
      /\ myConfig \in Configs /\ myConfig \in images /\ Stored(Erased) \in images
  BY <1>1, SizeType DEF IInv, Typed, Halfway
<1>3. image \in [1 .. Size -> Byte] BY <1>2, ImageBytes
<1>4. 0 \in Byte BY DEF Byte
<1>5. eeprom' \in [1 .. Size -> Byte]
  <2>1. CASE written <= Size
    BY <1>2, <1>4, <2>1 DEF WriteByte, Erases
  <2>2. CASE ~(written <= Size)
    <3>1. written - Size \in 1 .. Size BY <1>2, <2>2
    <3> QED BY <1>2, <1>3, <2>2, <3>1 DEF WriteByte, Erases
  <2> QED BY <2>1, <2>2
<1>6. CASE written <= Size
  <2>1. \A i \in 1 .. Size : eeprom'[i] = IF i = written THEN 0 ELSE eeprom[i]
    BY <1>2, <1>6 DEF WriteByte, Erases
  <2>2. \A i \in 1 .. Size : i < written => eeprom[i] = 0
    BY <1>6 DEF IInv, Halfway
  <2>3. \A i \in 1 .. Size : i <= written => eeprom'[i] = 0
    BY <1>2, <2>1, <2>2
  <2>4. written' = written + 1 /\ images' = images BY <1>1, <1>2, <1>6
  <2>5. Typed' BY <1>1, <1>2, <1>5, <1>6, <2>4 DEF IInv, Typed
  <2>6. Halfway'
    <3>1. \A i \in 1 .. Size : i < written' => eeprom'[i] = 0
      BY <1>2, <2>3, <2>4
    <3>2. written' <= Size \/ (written' = Size + 1 /\ written = Size)
      BY <1>2, <1>6, <2>4
    <3>3. Size < written' => \A i \in 1 .. Size : eeprom'[i] = 0 /\ ~(i < written' - Size)
      BY <1>2, <2>3, <2>4, <3>2
    <3> QED BY <1>1, <1>2, <2>4, <3>1, <3>3 DEF Halfway
  <2>7. Recognised'
    <3>1. 1 \in 1 .. Size /\ 1 <= written BY <1>2
    <3> QED BY <2>3, <3>1 DEF Recognised, Refused
  <2>8. Complete' BY <1>1, <1>2, <2>4, ErasedType DEF Complete
  <2>9. Synced' BY <1>1 DEF IInv, Synced
  <2> QED BY <2>5, <2>6, <2>7, <2>8, <2>9 DEF IInv
<1>7. CASE Size < written
  <2> DEFINE j == written - Size
  <2>1. j \in 1 .. Size /\ ~(written <= Size) BY <1>2, <1>7
  <2>2. \A i \in 1 .. Size : eeprom[i] = IF i < j THEN image[i] ELSE 0
    BY <1>7 DEF IInv, Halfway
  <2>3. \A i \in 1 .. Size : eeprom'[i] = IF i = j THEN image[j] ELSE eeprom[i]
    BY <1>2, <2>1 DEF WriteByte, Erases
  <2>4. \A i \in 1 .. Size : eeprom'[i] = IF i <= j THEN image[i] ELSE 0
    BY <2>1, <2>2, <2>3
  <2>5. myConfig \in images' /\ images' \subseteq images
    BY <1>1, <1>2
  <2>6. Typed' /\ Synced'
    <3>1. written' \in 0 .. 2 * Size BY <1>1, <1>2
    <3> QED BY <1>1, <1>5, <2>5, <3>1 DEF IInv, Typed, Synced
  <2>7. Halfway'
    <3>1. CASE written < 2 * Size
      <4>1. written' = written + 1 /\ images' = images BY <1>1, <3>1
      <4>2. Size < written' /\ ~(written' <= Size) /\ written' - Size = j + 1
        BY <1>2, <1>7, <4>1
      <4>3. \A i \in 1 .. Size : i < j + 1 <=> i <= j BY <2>1
      <4> QED BY <1>1, <1>2, <2>4, <4>1, <4>2, <4>3 DEF Halfway
    <3>2. CASE ~(written < 2 * Size)
      BY <1>1, <1>2, <3>2 DEF Halfway
    <3> QED BY <3>1, <3>2
  <2>8. Recognised'
    <3> DEFINE key == [i \in 1 .. KeySize |-> IF i <= j - 5 THEN myConfig.encKey[i] ELSE 0]
               s == Stored(eeprom')
    <3>1. \A i \in 1 .. KeySize : eeprom'[5 + i] = IF i <= j - 5 THEN myConfig.encKey[i] ELSE 0
      <4> TAKE i \in 1 .. KeySize
      <4>1. 5 + i \in 1 .. Size /\ (5 + i <= j <=> i <= j - 5) BY <1>2, <2>1
      <4>2. image[5 + i] = myConfig.encKey[i] BY <1>2, ImageBytes
      <4> QED BY <2>4, <4>1, <4>2
    <3>2. s.encKey = key BY <3>1 DEF Stored
    <3>3. CASE j <= 5
      <4>1. \A i \in 1 .. KeySize : ~(i <= j - 5) BY <1>2, <2>1, <3>3
      <4>2. s.encKey = NoKey BY <3>2, <4>1 DEF NoKey
      <4> QED BY <4>2 DEF Recognised, Refused
    <3>4. CASE 5 < j
      <4>1. \A i \in 1 .. 5 : i \in 1 .. Size /\ i <= j BY <1>2, <3>4, <2>1
      <4>2. \A i \in 1 .. 5 : eeprom'[i] = image[i] BY <2>4, <4>1
      <4>3. eeprom'[1] = image[1] /\ eeprom'[2] = image[2] /\ eeprom'[3] = image[3]
            /\ eeprom'[4] = image[4] /\ eeprom'[5] = image[5]
        BY <4>2
      <4>4. s = [deviceId |-> myConfig.deviceId, rchanId |-> myConfig.rchanId,
                 rsf |-> myConfig.rsf, preambleTime |-> myConfig.preambleTime,
                 encKey |-> key]
        <5>1. image[1] = myConfig.deviceId /\ image[2] = myConfig.rchanId
              /\ image[3] = myConfig.rsf
              /\ image[4] + 256 * image[5] = myConfig.preambleTime
          BY <1>2, ImageBytes
        <5>2. s = [deviceId |-> eeprom'[1], rchanId |-> eeprom'[2], rsf |-> eeprom'[3],
                   preambleTime |-> eeprom'[4] + 256 * eeprom'[5], encKey |-> s.encKey]
          BY DEF Stored
        <5> HIDE DEF key, s, image
        <5> QED BY <3>2, <4>3, <5>1, <5>2
      <4>5. myConfig = [deviceId |-> myConfig.deviceId, rchanId |-> myConfig.rchanId,
                        rsf |-> myConfig.rsf, preambleTime |-> myConfig.preambleTime,
                        encKey |-> myConfig.encKey]
        BY <1>2, ConfigFields
      <4>6. s = [myConfig EXCEPT !.encKey = key]
        <5> HIDE DEF key, s
        <5> QED BY <4>4, <4>5
      <4>7. j - 5 \in 0 .. KeySize BY <1>2, <2>1, <3>4
      <4>8. ButForKeyEnd(s, myConfig)
        BY <4>6, <4>7 DEF ButForKeyEnd
      <4> QED BY <2>5, <4>8 DEF Recognised
    <3> QED BY <2>1, <3>3, <3>4
  <2>9. Complete'
    <3>1. CASE written < 2 * Size
      BY <1>1, <1>2, <3>1, ErasedType DEF Complete
    <3>2. CASE ~(written < 2 * Size)
      <4>1. written' = 0 /\ images' = {myConfig} /\ j = Size BY <1>1, <1>2, <3>2
      <4>2. \A i \in 1 .. Size : eeprom'[i] = image[i] BY <2>4, <4>1
      <4>3. eeprom' = image
        <5> HIDE DEF image
        <5>1. /\ eeprom' = [i \in 1 .. Size |-> eeprom'[i]]
              /\ image = [i \in 1 .. Size |-> image[i]]
          BY <1>3, <1>5
        <5> QED BY <4>2, <5>1, Zenon
      <4>4. Stored(eeprom') = myConfig BY <1>2, <4>3, StoredImage
      <4> QED BY <4>1, <4>4 DEF Complete
    <3> QED BY <3>1, <3>2
  <2> QED BY <2>6, <2>7, <2>8, <2>9 DEF IInv
<1> QED BY <1>2, <1>6, <1>7

(* lowapp_init, from what is stored. *)
LEMMA RestartLoads ==
  ASSUME IInv, Restart
  PROVE  LET m == Stored(eeprom)
             l == Loaded(Blank, m, FALSE)
         IN  /\ m \in Configs /\ IsNode(l) /\ InStep(l) /\ l.config = m
             /\ myConfig' = m
             /\ connected' = (m.preambleTime # 0 /\ CheckConfiguration(l))
             /\ IsNode(node') /\ InStep(node') /\ node'.config = m
             /\ written' = 0 /\ past' = {} /\ UNCHANGED <<eeprom, images>>
<1> DEFINE m == Stored(eeprom)
           l == Loaded(Blank, m, FALSE)
<1>1. m \in Configs BY StoredType DEF IInv, Typed
<1>2. IsNode(Blank) /\ Blank.config.preambleTime = 0 BY DEF IsNode, Blank
<1>3. /\ myConfig' = m
      /\ connected' = (m.preambleTime # 0 /\ CheckConfiguration(l))
      /\ node' = l \/ node' = [l EXCEPT !.cadTimer = l.cadInterval]
      /\ written' = 0 /\ past' = {} /\ UNCHANGED <<eeprom, images>>
  BY DEF Restart
<1> HIDE DEF m
<1>4. IsNode(l) BY <1>1, <1>2, BlankType, LoadedType
<1>5. InStep(l) /\ l.config = m BY <1>1, <1>2, BlankType, LoadedInStep
<1> HIDE DEF l
<1>6. IsNode(node') /\ InStep(node') /\ node'.config = m
  BY <1>3, <1>4, <1>5 DEF IsNode, InStep
<1> QED BY <1>1, <1>3, <1>4, <1>5, <1>6 DEF m, l

LEMMA RestartIInv ==
  ASSUME IInv, Restart
  PROVE  IInv'
<1> DEFINE m == Stored(eeprom)
           l == Loaded(Blank, m, FALSE)
<1>1. /\ m \in Configs /\ InStep(l) /\ l.config = m
      /\ myConfig' = m /\ connected' \in BOOLEAN
      /\ connected' => CheckConfiguration(l)
      /\ IsNode(node') /\ InStep(node') /\ node'.config = m
      /\ written' = 0 /\ past' = {} /\ UNCHANGED <<eeprom, images>>
  BY RestartLoads
<1> HIDE DEF m, l
<1>2. connected' => Usable(m) BY <1>1, CheckedIsUsable
<1>a. 0 \in 0 .. 2 * Size BY SizeType
<1>3. Typed' BY <1>1, <1>a DEF IInv, Typed
<1>4. Synced' BY <1>1, <1>2 DEF Synced
<1>5. Halfway' BY <1>1, SizeType DEF Halfway
<1>6. Recognised' BY <1>1 DEF IInv, Recognised, Refused
<1>7. Complete' BY <1>1 DEF IInv, Complete
<1> QED BY <1>3, <1>4, <1>5, <1>6, <1>7 DEF IInv

LEMMA NextIInv == IInv /\ [Next]_vars => IInv'
<1> SUFFICES ASSUME IInv, [Next]_vars PROVE IInv'
  OBVIOUS
<1>1. CASE UNCHANGED vars
  BY <1>1 DEF IInv, Typed, Synced, Halfway, Recognised, Complete, Refused, vars
<1> QED BY <1>1, SetIInv, ReadCfgIInv, WriteCfgIInv, ConnectIInv, WriteByteIInv,
           RestartIInv DEF Next, Command

LEMMA SpecIInv == Spec => []IInv
  BY InitIInv, NextIInv, PTL DEF Spec

(* A connected device has values check_attribute accepts, unless READCFG   *)
(* read a storage that was blank or half written.                          *)
THEOREM ConnectedHasUsable == Spec => []ConnectedIsUsable
<1>1. IInv => ConnectedIsUsable BY DEF IInv, Synced, ConnectedIsUsable
<1> QED BY <1>1, SpecIInv, PTL

(* The radio of a connected device has the settings of its configuration.  *)
THEOREM RadioHasSettings == Spec => []RadioFollows
<1>1. IInv => RadioFollows
  <2>1. 0 \notin LegalTimes BY WordIs
  <2> QED BY <2>1, LegalFields DEF IInv, Synced, InStep, RadioFollows, Usable
<1> QED BY <1>1, SpecIInv, PTL

(* A device boots with a configuration stored as a whole, but maybe for    *)
(* the end of its key, wherever the power failed; and with the last one    *)
(* that was completely stored, when it is legal.                           *)
THEOREM BootsWithWhole == Spec => BootsWhole
<1> DEFINE Whole ==
      Restart =>
        /\ connected' => \E c \in images : ButForKeyEnd(myConfig', c)
        /\ \A c \in images :
             images = {c} /\ Usable(c) => connected' /\ node'.config = c
<1>1. IInv /\ [Next]_vars => [Whole]_vars
  <2> SUFFICES ASSUME IInv, Restart
               PROVE  /\ connected' => \E c \in images : ButForKeyEnd(myConfig', c)
                      /\ \A c \in images :
                           images = {c} /\ Usable(c) => connected' /\ node'.config = c
    OBVIOUS
  <2> DEFINE m == Stored(eeprom)
             l == Loaded(Blank, m, FALSE)
  <2>1. /\ m \in Configs /\ l.config = m /\ myConfig' = m /\ node'.config = m
        /\ connected' = (m.preambleTime # 0 /\ CheckConfiguration(l))
    BY RestartLoads
  <2>2. connected' => \E c \in images : ButForKeyEnd(myConfig', c)
    <3> SUFFICES ASSUME connected' PROVE \E c \in images : ButForKeyEnd(myConfig', c)
      OBVIOUS
    <3>1. m.encKey # NoKey /\ m.deviceId \in LegalIds
      <4> HIDE DEF m, l
      <4> QED BY <2>1 DEF CheckConfiguration
    <3>2. m.deviceId = eeprom[1] /\ 0 \notin LegalIds BY DEF Stored, LegalIds
    <3>3. ~Refused(eeprom)
      BY <3>1, <3>2 DEF Refused
    <3> QED BY <2>1, <3>3 DEF IInv, Recognised
  <2>3. ASSUME NEW c \in images, images = {c}, Usable(c)
        PROVE  connected' /\ node'.config = c
    <3>1. m = c BY <2>3 DEF IInv, Complete
    <3> HIDE DEF m
    <3>2. c.preambleTime # 0
      <4>1. 0 \notin LegalTimes BY WordIs
      <4> QED BY <2>3, <4>1, LegalFields DEF Usable
    <3>3. l.preambleLen # 0
      <4> DEFINE a == Applied(Blank, m)
      <4>1. RadioChanged(Blank, m) BY <3>1, <3>2 DEF RadioChanged, Blank
      <4>2. l = Derived(a, FALSE) BY <3>1, <3>2, <4>1 DEF Loaded
      <4>3. IsNode(a)
        <5>1. IsNode(Blank)
          BY DEF Blank, IsNode
        <5> HIDE DEF m
        <5> QED BY <5>1, AppliedNode
      <4> HIDE DEF a
      <4>4. a.config = m
        <5>1. Derived(a, FALSE).config = a.config BY <4>3, DerivedFields
        <5>2. l.config = m BY <2>1
        <5> HIDE DEF l
        <5> QED BY <4>2, <5>1, <5>2
      <4>5. l.preambleLen = PreambleLength(m.preambleTime, m.rsf)
        BY <4>2, <4>3, <4>4, DerivedFields
      <4>6. m.preambleTime \in LegalTimes /\ m.rsf \in LegalFactors
        BY <2>3, <3>1, LegalFields DEF Usable
      <4> QED BY <4>5, <4>6, LengthNotNull
    <3> HIDE DEF l
    <3>4. CheckConfiguration(l)
      BY <2>1, <2>3, <3>1, <3>3, LegalFields DEF CheckConfiguration, Usable
    <3> QED BY <2>1, <3>1, <3>2, <3>4
  <2> QED BY <2>2, <2>3
<1> QED BY <1>1, SpecIInv, PTL DEF Spec, BootsWhole

-----------------------------------------------------------------------------

(***************************************************************************)
(* What the CAD timer rests on.  Every spreading factor that is stored,    *)
(* set or applied is 0 or legal, whatever was read or half written; and as *)
(* long as READCFG read a configuration, the derived values are those of   *)
(* the core's copy and the timer of a connected device is set to the       *)
(* interval derived.                                                       *)
(***************************************************************************)
Factor == {0} \union LegalFactors

(* The derived values are those of the configuration of n. *)
Worked(n) ==
  n.config.preambleTime # 0 =>
    /\ n.preambleLen = PreambleLength(n.config.preambleTime, n.config.rsf)
    /\ n.cadInterval = PreambleMs((n.preambleLen - 10) % 65536, n.config.rsf)

Tuned ==
  /\ eeprom[3] \in Factor /\ myConfig.rsf \in Factor /\ node.config.rsf \in Factor
  /\ node.preambleLen \in Word
  /\ past = {} => Worked(node)
  /\ connected => node.cadTimer = node.cadInterval

LEMMA ChipsOfFactor ==
  /\ \A rsf \in LegalFactors : Chips(rsf) \in {128, 256, 512, 1024, 2048, 4096}
  /\ Chips(0) = 1
<1>1. ASSUME NEW rsf \in LegalFactors
      PROVE  Chips(rsf) \in {128, 256, 512, 1024, 2048, 4096}
  <2>1. rsf \in {7, 8, 9, 10, 11, 12} BY DEF LegalFactors
  <2> QED BY <2>1 DEF Chips
<1>2. Chips(0) = 1 BY DEF Chips
<1> QED BY <1>1, <1>2

(* The length in symbols fits its 16 bits. *)
LEMMA LengthType ==
  ASSUME NEW ms \in Word, NEW rsf \in Factor
  PROVE  PreambleLength(ms, rsf) \in Word
<1> DEFINE n == (500 * ms - 17 * Chips(rsf)) \div (4 * Chips(rsf))
<1>1. ms \in Int BY WordIs
<1>2. n \in Int
  <2>1. ASSUME NEW c \in {1, 128, 256, 512, 1024, 2048, 4096}
        PROVE  (500 * ms - 17 * c) \div (4 * c) \in Int
    <3>1. CASE c = 1 BY <1>1, <3>1
    <3>2. CASE c = 128 BY <1>1, <3>2
    <3>3. CASE c = 256 BY <1>1, <3>3
    <3>4. CASE c = 512 BY <1>1, <3>4
    <3>5. CASE c = 1024 BY <1>1, <3>5
    <3>6. CASE c = 2048 BY <1>1, <3>6
    <3>7. CASE c = 4096 BY <1>1, <3>7
    <3> QED BY <2>1, <3>1, <3>2, <3>3, <3>4, <3>5, <3>6, <3>7
  <2>2. Chips(rsf) \in {1, 128, 256, 512, 1024, 2048, 4096} BY ChipsOfFactor DEF Factor
  <2> QED BY <2>1, <2>2
<1>3. PreambleLength(ms, rsf) = ((IF n >= 0 \/ Wraps THEN n % 65536 ELSE 0) + 10) % 65536
  BY DEF PreambleLength, PreambleSymbols
<1> HIDE DEF n
<1>4. ASSUME NEW x \in Int PROVE x % 65536 \in Int /\ x % 65536 \in Word
  <2>1. x % 65536 \in Int /\ 0 <= x % 65536 /\ x % 65536 <= 65535 OBVIOUS
  <2> QED BY <2>1, WordIs
<1>5. (IF n >= 0 \/ Wraps THEN n % 65536 ELSE 0) + 10 \in Int BY <1>2, <1>4
<1> QED BY <1>3, <1>4, <1>5

LEMMA DerivedTimer ==
  ASSUME NEW n, IsNode(n), NEW on \in BOOLEAN
  PROVE  LET d == Derived(n, on)
         IN  /\ d.cadInterval = PreambleMs((d.preambleLen - 10) % 65536, d.config.rsf)
             /\ d.cadTimer = IF on THEN d.cadInterval ELSE n.cadTimer
<1> DEFINE length == PreambleLength(n.config.preambleTime, n.config.rsf)
           interval == PreambleMs((length - 10) % 65536, n.config.rsf)
           modem == [rsf |-> n.config.rsf, preambleLen |-> length]
           timer == IF on THEN interval ELSE n.cadTimer
           d == [n EXCEPT !.preambleLen = length, !.cadInterval = interval,
                          !.modem = modem, !.cadTimer = timer]
<1>1. Derived(n, on) = d BY DEF Derived
<1>2. interval = PreambleMs((length - 10) % 65536, n.config.rsf) OBVIOUS
<1>3. timer = IF on THEN interval ELSE n.cadTimer OBVIOUS
<1> HIDE DEF length, interval, modem, timer
<1>4. d.config = n.config /\ d.preambleLen = length /\ d.cadInterval = interval
      /\ d.cadTimer = timer
  BY DEF IsNode
<1> QED BY <1>1, <1>2, <1>3, <1>4

(* load_full_config works the derived values out again when it must, and   *)
(* gives the timer of a connected device the new interval.                 *)
LEMMA LoadedTuned ==
  ASSUME NEW n, IsNode(n), n.config \in Configs, n.config.rsf \in Factor,
         n.preambleLen \in Word, NEW m \in Configs, m.rsf \in Factor,
         NEW on \in BOOLEAN, on => n.cadTimer = n.cadInterval
  PROVE  LET l == Loaded(n, m, on)
         IN  /\ l.config.rsf \in Factor /\ l.preambleLen \in Word
             /\ on => l.cadTimer = l.cadInterval
             /\ Worked(n) /\ (m.preambleTime = 0 => n.config.preambleTime = 0)
                  => Worked(l)
<1> DEFINE a == Applied(n, m)
<1>1. IsNode(a) BY AppliedNode
<1>2. /\ a.config.rsf = m.rsf
      /\ a.config.preambleTime =
           IF m.preambleTime = 0 THEN n.config.preambleTime ELSE m.preambleTime
      /\ a.preambleLen = n.preambleLen /\ a.cadInterval = n.cadInterval
      /\ a.cadTimer = n.cadTimer
  BY DEF Applied, IsNode, Configs
<1>3. n.config.preambleTime \in Word /\ m.preambleTime \in Word BY ConfigFields
<1>4. Loaded(n, m, on) = IF m.preambleTime # 0 /\ RadioChanged(n, m)
                         THEN Derived(a, on) ELSE a
  BY DEF Loaded
<1> HIDE DEF a
<1>5. CASE m.preambleTime # 0 /\ RadioChanged(n, m)
  <2> DEFINE d == Derived(a, on)
  <2>1. /\ d.config = a.config
        /\ d.preambleLen = PreambleLength(a.config.preambleTime, a.config.rsf)
    BY <1>1, DerivedFields
  <2>2. /\ d.cadInterval = PreambleMs((d.preambleLen - 10) % 65536, d.config.rsf)
        /\ on => d.cadTimer = d.cadInterval
    BY <1>1, DerivedTimer
  <2>3. Loaded(n, m, on) = d BY <1>4, <1>5
  <2> HIDE DEF d
  <2>4. d.preambleLen \in Word BY <2>1, <1>2, <1>3, LengthType
  <2> QED BY <2>1, <2>2, <2>3, <2>4, <1>2 DEF Worked
<1>6. CASE ~(m.preambleTime # 0 /\ RadioChanged(n, m))
  <2>1. Loaded(n, m, on) = a BY <1>4, <1>6
  <2>2. ASSUME Worked(n), m.preambleTime = 0 => n.config.preambleTime = 0
        PROVE  Worked(a)
    <3>1. CASE m.preambleTime = 0 BY <3>1, <2>2, <1>2 DEF Worked
    <3>2. CASE m.preambleTime # 0
      <4>1. m.rsf = n.config.rsf /\ m.preambleTime = n.config.preambleTime
        BY <3>2, <1>6 DEF RadioChanged
      <4> QED BY <4>1, <3>2, <2>2, <1>2 DEF Worked
    <3> QED BY <3>1, <3>2
  <2> QED BY <2>1, <2>2, <1>2
<1> QED BY <1>5, <1>6

LEMMA InitTuned == Init => Tuned
<1> SUFFICES ASSUME Init PROVE Tuned
  OBVIOUS
<1> DEFINE e == Stored(Erased)
<1>1. eeprom = Erased /\ myConfig = e /\ node = Loaded(Blank, e, FALSE) /\ connected = FALSE
  BY DEF Init
<1>2. e \in Configs BY ErasedType
<1>3. 1 \in 1 .. Size /\ 3 \in 1 .. Size /\ 4 \in 1 .. Size /\ 5 \in 1 .. Size BY SizeType
<1>4. Erased[3] = 0 /\ e.rsf = 0 /\ e.preambleTime = 0 BY <1>3 DEF Erased, Stored
<1>5. /\ IsNode(Blank) /\ Blank.preambleLen \in Word /\ Worked(Blank)
      /\ Blank.config.rsf = 0 /\ Blank.config.preambleTime = 0
  BY WordIs DEF IsNode, Blank, Worked
<1>6. Blank.config \in Configs BY BlankType
<1> HIDE DEF e
<1>7. 0 \in Factor BY DEF Factor
<1>8. node.config.rsf \in Factor /\ node.preambleLen \in Word /\ Worked(node)
  BY <1>1, <1>2, <1>4, <1>5, <1>6, <1>7, LoadedTuned
<1> QED BY <1>1, <1>4, <1>7, <1>8 DEF Tuned

LEMMA NewConfigsFactor ==
  ASSUME myConfig \in Configs, myConfig.rsf \in Factor, NEW m \in NewConfigs
  PROVE  m.rsf \in Factor
<1>1. CASE \E v \in DeviceIds : m = [myConfig EXCEPT !.deviceId = v] BY <1>1 DEF Configs
<1>2. CASE \E v \in Channels : m = [myConfig EXCEPT !.rchanId = v] BY <1>2 DEF Configs
<1>3. CASE \E v \in Factors : m = [myConfig EXCEPT !.rsf = v]
  BY <1>3, ConfigAssumption DEF Configs, Factor
<1>4. CASE \E v \in PreambleTimes : m = [myConfig EXCEPT !.preambleTime = v]
  BY <1>4 DEF Configs
<1>5. CASE \E v \in EncKeys : m = [myConfig EXCEPT !.encKey = v] BY <1>5 DEF Configs
<1> QED BY <1>1, <1>2, <1>3, <1>4, <1>5 DEF NewConfigs

LEMMA StoredFactor ==
  ASSUME NEW bytes \in [1 .. Size -> Byte]
  PROVE  Stored(bytes).rsf = bytes[3]
  BY DEF Stored

LEMMA NextTuned == IInv /\ Tuned /\ [Next]_vars => Tuned'
<1> SUFFICES ASSUME IInv, Tuned, [Next]_vars PROVE Tuned'
  OBVIOUS
<1>1. /\ eeprom \in [1 .. Size -> Byte] /\ myConfig \in Configs /\ IsNode(node)
      /\ node.config \in Configs /\ connected \in BOOLEAN
      /\ past = {} => node.config = myConfig
  BY DEF IInv, Typed, Synced
<1>2. CASE UNCHANGED vars BY <1>2 DEF Tuned, Worked, vars
<1>3. CASE CmdSet
  <2>1. PICK m \in NewConfigs : myConfig' = m /\ node' = Loaded(node, m, connected)
    BY <1>3 DEF CmdSet
  <2>2. UNCHANGED <<eeprom, connected, past>> BY <1>3 DEF CmdSet
  <2>3. m \in Configs /\ (m.preambleTime = 0 => myConfig.preambleTime = 0)
    BY <1>1, NewConfigsType
  <2>4. m.rsf \in Factor BY <1>1, NewConfigsFactor DEF Tuned
  <2>5. /\ node'.config.rsf \in Factor /\ node'.preambleLen \in Word
        /\ connected => node'.cadTimer = node'.cadInterval
        /\ past = {} => Worked(node')
    BY <1>1, <2>1, <2>3, <2>4, LoadedTuned DEF Tuned
  <2> QED BY <2>1, <2>2, <2>4, <2>5 DEF Tuned, Worked
<1>4. CASE CmdReadCfg
  <2> DEFINE m == Stored(eeprom)
  <2>1. /\ myConfig' = m /\ node' = Loaded(node, m, connected)
        /\ past' = {} => past = {} /\ Usable(m)
        /\ UNCHANGED <<eeprom, connected>>
    BY <1>4 DEF CmdReadCfg
  <2>2. m \in Configs /\ m.rsf \in Factor BY <1>1, StoredType, StoredFactor DEF Tuned
  <2> HIDE DEF m
  <2>3. Usable(m) => m.preambleTime # 0
    <3>1. 0 \notin LegalTimes BY WordIs
    <3> QED BY <3>1, LegalFields DEF Usable
  <2>4. /\ node'.config.rsf \in Factor /\ node'.preambleLen \in Word
        /\ connected => node'.cadTimer = node'.cadInterval
        /\ past' = {} => Worked(node')
    BY <1>1, <2>1, <2>2, <2>3, LoadedTuned DEF Tuned
  <2> QED BY <2>1, <2>2, <2>4 DEF Tuned, Worked
<1>5. CASE CmdWriteCfg BY <1>5 DEF CmdWriteCfg, Tuned, Worked
<1>6. CASE CmdConnect
  <2>1. /\ UNCHANGED <<eeprom, myConfig, past>>
        /\ node' = [node EXCEPT !.cadTimer = node.cadInterval]
    BY <1>6 DEF CmdConnect
  <2>2. /\ node'.config = node.config /\ node'.preambleLen = node.preambleLen
        /\ node'.cadInterval = node.cadInterval /\ node'.cadTimer = node.cadInterval
    BY <1>1, <2>1 DEF IsNode
  <2> QED BY <2>1, <2>2 DEF Tuned, Worked
<1>7. CASE CmdDisconnect
  <2>1. /\ UNCHANGED <<eeprom, myConfig, past>> /\ connected' = FALSE
        /\ node' = [node EXCEPT !.cadTimer = 0]
    BY <1>7 DEF CmdDisconnect
  <2>2. /\ node'.config = node.config /\ node'.preambleLen = node.preambleLen
        /\ node'.cadInterval = node.cadInterval
    BY <1>1, <2>1 DEF IsNode
  <2> QED BY <2>1, <2>2 DEF Tuned, Worked
<1>8. CASE WriteByte
  <2>1. UNCHANGED <<myConfig, node, connected, past>> BY <1>8 DEF WriteByte
  <2>2. 3 \in 1 .. Size BY SizeType
  <2>3. Image(myConfig)[3] = myConfig.rsf BY <1>1, ImageBytes
  <2>4. eeprom'[3] \in {0, eeprom[3], Image(myConfig)[3]}
    <3>1. CASE Erases
      <4>1. eeprom' = [eeprom EXCEPT ![written] = 0] BY <1>8, <3>1 DEF WriteByte
      <4> QED BY <1>1, <2>2, <4>1
    <3>2. CASE ~Erases
      <4> DEFINE k == written - Size
      <4>1. eeprom' = [eeprom EXCEPT ![k] = Image(myConfig)[k]]
        BY <1>8, <3>2 DEF WriteByte
      <4> HIDE DEF k
      <4> QED BY <1>1, <2>2, <4>1
    <3> QED BY <3>1, <3>2
  <2>5. eeprom'[3] \in Factor BY <2>3, <2>4 DEF Tuned, Factor
  <2> QED BY <2>1, <2>5 DEF Tuned, Worked
<1>9. CASE CadExpires
  <2>1. /\ UNCHANGED <<eeprom, myConfig, connected, past>>
        /\ node' = [node EXCEPT !.cadTimer = node.cadInterval]
    BY <1>9 DEF CadExpires
  <2>2. /\ node'.config = node.config /\ node'.preambleLen = node.preambleLen
        /\ node'.cadInterval = node.cadInterval /\ node'.cadTimer = node.cadInterval
    BY <1>1, <2>1 DEF IsNode
  <2> QED BY <2>1, <2>2 DEF Tuned, Worked
<1>10. CASE Restart
  <2> DEFINE m == Stored(eeprom)
             l == Loaded(Blank, m, FALSE)
  <2>1. /\ myConfig' = m /\ UNCHANGED eeprom /\ connected' \in BOOLEAN
        /\ node' = IF connected' THEN [l EXCEPT !.cadTimer = l.cadInterval] ELSE l
    BY <1>10 DEF Restart
  <2>2. m \in Configs /\ m.rsf \in Factor BY <1>1, StoredType, StoredFactor DEF Tuned
  <2> HIDE DEF m
  <2>3. /\ IsNode(Blank) /\ Blank.preambleLen \in Word /\ Worked(Blank)
        /\ Blank.config.rsf = 0 /\ Blank.config.preambleTime = 0
    BY WordIs DEF IsNode, Blank, Worked
  <2>4. Blank.config \in Configs BY BlankType
  <2>5. 0 \in Factor BY DEF Factor
  <2>6. l.config.rsf \in Factor /\ l.preambleLen \in Word /\ Worked(l)
    BY <2>2, <2>3, <2>4, <2>5, LoadedTuned
  <2>7. IsNode(l) BY <2>2, <2>3, <2>4, LoadedType
  <2> HIDE DEF l
  <2>8. /\ node'.config = l.config /\ node'.preambleLen = l.preambleLen
        /\ node'.cadInterval = l.cadInterval
        /\ connected' => node'.cadTimer = node'.cadInterval
    BY <2>1, <2>7 DEF IsNode
  <2> QED BY <2>1, <2>2, <2>6, <2>8 DEF Tuned, Worked
<1> QED BY <1>2, <1>3, <1>4, <1>5, <1>6, <1>7, <1>8, <1>9, <1>10 DEF Next, Command

LEMMA SpecTuned == Spec => [](IInv /\ Tuned)
  BY InitTuned, NextTuned, InitIInv, NextIInv, PTL DEF Spec

(* Every stored byte is a byte, no write goes past the last one, and the   *)
(* derived length of the preamble fits its 16 bits.                        *)
THEOREM ConfigTypeCorrect == Spec => []TypeOK
<1>1. IInv /\ Tuned => TypeOK
  BY StoredImage DEF IInv, Typed, Tuned, TypeOK
<1> QED BY <1>1, SpecTuned, PTL

(* The interval between two CADs is at most the time the preamble lasts,   *)
(* which is 10 symbols longer than what it was worked out from.            *)
LEMMA IntervalInPreamble ==
  ASSUME NEW ms \in LegalTimes, NEW rsf \in LegalFactors,
         Wraps => 500 * ms >= 17 * Chips(rsf),
         NEW length, length = PreambleLength(ms, rsf)
  PROVE  PreambleMs((length - 10) % 65536, rsf) \in 1 .. PreambleMs(length, rsf)
<1>1. ms \in Int /\ 1 <= ms /\ ms <= 65535 BY WordIs
<1> DEFINE n == (500 * ms - 17 * Chips(rsf)) \div (4 * Chips(rsf))
<1>2. n \in Int /\ n <= 65000 /\ (Wraps => 0 <= n)
  <2>1. ASSUME NEW c \in {128, 256, 512, 1024, 2048, 4096}
        PROVE  /\ (500 * ms - 17 * c) \div (4 * c) \in Int
               /\ (500 * ms - 17 * c) \div (4 * c) <= 65000
               /\ 500 * ms >= 17 * c => 0 <= (500 * ms - 17 * c) \div (4 * c)
    <3>1. CASE c = 128 BY <1>1, <3>1
    <3>2. CASE c = 256 BY <1>1, <3>2
    <3>3. CASE c = 512 BY <1>1, <3>3
    <3>4. CASE c = 1024 BY <1>1, <3>4
    <3>5. CASE c = 2048 BY <1>1, <3>5
    <3>6. CASE c = 4096 BY <1>1, <3>6
    <3> QED BY <3>1, <3>2, <3>3, <3>4, <3>5, <3>6
  <2> QED BY <2>1, ChipsOfFactor
<1> DEFINE s == PreambleSymbols(ms, rsf)
<1>3. s = (IF n >= 0 \/ Wraps THEN n % 65536 ELSE 0) BY DEF PreambleSymbols
<1> HIDE DEF n, s
<1>4. s \in Int /\ 0 <= s /\ s <= 65000 BY <1>2, <1>3
<1>5. length = s + 10 /\ (length - 10) % 65536 = s
  <2>1. length = (s + 10) % 65536 BY DEF PreambleLength, s
  <2> QED BY <1>4, <2>1
<1>6. ASSUME NEW c \in {128, 256, 512, 1024, 2048, 4096}
      PROVE  ((4 * s + 17) * c) \div 500 \in 1 .. ((4 * (s + 10) + 17) * c) \div 500
  <2>1. CASE c = 128 BY <1>4, <2>1
  <2>2. CASE c = 256 BY <1>4, <2>2
  <2>3. CASE c = 512 BY <1>4, <2>3
  <2>4. CASE c = 1024 BY <1>4, <2>4
  <2>5. CASE c = 2048 BY <1>4, <2>5
  <2>6. CASE c = 4096 BY <1>4, <2>6
  <2> QED BY <2>1, <2>2, <2>3, <2>4, <2>5, <2>6
<1> QED BY <1>5, <1>6, ChipsOfFactor DEF PreambleMs

LEMMA TunedCatches ==
  ASSUME IInv, Tuned, connected, past = {},
         Wraps => 500 * node.config.preambleTime >= 17 * Chips(node.config.rsf)
  PROVE  node.cadTimer \in 1 .. PreambleMs(node.preambleLen, node.config.rsf)
<1> DEFINE c == node.config
<1>1. c.preambleTime \in LegalTimes /\ c.rsf \in LegalFactors
  BY LegalFields DEF IInv, Synced, Usable
<1>2. c.preambleTime # 0
  <2>1. 0 \notin LegalTimes BY WordIs
  <2> QED BY <1>1, <2>1
<1>3. /\ node.preambleLen = PreambleLength(c.preambleTime, c.rsf)
      /\ node.cadTimer = PreambleMs((node.preambleLen - 10) % 65536, c.rsf)
  BY <1>2 DEF Tuned, Worked
<1>4. Wraps => 500 * c.preambleTime >= 17 * Chips(c.rsf) OBVIOUS
<1> HIDE DEF c
<1>5. node.cadTimer \in 1 .. PreambleMs(node.preambleLen, c.rsf)
  BY <1>1, <1>3, <1>4, IntervalInPreamble
<1> QED BY <1>5 DEF c

(* Where a negative double is converted to 0, a connected device looks for *)
(* a preamble in the time a peer sends one, whatever its spreading factor, *)
(* its preamble time and the order in which they were set.                 *)
THEOREM CadCatches == ~Wraps => (Spec => []CadCatchesPreamble)
<1> SUFFICES ASSUME ~Wraps PROVE Spec => []CadCatchesPreamble
  OBVIOUS
<1>1. IInv /\ Tuned => CadCatchesPreamble BY TunedCatches DEF CadCatchesPreamble
<1> QED BY <1>1, SpecTuned, PTL

(* Where it wraps, the same holds of the preamble times of 4.25 symbols    *)
(* and more: the others are not converted from a negative number.          *)
LongPreamblesCaught ==
  500 * node.config.preambleTime >= 17 * Chips(node.config.rsf) => CadCatchesPreamble

(* Whatever a negative double is converted to, a connected device catches  *)
(* the preambles of 4.25 symbols and more.                                 *)
THEOREM CadCatchesLong == Spec => []LongPreamblesCaught
<1>1. ASSUME IInv, Tuned PROVE LongPreamblesCaught
  BY <1>1, TunedCatches DEF CadCatchesPreamble, LongPreamblesCaught
<1> QED BY <1>1, SpecTuned, PTL
=============================================================================
