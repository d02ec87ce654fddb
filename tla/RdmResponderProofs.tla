------------------------- MODULE RdmResponderProofs -------------------------
(***************************************************************************)
(* Theorems about the responder's parameters, for any firmwares, requests  *)
(* and settings and any number of restarts: what is staged is counted and  *)
(* stored, a restart finds what was set, and the controller is told of     *)
(* every change that an answer was not lost of.                            *)
(***************************************************************************)
EXTENDS RdmResponder, TLAPS, FiniteSetTheorems, SequenceTheorems, WellFoundedInduction

\* Parameters with a cell of their own in memory that the proofs look at.
Own == NonVolatile \cup {"DMX_PERSONALITY_DESCRIPTION"}

Needed == NonVolatile \cup {"DISC_MUTE", "DMX_PERSONALITY_DESCRIPTION"}

Pids == DOMAIN Definitions

Entries(d) == [pid : Pids, type : {"STATIC", "DYNAMIC", "NON_VOLATILE", "STAGED"},
               cell : DOMAIN d.memory]

IsDevice(d) ==
  /\ d = [table |-> d.table, memory |-> d.memory]
  /\ d.memory = [c \in DOMAIN d.memory |-> d.memory[c]]
  /\ d.table \in Seq(Entries(d))

\* An entry for each parameter, a cell for each of Own, and the types that are
\* staged are those of the non-volatile parameters.
Registered(d) ==
  /\ \A i, j \in DOMAIN d.table : d.table[i].pid = d.table[j].pid => i = j
  /\ \A i \in DOMAIN d.table :
       /\ d.table[i].pid \in Own \/ d.table[i].cell \in Own => d.table[i].cell = d.table[i].pid
       /\ d.table[i].type \in {"NON_VOLATILE", "STAGED"} <=> d.table[i].pid \in NonVolatile
  /\ \A c \in Own \cap DOMAIN d.memory : Exists(d, c)

WellFormed(d) == IsDevice(d) /\ Registered(d)

\* What a firmware finds in the cells of Own when it starts.
Starts(n, f) ==
  [p \in Own |-> IF p = "DMX_PERSONALITY_DESCRIPTION" THEN f
                 ELSE IF p \in DOMAIN n /\ IsUsable(p, n[p], f) THEN n[p] ELSE StartsFrom(p, f)]

\* Values that a parameter may have.
Possible(p) == Sets(p) \cup {StartsFrom(p, f) : f \in Firmwares}

DeviceGood(d) ==
  /\ WellFormed(d)
  /\ \A p \in Needed : Exists(d, p)
  /\ \A p \in NonVolatile : d.memory[p] \in Possible(p)
  /\ \E f \in Firmwares : /\ d.memory["DMX_PERSONALITY_DESCRIPTION"] = f
                          /\ d.memory["DMX_PERSONALITY"] \in {<<n, Len(f)>> : n \in 1..Len(f)}

DeviceInv == DeviceGood(device) /\ staged = Cardinality(StagedAt(device))

StoredInv ==
  /\ DOMAIN nvs \subseteq NonVolatile
  /\ \A p \in DOMAIN nvs : nvs[p] \in Possible(p)
  /\ unsaved \subseteq NonVolatile /\ lost \subseteq unsaved

\* What a task that was interrupted has copied is still true.
BusInv ==
  /\ bus = [at |-> bus.at, req |-> bus.req, kind |-> bus.kind, pid |-> bus.pid,
            value |-> bus.value]
  /\ bus.at \in {"receive", "respond", "popped", "personality", "unmute", "send",
                 "commit", "write"}
  /\ bus.at \in {"respond", "personality", "unmute"} => bus.req \in Requests
  /\ bus.at \in {"popped", "write"} => bus.pid \in NonVolatile
  /\ bus.at = "personality" =>
       /\ bus.value[2] = PersonalityCount(device)
       /\ bus.req.data \in 1..PersonalityCount(device)
  /\ bus.at = "unmute" => bus.req.pid = "RESET_DEVICE" /\ bus.req.data # NoData

AppInv ==
  /\ app = [at |-> app.at, pid |-> app.pid, value |-> app.value]
  /\ app.at \in {"idle", "personality", "push"}
  /\ app.at # "idle" => app.pid \in NonVolatile
  /\ app.at = "personality" =>
       /\ app.pid = "DMX_PERSONALITY"
       /\ app.value \in {<<n, PersonalityCount(device)>> : n \in 1..PersonalityCount(device)}

QueueInv == waiting \in Seq(NonVolatile)

BoundsInv == bootLoader \in BOOLEAN /\ restarts \in 0..MaxRestarts /\ changes \in 0..MaxChanges

\* The controller will hear of the parameter, or an answer was lost.
Announced(p) == Waits(p) \/ p \in missed \/ (app.at = "push" /\ app.pid = p)

Told(p) == seen[p] = device.memory[p] \/ Announced(p)

\* The answer that the responder is writing tells of the value.
Telling(p) ==
  \/ bus.at = "popped" /\ bus.pid = p
  \/ bus.at = "send" /\ bus.kind = "ack" /\ bus.pid = p /\ bus.value # NoData
  \/ bus.at = "unmute" /\ p = "RESET_DEVICE"

\* The answer is about the value there is, or there will be another.
Fresh(p) ==
  /\ bus.at = "send" /\ bus.kind = "ack" /\ bus.pid = p /\ bus.value # NoData =>
       bus.value = device.memory[p] \/ Announced(p)
  /\ bus.at = "unmute" /\ p = "RESET_DEVICE" =>
       bus.req.data = device.memory[p] \/ Announced(p)

LearnInv ==
  /\ seen = [p \in NonVolatile |-> seen[p]]
  /\ \A p \in NonVolatile : (Told(p) \/ Telling(p)) /\ Fresh(p)

-----------------------------------------------------------------------------
(* Tables *)

\* The parameters there are, and which handlers they have.
LEMMA Handlers ==
  /\ Own \subseteq Pids
  /\ {"DISC_UNIQUE_BRANCH", "DISC_MUTE", "DISC_UN_MUTE", "SOFTWARE_VERSION_LABEL",
      "MANUFACTURER_LABEL", "DEVICE_MODEL_DESCRIPTION", "DEVICE_INFO", "LANGUAGE",
      "SUPPORTED_PARAMETERS", "PARAMETER_DESCRIPTION", "QUEUED_MESSAGE"} \subseteq Pids
  /\ \A p \in Pids :
       /\ Definitions[p].set = "simple" => p \in NonVolatile \ {"DMX_PERSONALITY", "RESET_DEVICE"}
       /\ Definitions[p].set = "personality" => p = "DMX_PERSONALITY"
       /\ Definitions[p].set = "reset" => p = "RESET_DEVICE"
       /\ Definitions[p].set = "language" => p = "LANGUAGE"
       /\ Definitions[p].get = "personality_description" => p = "DMX_PERSONALITY_DESCRIPTION"
       /\ Definitions[p].get = "discovery" =>
            p \in {"DISC_UNIQUE_BRANCH", "DISC_MUTE", "DISC_UN_MUTE"}
BY DEF Pids, Definitions, Def, Own, NonVolatile

\* What an entry is made of.
LEMMA EntryTypes ==
  ASSUME NEW d, WellFormed(d)
  PROVE  /\ Len(d.table) \in Nat /\ DOMAIN d.table = 1..Len(d.table)
         /\ \A i \in DOMAIN d.table :
              /\ d.table[i] \in Entries(d)
              /\ d.table[i].pid \in Pids /\ d.table[i].cell \in DOMAIN d.memory
              /\ d.table[i].type \in {"STATIC", "DYNAMIC", "NON_VOLATILE", "STAGED"}
<1>1. d.table \in Seq(Entries(d))
  BY DEF WellFormed, IsDevice
<1>2. Len(d.table) \in Nat /\ DOMAIN d.table = 1..Len(d.table)
      /\ \A i \in DOMAIN d.table : d.table[i] \in Entries(d)
  BY <1>1
<1>3. QED
  BY <1>2 DEF Entries

\* The entry of a parameter is found, and no other.
LEMMA EntryFound ==
  ASSUME NEW d, WellFormed(d), NEW p
  PROVE  /\ Exists(d, p) => /\ Entry(d, p) \in DOMAIN d.table
                            /\ d.table[Entry(d, p)].pid = p
                            /\ p \in Pids
         /\ \A i \in DOMAIN d.table : d.table[i].pid = p => Exists(d, p) /\ i = Entry(d, p)
<1>1. DOMAIN d.table = 1..Len(d.table)
      /\ \A i \in DOMAIN d.table : d.table[i].pid \in Pids
  BY EntryTypes
<1>2. Entry(d, p) # 0 => Entry(d, p) \in DOMAIN d.table /\ d.table[Entry(d, p)].pid = p
  BY DEF Entry
<1>3. ASSUME NEW i \in DOMAIN d.table, d.table[i].pid = p
      PROVE  Entry(d, p) # 0
  BY <1>1, <1>3 DEF Entry
<1>4. \A i, j \in DOMAIN d.table : d.table[i].pid = d.table[j].pid => i = j
  BY DEF WellFormed, Registered
<1>5. QED
  BY <1>1, <1>2, <1>3, <1>4 DEF Exists

\* A parameter of Own has a cell with its own name.
LEMMA OwnCell ==
  ASSUME NEW d, WellFormed(d), NEW p \in Own, Exists(d, p)
  PROVE  Cell(d, p) = p /\ p \in DOMAIN d.memory /\ Value(d, p) = d.memory[p]
<1>1. Entry(d, p) \in DOMAIN d.table /\ d.table[Entry(d, p)].pid = p
  BY EntryFound
<1>2. d.table[Entry(d, p)].cell = p
  BY <1>1 DEF WellFormed, Registered
<1>3. d.table[Entry(d, p)].cell \in DOMAIN d.memory
  BY <1>1, EntryTypes
<1>4. QED
  BY <1>2, <1>3 DEF Cell, Value

-----------------------------------------------------------------------------
(* Installation *)

\* Two devices with the same table, the one without staged parameters and with
\* v in its cells of Own: what is registered does not depend on what is stored.
Built(d, e, v) ==
  /\ WellFormed(d) /\ StagedAt(d) = {} /\ e.table = d.table
  /\ \A p \in Own : Exists(d, p) => d.memory[p] = v[p]

LEMMA WiderSeq ==
  ASSUME NEW S, NEW T, S \subseteq T, NEW s \in Seq(S), NEW x \in T
  PROVE  Append(s, x) \in Seq(T)
<1>1. \A i \in 1..Len(s) : s[i] \in T
  OBVIOUS
<1>2. s \in Seq(T)
  BY <1>1
<1>3. QED
  BY <1>2

\* Registering a parameter in both keeps them so.
LEMMA AddBuilt ==
  ASSUME NEW d, NEW e, NEW v, Built(d, e, v),
         NEW pid \in Pids, NEW type \in {"STATIC", "DYNAMIC", "NON_VOLATILE"}, NEW cell,
         NEW x, NEW y,
         type = "NON_VOLATILE" <=> pid \in NonVolatile,
         pid \in Own \/ cell \in Own => cell = pid,
         pid \in Own => x = v[pid]
  PROVE  /\ Built(Add(d, pid, type, cell, x), Add(e, pid, type, cell, y), v)
         /\ pid # "DMX_PERSONALITY" /\ ~Exists(d, "DMX_PERSONALITY") =>
              ~Exists(Add(d, pid, type, cell, x), "DMX_PERSONALITY")
<1>1. \A p : Exists(e, p) <=> Exists(d, p)
  BY DEF Exists, Entry, Built
<1>2. CASE Exists(d, pid) \/ Len(d.table) = RootParams
  BY <1>1, <1>2 DEF Add, Built
<1>3. CASE ~Exists(d, pid) /\ Len(d.table) # RootParams
  <2> DEFINE new == [pid |-> pid, type |-> type, cell |-> cell]
             memory_ == IF cell \in DOMAIN d.memory THEN d.memory ELSE With(d.memory, cell, x)
             table_ == Append(d.table, new)
             D == [table |-> table_, memory |-> memory_]
  <2>1. /\ Add(d, pid, type, cell, x) = D
        /\ Add(e, pid, type, cell, y).table = table_
    BY <1>1, <1>3 DEF Add, Built
  <2>2. WellFormed(d) /\ StagedAt(d) = {}
    BY DEF Built
  <2>3. /\ Len(d.table) \in Nat /\ DOMAIN d.table = 1..Len(d.table)
        /\ d.table \in Seq(Entries(d))
    BY <2>2, EntryTypes DEF WellFormed, IsDevice
  <2>4. /\ DOMAIN memory_ = DOMAIN d.memory \cup {cell}
        /\ memory_ = [c \in DOMAIN memory_ |-> memory_[c]]
        /\ \A c \in DOMAIN d.memory : memory_[c] = d.memory[c]
        /\ cell \notin DOMAIN d.memory => memory_[cell] = x
    BY <2>2 DEF With, WellFormed, IsDevice
  <2> HIDE DEF memory_
  <2>5. D.table = table_ /\ D.memory = memory_
    OBVIOUS
  <2>6. table_ \in Seq(Entries(D))
    <3>1. Entries(d) \subseteq Entries(D) /\ new \in Entries(D)
      BY <2>4 DEF Entries
    <3> HIDE DEF new, D
    <3>2. Append(d.table, new) \in Seq(Entries(D))
      BY <2>3, <3>1, WiderSeq
    <3>3. QED
      BY <3>2
  <2>7. /\ DOMAIN table_ = 1..Len(d.table) + 1
        /\ table_[Len(d.table) + 1] = new
        /\ \A i \in 1..Len(d.table) : table_[i] = d.table[i]
    BY <2>3
  <2> HIDE DEF table_
  <2>8. \A i \in 1..Len(d.table) : d.table[i].pid # pid
    BY <1>3, <2>2, <2>3, EntryFound
  <2>9. \A p : Exists(D, p) <=> Exists(d, p) \/ p = pid
    <3>1. \A p : Exists(D, p) <=> \E i \in DOMAIN table_ : table_[i].pid = p
      BY <2>3, <2>7 DEF Exists, Entry
    <3>2. \A p : Exists(d, p) <=> \E i \in DOMAIN d.table : d.table[i].pid = p
      BY <2>3 DEF Exists, Entry
    <3> HIDE DEF D
    <3>3. new.pid = pid
      OBVIOUS
    <3> HIDE DEF new
    <3>4. DOMAIN table_ = DOMAIN d.table \cup {Len(d.table) + 1}
      BY <2>3, <2>7
    <3>5. \A i \in DOMAIN d.table : table_[i].pid = d.table[i].pid
      BY <2>3, <2>7
    <3>6. table_[Len(d.table) + 1].pid = pid
      BY <2>7, <3>3
    <3>7. QED
      BY <3>1, <3>2, <3>4, <3>5, <3>6, Zenon
  <2> HIDE DEF D
  <2>10. IsDevice(D)
    BY <2>4, <2>5, <2>6 DEF IsDevice, D
  <2>11. Registered(D)
    <3>1. ASSUME NEW i \in DOMAIN table_, NEW j \in DOMAIN table_, table_[i].pid = table_[j].pid
          PROVE  i = j
      BY <2>2, <2>3, <2>7, <2>8, <3>1 DEF WellFormed, Registered
    <3>2. ASSUME NEW i \in DOMAIN table_
          PROVE  /\ table_[i].pid \in Own \/ table_[i].cell \in Own => table_[i].cell = table_[i].pid
                 /\ table_[i].type \in {"NON_VOLATILE", "STAGED"} <=> table_[i].pid \in NonVolatile
      <4>1. CASE i = Len(d.table) + 1
        BY <2>7, <4>1
      <4>2. CASE i \in 1..Len(d.table)
        BY <2>2, <2>3, <2>7, <4>2 DEF WellFormed, Registered
      <4>3. QED
        BY <2>3, <2>7, <3>2, <4>1, <4>2
    <3>3. \A c \in Own \cap DOMAIN memory_ : Exists(D, c)
      BY <2>2, <2>4, <2>9 DEF WellFormed, Registered
    <3>4. QED
      BY <2>5, <3>1, <3>2, <3>3 DEF Registered
  <2>12. StagedAt(D) = {}
    BY <2>2, <2>3, <2>5, <2>7 DEF StagedAt
  <2>13. ASSUME NEW p \in Own, Exists(D, p)
         PROVE  memory_[p] = v[p]
    <3>1. CASE p = pid
      <4>1. cell = pid /\ x = v[pid] /\ cell \notin DOMAIN d.memory
        BY <1>3, <2>2, <2>13, <3>1 DEF WellFormed, Registered
      <4>2. QED
        BY <2>4, <3>1, <4>1
    <3>2. CASE p # pid
      <4>1. Exists(d, p)
        BY <2>9, <2>13, <3>2
      <4>2. p \in DOMAIN d.memory /\ d.memory[p] = v[p]
        BY <2>2, <2>13, <4>1, OwnCell DEF Built
      <4>3. QED
        BY <2>4, <4>2
    <3>3. QED
      BY <3>1, <3>2
  <2>14. QED
    BY <2>1, <2>5, <2>9, <2>10, <2>11, <2>12, <2>13 DEF Built, WellFormed
<1>4. QED
  BY <1>2, <1>3

\* The cell of the mute flag is not one of Own.
LEMMA SharedCell ==
  ASSUME NEW d, NEW e, NEW v, Built(d, e, v), NEW p, p \notin Own, Exists(d, p)
  PROVE  Cell(e, p) = Cell(d, p) /\ Cell(d, p) \notin Own
<1>1. Cell(e, p) = Cell(d, p)
  BY DEF Cell, Entry, Built
<1>2. Entry(d, p) \in DOMAIN d.table /\ d.table[Entry(d, p)].pid = p
  BY EntryFound DEF Built
<1>3. QED
  BY <1>1, <1>2 DEF Cell, Built, WellFormed, Registered

\* What a parameter without stored value, or whose stored value is used, has.
LEMMA StartValues ==
  ASSUME NEW n, NEW f \in Firmwares
  PROVE  /\ Starts(n, f)["DMX_PERSONALITY"] = PersonalityAtStart(n, Len(f))
         /\ Starts(n, f)["DMX_PERSONALITY_DESCRIPTION"] = f
         /\ Starts(n, f)["DMX_START_ADDRESS"] = Loaded(n, "DMX_START_ADDRESS", 1)
         /\ Starts(n, f)["DEVICE_HOURS"] = Loaded(n, "DEVICE_HOURS", 0)
         /\ Starts(n, f)["LAMP_HOURS"] = Loaded(n, "LAMP_HOURS", 0)
         /\ Starts(n, f)["IDENTIFY_DEVICE"] = 0 /\ Starts(n, f)["RESET_DEVICE"] = 0
         /\ Starts(n, f)["DEVICE_LABEL"] = ""
<1>1. \A p \in Own : Starts(n, f)[p] =
        IF p = "DMX_PERSONALITY_DESCRIPTION" THEN f
        ELSE IF p \in DOMAIN n /\ IsUsable(p, n[p], f) THEN n[p] ELSE StartsFrom(p, f)
  BY DEF Starts
<1>2. /\ Starts(n, f)["DMX_PERSONALITY_DESCRIPTION"] = f
      /\ \A p \in NonVolatile : Starts(n, f)[p] =
           IF p \in DOMAIN n /\ IsUsable(p, n[p], f) THEN n[p] ELSE StartsFrom(p, f)
  BY <1>1 DEF Own, NonVolatile
<1>3. Starts(n, f)["DMX_PERSONALITY"] = PersonalityAtStart(n, Len(f))
  BY <1>2 DEF NonVolatile, IsUsable, Kept, StartsFrom, PersonalityAtStart, Loaded
<1>4. QED
  BY <1>2, <1>3 DEF NonVolatile, IsUsable, Kept, StartsFrom, Loaded

\* A firmware starts from what is stored, whatever that is, and registers the
\* same parameters.
LEMMA InstalledBuilt ==
  ASSUME NEW n, NEW f \in Firmwares
  PROVE  /\ Built(Installed(n, f), Installed(<<>>, f), Starts(n, f))
         /\ \A p \in Needed : Exists(Installed(n, f), p)
<1> DEFINE v == Starts(n, f)
           d1 == RegisterDiscUniqueBranch(Empty)
           e1 == RegisterDiscUniqueBranch(Empty)
           d2 == RegisterDiscMute(d1)
           e2 == RegisterDiscMute(e1)
           d3 == RegisterDiscUnMute(d2)
           e3 == RegisterDiscUnMute(e2)
           d4 == RegisterDeviceInfo(d3)
           e4 == RegisterDeviceInfo(e3)
           d5 == RegisterSoftwareVersionLabel(d4)
           e5 == RegisterSoftwareVersionLabel(e4)
           d6 == RegisterIdentifyDevice(d5)
           e6 == RegisterIdentifyDevice(e5)
           d7 == RegisterDmxStartAddress(d6, n)
           e7 == RegisterDmxStartAddress(e6, <<>>)
           d8 == RegisterQueuedMessage(d7)
           e8 == RegisterQueuedMessage(e7)
           d9 == RegisterManufacturerLabel(d8)
           e9 == RegisterManufacturerLabel(e8)
           d10 == RegisterDmxPersonality(d9, n, Len(f))
           e10 == RegisterDmxPersonality(e9, <<>>, Len(f))
           d11 == RegisterDmxPersonalityDescription(d10, f)
           e11 == RegisterDmxPersonalityDescription(e10, f)
           d12 == RegisterDeviceLabel(d11)
           e12 == RegisterDeviceLabel(e11)
           d13 == RegisterSupportedParameters(d12)
           e13 == RegisterSupportedParameters(e12)
           d14 == RegisterParameterDescription(d13)
           e14 == RegisterParameterDescription(e13)
           d15 == RegisterResetDevice(d14)
           e15 == RegisterResetDevice(e14)
           d16 == RegisterDeviceHours(d15, n)
           e16 == RegisterDeviceHours(e15, <<>>)
           d17 == RegisterLampHours(d16, n)
           e17 == RegisterLampHours(e16, <<>>)
           d18 == RegisterDeviceModelDescription(d17)
           e18 == RegisterDeviceModelDescription(e17)
           d19 == RegisterLanguage(d18)
           e19 == RegisterLanguage(e18)
<1>1. Installed(n, f) = d19 /\ Installed(<<>>, f) = e19
  BY ResponderAssumption
  DEF Installed, RegisterMore, InstallOptional, InstallRequired
<1> HIDE DEF d1, e1, d2, e2, d3, e3, d4, e4, d5, e5, d6, e6, d7, e7, d8, e8, d9, e9, d10, e10, d11, e11, d12, e12, d13, e13, d14, e14, d15, e15, d16, e16, d17, e17, d18, e18, d19, e19, v
<1>2. /\ v["DMX_PERSONALITY"] = PersonalityAtStart(n, Len(f))
      /\ v["DMX_PERSONALITY_DESCRIPTION"] = f
      /\ v["DMX_START_ADDRESS"] = Loaded(n, "DMX_START_ADDRESS", 1)
      /\ v["DEVICE_HOURS"] = Loaded(n, "DEVICE_HOURS", 0)
      /\ v["LAMP_HOURS"] = Loaded(n, "LAMP_HOURS", 0)
      /\ v["IDENTIFY_DEVICE"] = 0 /\ v["RESET_DEVICE"] = 0 /\ v["DEVICE_LABEL"] = ""
  BY StartValues DEF v
<1> DEFINE Good(d, e) == Built(d, e, v)
           Free(d) == ~Exists(d, "DMX_PERSONALITY")
<1>3. Good(Empty, Empty) /\ Free(Empty)
  <2>1. Empty.table = <<>> /\ Empty.memory = <<>> /\ DOMAIN Empty.table = {}
        /\ DOMAIN Empty.memory = {} /\ Empty = [table |-> Empty.table, memory |-> Empty.memory]
    BY DEF Empty
  <2>2. Empty.table \in Seq(Entries(Empty))
    BY <2>1, EmptySeq
  <2>3. Empty.memory = [c \in DOMAIN Empty.memory |-> Empty.memory[c]]
    BY <2>1
  <2>4. \A p : ~Exists(Empty, p)
    BY <2>1 DEF Exists, Entry
  <2>5. IsDevice(Empty) /\ Registered(Empty) /\ StagedAt(Empty) = {}
    BY <2>1, <2>2, <2>3 DEF IsDevice, Registered, StagedAt
  <2>6. QED
    BY <2>4, <2>5 DEF Built, WellFormed
<1>4. Good(d1, e1) /\ Free(d1)
  BY <1>2, <1>3, AddBuilt, Handlers DEF d1, e1, RegisterDiscUniqueBranch, Own, NonVolatile
<1>5. Good(d2, e2) /\ Free(d2)
  <2>1. CASE Exists(d1, "DISC_UN_MUTE")
    <3>1. Cell(e1, "DISC_UN_MUTE") = Cell(d1, "DISC_UN_MUTE") /\ Cell(d1, "DISC_UN_MUTE") \notin Own
          /\ Exists(e1, "DISC_UN_MUTE")
      <4>1. Exists(e1, "DISC_UN_MUTE")
        BY <2>1, <1>4 DEF Built, Exists, Entry
      <4>2. QED
        BY <2>1, <4>1, <1>4, SharedCell DEF Own, NonVolatile
    <3>2. QED
      BY <2>1, <3>1, <1>4, AddBuilt, Handlers DEF d2, e2, RegisterDiscMute, Own, NonVolatile
  <2>2. CASE ~Exists(d1, "DISC_UN_MUTE")
    <3>1. ~Exists(e1, "DISC_UN_MUTE")
      BY <2>2, <1>4 DEF Built, Exists, Entry
    <3>2. QED
      BY <2>2, <3>1, <1>4, AddBuilt, Handlers DEF d2, e2, RegisterDiscMute, Own, NonVolatile
  <2>3. QED
    BY <2>1, <2>2
<1>6. Good(d3, e3) /\ Free(d3)
  <2>1. CASE Exists(d2, "DISC_MUTE")
    <3>1. Cell(e2, "DISC_MUTE") = Cell(d2, "DISC_MUTE") /\ Cell(d2, "DISC_MUTE") \notin Own
          /\ Exists(e2, "DISC_MUTE")
      <4>1. Exists(e2, "DISC_MUTE")
        BY <2>1, <1>5 DEF Built, Exists, Entry
      <4>2. QED
        BY <2>1, <4>1, <1>5, SharedCell DEF Own, NonVolatile
    <3>2. QED
      BY <2>1, <3>1, <1>5, AddBuilt, Handlers DEF d3, e3, RegisterDiscUnMute, Own, NonVolatile
  <2>2. CASE ~Exists(d2, "DISC_MUTE")
    <3>1. ~Exists(e2, "DISC_MUTE")
      BY <2>2, <1>5 DEF Built, Exists, Entry
    <3>2. QED
      BY <2>2, <3>1, <1>5, AddBuilt, Handlers DEF d3, e3, RegisterDiscUnMute, Own, NonVolatile
  <2>3. QED
    BY <2>1, <2>2
<1>7. Good(d4, e4) /\ Free(d4)
  BY <1>2, <1>6, AddBuilt, Handlers DEF d4, e4, RegisterDeviceInfo, Own, NonVolatile
<1>8. Good(d5, e5) /\ Free(d5)
  BY <1>2, <1>7, AddBuilt, Handlers DEF d5, e5, RegisterSoftwareVersionLabel, Own, NonVolatile
<1>9. Good(d6, e6) /\ Free(d6)
  BY <1>2, <1>8, AddBuilt, Handlers DEF d6, e6, RegisterIdentifyDevice, Own, NonVolatile
<1>10. Good(d7, e7)
  <2>1. CurrentPersonality(d6) = 0 /\ CurrentPersonality(e6) = 0
    BY <1>9 DEF CurrentPersonality, Built, Exists, Entry
  <2>2. /\ d7 = Add(d6, "DMX_START_ADDRESS", "NON_VOLATILE", "DMX_START_ADDRESS",
                  Loaded(n, "DMX_START_ADDRESS", 1))
        /\ e7 = Add(e6, "DMX_START_ADDRESS", "NON_VOLATILE", "DMX_START_ADDRESS",
                  Loaded(<<>>, "DMX_START_ADDRESS", 1))
    BY <2>1 DEF d7, e7, RegisterDmxStartAddress
  <2>3. QED
    BY <1>2, <2>2, <1>9, AddBuilt, Handlers DEF Own, NonVolatile
<1>11. Good(d8, e8)
  BY <1>2, <1>10, AddBuilt, Handlers DEF d8, e8, RegisterQueuedMessage, Own, NonVolatile
<1>12. Good(d9, e9)
  BY <1>2, <1>11, AddBuilt, Handlers DEF d9, e9, RegisterManufacturerLabel, Own, NonVolatile
<1>13. Good(d10, e10)
  BY <1>2, <1>12, AddBuilt, Handlers DEF d10, e10, RegisterDmxPersonality, Own, NonVolatile
<1>14. Good(d11, e11)
  BY <1>2, <1>13, AddBuilt, Handlers DEF d11, e11, RegisterDmxPersonalityDescription, Own, NonVolatile
<1>15. Good(d12, e12)
  BY <1>2, <1>14, AddBuilt, Handlers DEF d12, e12, RegisterDeviceLabel, Own, NonVolatile
<1>16. Good(d13, e13)
  BY <1>2, <1>15, AddBuilt, Handlers DEF d13, e13, RegisterSupportedParameters, Own, NonVolatile
<1>17. Good(d14, e14)
  BY <1>2, <1>16, AddBuilt, Handlers DEF d14, e14, RegisterParameterDescription, Own, NonVolatile
<1>18. Good(d15, e15)
  BY <1>2, <1>17, AddBuilt, Handlers DEF d15, e15, RegisterResetDevice, Own, NonVolatile
<1>19. Good(d16, e16)
  BY <1>2, <1>18, AddBuilt, Handlers DEF d16, e16, RegisterDeviceHours, Own, NonVolatile
<1>20. Good(d17, e17)
  BY <1>2, <1>19, AddBuilt, Handlers DEF d17, e17, RegisterLampHours, Own, NonVolatile
<1>21. Good(d18, e18)
  BY <1>2, <1>20, AddBuilt, Handlers DEF d18, e18, RegisterDeviceModelDescription, Own, NonVolatile
<1>22. Good(d19, e19)
  <2>1. Exists(e18, "LANGUAGE") <=> Exists(d18, "LANGUAGE")
    BY <1>21 DEF Built, Exists, Entry
  <2>2. QED
    BY <2>1, <1>21, AddBuilt, Handlers DEF d19, e19, RegisterLanguage, Own, NonVolatile
<1>23. \A p \in Needed : Exists(e19, p)
  BY <1>1, ResponderAssumption DEF Needed
<1>24. \A p : Exists(d19, p) <=> Exists(e19, p)
  BY <1>22 DEF Built, Exists, Entry
<1>25. QED
  BY <1>1, <1>22, <1>23, <1>24 DEF v

-----------------------------------------------------------------------------
(* Setting and committing *)

\* The smallest of some indices.
LEMMA Least ==
  ASSUME NEW n \in Nat, NEW T, T \subseteq 1..n, T # {}
  PROVE  \E i \in T : \A j \in T : i <= j
<1>1. T \subseteq Nat
  OBVIOUS
<1> DEFINE R == OpToRel(<, Nat)
<1>2. \A i, j \in Nat : j < i => <<j, i>> \in R
  BY DEF OpToRel
<1>3. IsWellFoundedOn(R, Nat)
  BY NatLessThanWellFounded
<1> HIDE DEF R
<1>4. PICK i \in T : \A j \in T : ~ (<<j, i>> \in R)
  BY <1>1, <1>3, WFMin
<1>5. ASSUME NEW j \in T
      PROVE  i <= j
  <2>1. i \in Nat /\ j \in Nat /\ ~ (j < i)
    BY <1>1, <1>2, <1>4
  <2>2. QED
    BY <2>1
<1>6. QED
  BY <1>5

\* D has the entries of d, some of which are staged or no longer staged.
Restaged(d, D) ==
  /\ D = [table |-> D.table, memory |-> D.memory]
  /\ D.memory = [c \in DOMAIN d.memory |-> D.memory[c]]
  /\ D.table \in Seq(Entries(d)) /\ Len(D.table) = Len(d.table)
  /\ \A i \in DOMAIN d.table :
       /\ D.table[i].pid = d.table[i].pid /\ D.table[i].cell = d.table[i].cell
       /\ \/ D.table[i].type = d.table[i].type
          \/ {D.table[i].type, d.table[i].type} \subseteq {"NON_VOLATILE", "STAGED"}

LEMMA RestagedFormed ==
  ASSUME NEW d, NEW D, WellFormed(d), Restaged(d, D)
  PROVE  /\ WellFormed(D) /\ DOMAIN D.table = DOMAIN d.table
         /\ \A p : Exists(D, p) <=> Exists(d, p)
         /\ \A p : Exists(d, p) => Entry(D, p) = Entry(d, p)
<1>1. DOMAIN D.memory = DOMAIN d.memory /\ DOMAIN D.table = DOMAIN d.table
      /\ DOMAIN d.table = 1..Len(d.table) /\ Len(d.table) \in Nat
  BY EntryTypes DEF Restaged
<1>2. IsDevice(D)
  <2>1. Entries(D) = Entries(d)
    BY <1>1 DEF Entries
  <2>2. QED
    BY <1>1, <2>1 DEF IsDevice, Restaged
<1>3. \A p : Exists(D, p) <=> Exists(d, p)
  <2>1. \A p : Exists(d, p) <=> \E i \in DOMAIN d.table : d.table[i].pid = p
    BY <1>1 DEF Exists, Entry
  <2>2. \A p : Exists(D, p) <=> \E i \in DOMAIN D.table : D.table[i].pid = p
    BY <1>1 DEF Exists, Entry
  <2>3. QED
    BY <1>1, <2>1, <2>2 DEF Restaged
<1>4. Registered(D)
  BY <1>1, <1>3 DEF Restaged, WellFormed, Registered
<1>5. ASSUME NEW p, Exists(d, p)
      PROVE  Entry(D, p) = Entry(d, p)
  <2>1. Entry(d, p) \in DOMAIN d.table /\ d.table[Entry(d, p)].pid = p
    BY <1>5, EntryFound
  <2>2. D.table[Entry(d, p)].pid = p
    BY <2>1 DEF Restaged
  <2>3. QED
    BY <1>1, <1>2, <1>4, <2>1, <2>2, EntryFound DEF WellFormed
<1>6. QED
  BY <1>1, <1>2, <1>3, <1>4, <1>5 DEF WellFormed

LEMMA Retyped ==
  ASSUME NEW d, NEW r \in Entries(d), NEW t \in {"STATIC", "DYNAMIC", "NON_VOLATILE", "STAGED"}
  PROVE  /\ [r EXCEPT !.type = t] \in Entries(d)
         /\ [r EXCEPT !.type = t].pid = r.pid /\ [r EXCEPT !.type = t].cell = r.cell
         /\ [r EXCEPT !.type = t].type = t
BY DEF Entries

\* What is set is staged if it is non-volatile, and nothing else changes.
LEMMA SetDevice ==
  ASSUME NEW d, WellFormed(d), NEW s, NEW pid, Exists(d, pid), NEW x
  PROVE  /\ Restaged(d, Set(d, s, pid, x))
         /\ \A p \in Own : Exists(d, p) =>
              Set(d, s, pid, x).memory[p] = IF p = pid THEN x ELSE d.memory[p]
         /\ StagedAt(Set(d, s, pid, x)) =
              IF Stages(d, s, pid) THEN StagedAt(d) \cup {Entry(d, pid)} ELSE StagedAt(d)
         /\ Stages(d, s, pid) => Entry(d, pid) \notin StagedAt(d)
         /\ pid \in NonVolatile => Entry(d, pid) \in StagedAt(Set(d, s, pid, x))
<1> DEFINE e == Entry(d, pid)
           table_ == [i \in DOMAIN d.table |->
                        IF i = e /\ Stages(d, s, pid)
                        THEN [d.table[i] EXCEPT !.type = "STAGED"] ELSE d.table[i]]
           memory_ == [d.memory EXCEPT ![Cell(d, pid)] = x]
           D == [table |-> table_, memory |-> memory_]
<1>1. Set(d, s, pid, x) = D
  BY DEF Set
<1>2. /\ Len(d.table) \in Nat /\ DOMAIN d.table = 1..Len(d.table)
      /\ \A i \in DOMAIN d.table :
              /\ d.table[i] \in Entries(d)
              /\ d.table[i].pid \in Pids /\ d.table[i].cell \in DOMAIN d.memory
              /\ d.table[i].type \in {"STATIC", "DYNAMIC", "NON_VOLATILE", "STAGED"}
  BY EntryTypes
<1>3. e \in DOMAIN d.table /\ d.table[e].pid = pid
  BY EntryFound
<1>4. \A i \in DOMAIN d.table :
        /\ table_[i] \in Entries(d)
        /\ table_[i].pid = d.table[i].pid /\ table_[i].cell = d.table[i].cell
        /\ table_[i].type = IF i = e /\ d.table[e].type = "NON_VOLATILE" THEN "STAGED"
                            ELSE d.table[i].type
  <2> SUFFICES ASSUME NEW i \in DOMAIN d.table
               PROVE  /\ table_[i] \in Entries(d)
                      /\ table_[i].pid = d.table[i].pid /\ table_[i].cell = d.table[i].cell
                      /\ table_[i].type = IF i = e /\ d.table[e].type = "NON_VOLATILE"
                                         THEN "STAGED" ELSE d.table[i].type
    OBVIOUS
  <2> DEFINE r == [d.table[i] EXCEPT !.type = "STAGED"]
  <2>1. d.table[i] \in Entries(d)
    BY <1>2
  <2>2. r \in Entries(d) /\ r.pid = d.table[i].pid /\ r.cell = d.table[i].cell
        /\ r.type = "STAGED"
    BY <2>1, Retyped
  <2>3. table_[i] = IF i = e /\ d.table[e].type = "NON_VOLATILE" THEN r ELSE d.table[i]
    BY DEF Stages
  <2> HIDE DEF r, table_
  <2>4. QED
    BY <2>1, <2>2, <2>3
<1>5. table_ \in Seq(Entries(d)) /\ Len(table_) = Len(d.table) /\ DOMAIN table_ = DOMAIN d.table
  <2>1. table_ \in [1..Len(d.table) -> Entries(d)]
    BY <1>2, <1>4
  <2>2. QED
    BY <1>2, <2>1
<1>6. memory_ = [c \in DOMAIN d.memory |-> memory_[c]]
      /\ \A c \in DOMAIN d.memory : memory_[c] = IF c = Cell(d, pid) THEN x ELSE d.memory[c]
  BY DEF WellFormed, IsDevice
<1>7. D.table = table_ /\ D.memory = memory_ /\ D = [table |-> table_, memory |-> memory_]
  OBVIOUS
<1>8. ASSUME NEW p \in Own, Exists(d, p)
      PROVE  memory_[p] = IF p = pid THEN x ELSE d.memory[p]
  <2>1. Cell(d, p) = p /\ p \in DOMAIN d.memory
    BY <1>8, OwnCell
  <2>2. Cell(d, pid) = p <=> p = pid
    BY <1>3, <2>1, <1>8 DEF Cell, WellFormed, Registered
  <2>3. QED
    BY <1>6, <2>1, <2>2
<1> HIDE DEF table_, memory_, D, e
<1>9. Restaged(d, D)
  BY <1>4, <1>5, <1>6, <1>7 DEF Restaged
<1>10. StagedAt(D) = {i \in DOMAIN d.table :
                        \/ i = e /\ d.table[e].type = "NON_VOLATILE"
                        \/ d.table[i].type = "STAGED"}
  BY <1>4, <1>5, <1>7 DEF StagedAt
<1>11. Stages(d, s, pid) <=> d.table[e].type = "NON_VOLATILE"
  BY DEF Stages, e
<1>12. pid \in NonVolatile => d.table[e].type \in {"NON_VOLATILE", "STAGED"}
  BY <1>3 DEF WellFormed, Registered
<1>13. QED
  <2>1. StagedAt(D) = IF Stages(d, s, pid) THEN StagedAt(d) \cup {e} ELSE StagedAt(d)
    BY <1>3, <1>10, <1>11 DEF StagedAt
  <2>2. Stages(d, s, pid) => e \notin StagedAt(d)
    BY <1>11 DEF StagedAt
  <2>3. pid \in NonVolatile => e \in StagedAt(D)
    BY <1>3, <1>10, <1>12
  <2>4. QED
    BY <1>1, <1>7, <1>8, <1>9, <2>1, <2>2, <2>3 DEF e

\* The first that is staged no longer is.
LEMMA CommitDevice ==
  ASSUME NEW d, WellFormed(d), StagedAt(d) # {}
  PROVE  /\ FirstStaged(d) \in StagedAt(d)
         /\ Restaged(d, Unstage(d, FirstStaged(d)))
         /\ Unstage(d, FirstStaged(d)).memory = d.memory
         /\ StagedAt(Unstage(d, FirstStaged(d))) = StagedAt(d) \ {FirstStaged(d)}
<1> DEFINE k == FirstStaged(d)
           r == [d.table[k] EXCEPT !.type = "NON_VOLATILE"]
           table_ == [d.table EXCEPT ![k] = r]
           D == [table |-> table_, memory |-> d.memory]
<1>1. /\ Len(d.table) \in Nat /\ DOMAIN d.table = 1..Len(d.table)
      /\ \A i \in DOMAIN d.table :
              /\ d.table[i] \in Entries(d)
              /\ d.table[i].pid \in Pids /\ d.table[i].cell \in DOMAIN d.memory
              /\ d.table[i].type \in {"STATIC", "DYNAMIC", "NON_VOLATILE", "STAGED"}
  BY EntryTypes
<1>2. k \in StagedAt(d)
  <2>1. StagedAt(d) \subseteq 1..Len(d.table)
    BY <1>1 DEF StagedAt
  <2>2. \E i \in StagedAt(d) : \A j \in StagedAt(d) : i <= j
    BY <1>1, <2>1, Least
  <2>3. QED
    BY <2>2 DEF FirstStaged
<1>3. k \in DOMAIN d.table /\ d.table[k].type = "STAGED"
  BY <1>2 DEF StagedAt
<1> HIDE DEF k
<1>4. Unstage(d, k) = D
  <2>1. d = [table |-> d.table, memory |-> d.memory]
    BY DEF WellFormed, IsDevice
  <2>2. QED
    BY <2>1 DEF Unstage
<1>5. \A i \in DOMAIN d.table :
        /\ table_[i] \in Entries(d)
        /\ table_[i].pid = d.table[i].pid /\ table_[i].cell = d.table[i].cell
        /\ table_[i].type = IF i = k THEN "NON_VOLATILE" ELSE d.table[i].type
  <2>1. d.table[k] \in Entries(d) /\ \A i \in DOMAIN d.table : d.table[i] \in Entries(d)
    BY <1>1, <1>3
  <2>2. r \in Entries(d) /\ r.pid = d.table[k].pid /\ r.cell = d.table[k].cell
        /\ r.type = "NON_VOLATILE"
    BY <2>1, Retyped
  <2> HIDE DEF r
  <2>3. \A i \in DOMAIN d.table : table_[i] = IF i = k THEN r ELSE d.table[i]
    BY <1>1, <1>3
  <2> HIDE DEF table_
  <2>4. QED
    BY <2>1, <2>2, <2>3
<1>6. table_ \in Seq(Entries(d)) /\ Len(table_) = Len(d.table) /\ DOMAIN table_ = DOMAIN d.table
  <2>1. d.table \in Seq(Entries(d)) /\ r \in Entries(d)
    BY <1>1, <1>3, Retyped DEF WellFormed, IsDevice
  <2> HIDE DEF r
  <2>2. QED
    BY <1>1, <1>3, <2>1, ExceptSeq
<1>7. D.table = table_ /\ D.memory = d.memory /\ D = [table |-> table_, memory |-> d.memory]
  OBVIOUS
<1> HIDE DEF table_, D
<1>8. Restaged(d, D)
  BY <1>3, <1>5, <1>6, <1>7 DEF Restaged, WellFormed, IsDevice
<1>9. StagedAt(D) = StagedAt(d) \ {k}
  BY <1>5, <1>6, <1>7 DEF StagedAt
<1>10. QED
  BY <1>2, <1>4, <1>7, <1>8, <1>9 DEF k

-----------------------------------------------------------------------------
(* What a step does to the parameters *)

\* There are as many personalities as the firmware has.
LEMMA Personalities ==
  ASSUME NEW d, DeviceGood(d)
  PROVE  \E f \in Firmwares :
           /\ Value(d, "DMX_PERSONALITY_DESCRIPTION") = f
           /\ Len(f) \in Nat \ {0} /\ PersonalityCount(d) = Len(f)
           /\ \E n \in 1..Len(f) : /\ d.memory["DMX_PERSONALITY"] = <<n, Len(f)>>
                                   /\ CurrentPersonality(d) = n
<1>1. PICK f \in Firmwares :
        /\ d.memory["DMX_PERSONALITY_DESCRIPTION"] = f
        /\ d.memory["DMX_PERSONALITY"] \in {<<n, Len(f)>> : n \in 1..Len(f)}
  BY DEF DeviceGood
<1>2. PICK n \in 1..Len(f) : d.memory["DMX_PERSONALITY"] = <<n, Len(f)>>
  BY <1>1
<1>3. Len(f) \in Nat \ {0}
  <2>1. f \in Seq(Nat) /\ f # <<>>
    BY ResponderAssumption
  <2>2. QED
    BY <2>1, EmptySeq
<1>4. /\ Exists(d, "DMX_PERSONALITY") /\ Exists(d, "DMX_PERSONALITY_DESCRIPTION")
      /\ Value(d, "DMX_PERSONALITY") = d.memory["DMX_PERSONALITY"]
      /\ Value(d, "DMX_PERSONALITY_DESCRIPTION") = d.memory["DMX_PERSONALITY_DESCRIPTION"]
  BY OwnCell DEF DeviceGood, Needed, Own, NonVolatile
<1>5. PersonalityCount(d) = Len(f) /\ CurrentPersonality(d) = n
  BY <1>2, <1>4 DEF PersonalityCount, CurrentPersonality
<1>6. QED
  BY <1>1, <1>2, <1>3, <1>4, <1>5

\* The values of the personality.
LEMMA PossiblePersonality ==
  Possible("DMX_PERSONALITY") = UNION {{<<n, Len(f)>> : n \in 1..Len(f)} : f \in Firmwares}
<1>1. ASSUME NEW f \in Firmwares
      PROVE  StartsFrom("DMX_PERSONALITY", f) \in {<<n, Len(f)>> : n \in 1..Len(f)}
  <2>1. f \in Seq(Nat) /\ f # <<>>
    BY ResponderAssumption
  <2>2. Len(f) \in Nat \ {0}
    BY <2>1, EmptySeq
  <2>3. QED
    BY <2>2 DEF StartsFrom
<1>2. Sets("DMX_PERSONALITY") = UNION {{<<n, Len(f)>> : n \in 1..Len(f)} : f \in Firmwares}
  BY DEF Sets
<1>3. QED
  BY <1>1, <1>2 DEF Possible

\* Every firmware starts with what was stored, as far as it can be used.
LEMMA InstalledGood ==
  ASSUME NEW n, \A p \in DOMAIN n : n[p] \in Possible(p), NEW f \in Firmwares
  PROVE  /\ DeviceGood(Installed(n, f)) /\ StagedAt(Installed(n, f)) = {}
         /\ \A p \in NonVolatile : Installed(n, f).memory[p] =
              IF p \in DOMAIN n /\ IsUsable(p, n[p], f) THEN n[p] ELSE StartsFrom(p, f)
<1> DEFINE d == Installed(n, f)
<1>1. Built(d, Installed(<<>>, f), Starts(n, f)) /\ \A p \in Needed : Exists(d, p)
  BY InstalledBuilt
<1> HIDE DEF d
<1>2. \A p \in Own : d.memory[p] = Starts(n, f)[p]
  BY <1>1 DEF Built, Needed, Own
<1>3. d.memory["DMX_PERSONALITY_DESCRIPTION"] = f
      /\ d.memory["DMX_PERSONALITY"] = PersonalityAtStart(n, Len(f))
  BY <1>2, StartValues DEF Own, NonVolatile
<1>4. \A p \in NonVolatile : d.memory[p] =
        IF p \in DOMAIN n /\ IsUsable(p, n[p], f) THEN n[p] ELSE StartsFrom(p, f)
  BY <1>2 DEF Starts, Own, NonVolatile
<1>5. \A p \in NonVolatile : d.memory[p] \in Possible(p)
  BY <1>4 DEF Possible
<1>6. d.memory["DMX_PERSONALITY"] \in {<<k, Len(f)>> : k \in 1..Len(f)}
  <2>1. <<1, Len(f)>> \in {<<k, Len(f)>> : k \in 1..Len(f)}
    <3>1. f \in Seq(Nat) /\ f # <<>>
      BY ResponderAssumption
    <3>2. Len(f) \in Nat \ {0}
      BY <3>1, EmptySeq
    <3>3. QED
      BY <3>2
  <2>2. CASE "DMX_PERSONALITY" \in DOMAIN n /\ n["DMX_PERSONALITY"][2] = Len(f)
    <3>1. PICK g \in Firmwares : \E k \in 1..Len(g) : n["DMX_PERSONALITY"] = <<k, Len(g)>>
      BY <2>2, PossiblePersonality
    <3>2. d.memory["DMX_PERSONALITY"] = n["DMX_PERSONALITY"]
      BY <1>3, <2>2 DEF PersonalityAtStart, Loaded
    <3>3. QED
      BY <2>2, <3>1, <3>2
  <2>3. CASE ~ ("DMX_PERSONALITY" \in DOMAIN n /\ n["DMX_PERSONALITY"][2] = Len(f))
    BY <1>3, <2>1, <2>3 DEF PersonalityAtStart, Loaded
  <2>4. QED
    BY <2>2, <2>3
<1>7. QED
  BY <1>1, <1>3, <1>4, <1>5, <1>6 DEF DeviceGood, Built, d

\* What may be set, and to what.
MayChange(pid, x) ==
  /\ Exists(device, pid) /\ pid # "DMX_PERSONALITY_DESCRIPTION"
  /\ pid \in NonVolatile => x \in Sets(pid)
  /\ pid = "DMX_PERSONALITY" =>
       x \in {<<n, PersonalityCount(device)>> : n \in 1..PersonalityCount(device)}

\* A parameter is set: it is staged, what was staged still is, and there are
\* as many personalities as before.
LEMMA ChangeDevice ==
  ASSUME DeviceInv, StoredInv, NEW pid, NEW x, MayChange(pid, x), Change(pid, x)
  PROVE  /\ DeviceInv' /\ unsaved' \subseteq NonVolatile /\ lost' \subseteq unsaved'
         /\ \A p \in NonVolatile : device'.memory[p] = IF p = pid THEN x ELSE device.memory[p]
         /\ PersonalityCount(device') = PersonalityCount(device)
         /\ \A p \in NonVolatile : IsStaged(p) \/ p = pid => IsStaged(p)'
<1>1. WellFormed(device) /\ Exists(device, pid) /\ \A p \in Needed : Exists(device, p)
      /\ device' = Set(device, staged, pid, x)
  BY DEF DeviceInv, DeviceGood, MayChange, Change
<1>2. /\ Restaged(device, device')
      /\ \A p \in Own : Exists(device, p) =>
           device'.memory[p] = IF p = pid THEN x ELSE device.memory[p]
      /\ StagedAt(device') =
           IF Stages(device, staged, pid) THEN StagedAt(device) \cup {Entry(device, pid)}
           ELSE StagedAt(device)
      /\ Stages(device, staged, pid) => Entry(device, pid) \notin StagedAt(device)
      /\ pid \in NonVolatile => Entry(device, pid) \in StagedAt(device')
  <2> DEFINE D == Set(device, staged, pid, x)
  <2>1. /\ Restaged(device, D)
        /\ \A p \in Own : Exists(device, p) =>
             D.memory[p] = IF p = pid THEN x ELSE device.memory[p]
        /\ StagedAt(D) =
             IF Stages(device, staged, pid) THEN StagedAt(device) \cup {Entry(device, pid)}
             ELSE StagedAt(device)
        /\ Stages(device, staged, pid) => Entry(device, pid) \notin StagedAt(device)
        /\ pid \in NonVolatile => Entry(device, pid) \in StagedAt(D)
    BY <1>1, SetDevice
  <2>2. device' = D
    BY DEF Change
  <2> HIDE DEF D
  <2>3. QED
    BY <2>1, <2>2
<1>3. /\ WellFormed(device') /\ DOMAIN device'.table = DOMAIN device.table
      /\ \A p : Exists(device', p) <=> Exists(device, p)
      /\ \A p : Exists(device, p) => Entry(device', p) = Entry(device, p)
  BY <1>1, <1>2, RestagedFormed
<1>4. \A p \in Own : device'.memory[p] = IF p = pid THEN x ELSE device.memory[p]
  BY <1>1, <1>2 DEF Own, Needed
<1>5. PICK f \in Firmwares : /\ Value(device, "DMX_PERSONALITY_DESCRIPTION") = f
                             /\ PersonalityCount(device) = Len(f)
                             /\ \E n \in 1..Len(f) : device.memory["DMX_PERSONALITY"] = <<n, Len(f)>>
  BY Personalities DEF DeviceInv
<1>6. device'.memory["DMX_PERSONALITY_DESCRIPTION"] = f
      /\ device'.memory["DMX_PERSONALITY"] \in {<<n, Len(f)>> : n \in 1..Len(f)}
  <2>1. Value(device, "DMX_PERSONALITY_DESCRIPTION") = device.memory["DMX_PERSONALITY_DESCRIPTION"]
    BY <1>1, OwnCell DEF Own, Needed
  <2>2. QED
    BY <1>4, <1>5, <2>1 DEF Own, NonVolatile, MayChange
<1>7. DeviceGood(device')
  <2>1. \A p \in NonVolatile : device'.memory[p] \in Possible(p)
    BY <1>4 DEF Own, MayChange, Possible, DeviceInv, DeviceGood
  <2>2. QED
    BY <1>1, <1>3, <1>6, <2>1 DEF DeviceGood
<1>8. staged' = Cardinality(StagedAt(device'))
  <2>1. IsFiniteSet(StagedAt(device))
    <3>1. StagedAt(device) \subseteq 1..Len(device.table) /\ Len(device.table) \in Nat
      BY <1>1, EntryTypes DEF StagedAt
    <3>2. IsFiniteSet(1..Len(device.table))
      BY <3>1, FS_Interval
    <3>3. QED
      BY <3>1, <3>2, FS_Subset
  <2>2. Stages(device, staged, pid) => Cardinality(StagedAt(device')) = Cardinality(StagedAt(device)) + 1
    BY <1>2, <2>1, FS_AddElement
  <2>3. QED
    BY <1>2, <2>2 DEF Change, DeviceInv
<1>9. PersonalityCount(device') = Len(f)
  <2>1. Exists(device', "DMX_PERSONALITY")
        /\ Value(device', "DMX_PERSONALITY") = device'.memory["DMX_PERSONALITY"]
    BY <1>1, <1>3, OwnCell DEF Own, Needed, NonVolatile
  <2>2. QED
    BY <1>6, <2>1 DEF PersonalityCount
<1>10. ASSUME NEW p \in NonVolatile, IsStaged(p) \/ p = pid
       PROVE  IsStaged(p)'
  <2>1. Exists(device, p) /\ Entry(device', p) = Entry(device, p)
    BY <1>1, <1>3 DEF Needed
  <2>2. Entry(device, p) \in DOMAIN device.table
    BY <1>1, <2>1, EntryFound
  <2>3. Entry(device, p) \in StagedAt(device')
    BY <1>2, <1>10, <2>2 DEF IsStaged, StagedAt
  <2>4. QED
    BY <2>1, <2>3 DEF IsStaged, StagedAt
<1>11. QED
  BY <1>4, <1>5, <1>7, <1>8, <1>9, <1>10 DEF Own, DeviceInv, Change, StoredInv

-----------------------------------------------------------------------------
(* The invariant of types and staging *)

TaskInv == BusInv /\ AppInv /\ QueueInv /\ BoundsInv

SafeInv == DeviceInv /\ StoredInv /\ NothingForgotten /\ TaskInv

\* The steps between writes: no parameter is set, or one is.
Holds == UNCHANGED nvs /\ (bus.at = "write" => UNCHANGED bus)
Quiet == Holds /\ UNCHANGED memory
Changes == Holds /\ \E pid, x : MayChange(pid, x) /\ Change(pid, x)

LEMMA QuietSafe ==
  ASSUME SafeInv, Quiet
  PROVE  /\ DeviceInv' /\ StoredInv' /\ NothingForgotten'
         /\ PersonalityCount(device') = PersonalityCount(device)
<1>1. UNCHANGED <<device, staged, unsaved, lost, nvs>> /\ (bus.at = "write" => UNCHANGED bus)
  BY DEF Quiet, Holds, memory
<1>2. DeviceInv' /\ StoredInv'
  BY <1>1 DEF SafeInv, DeviceInv, StoredInv
<1>3. NothingForgotten'
  BY <1>1 DEF SafeInv, NothingForgotten, IsStaged, IsWritten
<1>4. QED
  BY <1>1, <1>2, <1>3

LEMMA ChangesSafe ==
  ASSUME SafeInv, Changes
  PROVE  /\ DeviceInv' /\ StoredInv' /\ NothingForgotten'
         /\ PersonalityCount(device') = PersonalityCount(device)
<1>1. PICK pid, x : MayChange(pid, x) /\ Change(pid, x)
  BY DEF Changes
<1>2. /\ DeviceInv' /\ unsaved' \subseteq NonVolatile /\ lost' \subseteq unsaved'
      /\ PersonalityCount(device') = PersonalityCount(device)
      /\ \A p \in NonVolatile : IsStaged(p) \/ p = pid => IsStaged(p)'
  BY <1>1, ChangeDevice DEF SafeInv
<1>3. UNCHANGED nvs /\ (bus.at = "write" => UNCHANGED bus)
  BY DEF Changes, Holds
<1>4. StoredInv'
  BY <1>2, <1>3 DEF SafeInv, StoredInv
<1>5. NothingForgotten'
  <2> SUFFICES ASSUME NEW p \in unsaved'
               PROVE  IsStaged(p)' \/ IsWritten(p)' \/ p \in lost'
    BY DEF NothingForgotten
  <2>1. p \in NonVolatile
    BY <1>2
  <2>2. CASE p = pid
    BY <1>2, <2>1, <2>2
  <2>3. CASE p # pid
    <3>1. p \in unsaved /\ (p \in lost => p \in lost')
      BY <1>1, <2>3 DEF Change
    <3>2. IsStaged(p) \/ IsWritten(p) \/ p \in lost
      BY <3>1 DEF SafeInv, NothingForgotten
    <3>3. QED
      BY <1>2, <1>3, <2>1, <3>1, <3>2 DEF IsWritten
  <2>4. QED
    BY <2>2, <2>3
<1>6. QED
  BY <1>2, <1>4, <1>5

\* A commit takes the first that is staged, and it is written next.
LEMMA CommitSafe ==
  ASSUME SafeInv, Commit
  PROVE  SafeInv' /\ device'.memory = device.memory
<1>1. bus.at = "commit" /\ UNCHANGED <<unsaved, lost, waiting, previous, nvs, app, bootLoader,
                                       changes, restarts, seen, missed>>
  BY DEF Commit, Others, queue, learnt
<1>2. CASE StagedAt(device) = {}
  <2>1. bus' = Listening /\ UNCHANGED <<device, staged>>
    BY <1>2 DEF Commit
  <2>2. DeviceInv' /\ StoredInv' /\ NothingForgotten'
    BY <1>1, <2>1 DEF SafeInv, DeviceInv, StoredInv, NothingForgotten, IsStaged, IsWritten
  <2>3. TaskInv'
    BY <1>1, <2>1 DEF SafeInv, TaskInv, BusInv, AppInv, QueueInv, BoundsInv, Listening
  <2>4. QED
    BY <2>1, <2>2, <2>3 DEF SafeInv
<1>3. CASE StagedAt(device) # {}
  <2> DEFINE k == FirstStaged(device)
  <2>1. /\ device' = Unstage(device, k) /\ staged' = staged - 1
        /\ bus' = [bus EXCEPT !.at = "write", !.pid = device.table[k].pid]
    BY <1>3 DEF Commit
  <2>2. WellFormed(device) /\ \A p \in Needed : Exists(device, p)
    BY DEF SafeInv, DeviceInv, DeviceGood
  <2>3. /\ k \in StagedAt(device) /\ Restaged(device, device')
        /\ device'.memory = device.memory
        /\ StagedAt(device') = StagedAt(device) \ {k}
    <3>1. /\ k \in StagedAt(device) /\ Restaged(device, Unstage(device, k))
          /\ Unstage(device, k).memory = device.memory
          /\ StagedAt(Unstage(device, k)) = StagedAt(device) \ {k}
      BY <1>3, <2>2, CommitDevice
    <3> HIDE DEF k
    <3>2. QED
      BY <2>1, <3>1
  <2> HIDE DEF k
  <2>4. /\ WellFormed(device') /\ DOMAIN device'.table = DOMAIN device.table
        /\ \A p : Exists(device', p) <=> Exists(device, p)
        /\ \A p : Exists(device, p) => Entry(device', p) = Entry(device, p)
    BY <2>2, <2>3, RestagedFormed
  <2>5. k \in DOMAIN device.table /\ device.table[k].type = "STAGED"
        /\ device.table[k].pid \in NonVolatile
    BY <2>2, <2>3 DEF StagedAt, WellFormed, Registered
  <2>6. DeviceInv'
    <3>1. DeviceGood(device')
      BY <2>3, <2>4 DEF SafeInv, DeviceInv, DeviceGood
    <3>2. StagedAt(device) \subseteq 1..Len(device.table) /\ Len(device.table) \in Nat
      BY <2>2, EntryTypes DEF StagedAt
    <3>3. IsFiniteSet(1..Len(device.table))
      BY <3>2, FS_Interval
    <3>4. IsFiniteSet(StagedAt(device))
      BY <3>2, <3>3, FS_Subset
    <3>5. Cardinality(StagedAt(device')) = Cardinality(StagedAt(device)) - 1
      BY <2>3, <3>4, FS_RemoveElement
    <3>6. QED
      BY <2>1, <3>1, <3>5 DEF SafeInv, DeviceInv
  <2>7. PersonalityCount(device') = PersonalityCount(device)
    <3>1. Exists(device, "DMX_PERSONALITY") /\ Exists(device', "DMX_PERSONALITY")
      BY <2>2, <2>4 DEF Needed, NonVolatile
    <3>2. Value(device, "DMX_PERSONALITY") = device.memory["DMX_PERSONALITY"]
          /\ Value(device', "DMX_PERSONALITY") = device'.memory["DMX_PERSONALITY"]
      BY <2>2, <2>4, <3>1, OwnCell DEF Own, NonVolatile
    <3>3. QED
      BY <2>3, <3>1, <3>2 DEF PersonalityCount
  <2>8. /\ bus'.at = "write" /\ bus'.pid = device.table[k].pid
        /\ bus' = [at |-> bus'.at, req |-> bus'.req, kind |-> bus'.kind, pid |-> bus'.pid,
                   value |-> bus'.value]
    BY <2>1 DEF SafeInv, TaskInv, BusInv
  <2>9. TaskInv'
    BY <1>1, <2>5, <2>7, <2>8 DEF SafeInv, TaskInv, BusInv, AppInv, QueueInv, BoundsInv
  <2>10. NothingForgotten'
    <3> SUFFICES ASSUME NEW p \in unsaved
                 PROVE  IsStaged(p)' \/ IsWritten(p)' \/ p \in lost
      BY <1>1 DEF NothingForgotten
    <3>1. IsStaged(p) \/ p \in lost
      BY <1>1 DEF SafeInv, NothingForgotten, IsWritten
    <3>2. CASE IsStaged(p)
      <4>1. p \in NonVolatile
        BY DEF SafeInv, StoredInv
      <4>2. Exists(device, p) /\ Entry(device', p) = Entry(device, p)
        BY <2>2, <2>4, <4>1 DEF Needed
      <4>3. Entry(device, p) \in DOMAIN device.table
            /\ device.table[Entry(device, p)].pid = p
        BY <2>2, <4>2, EntryFound
      <4>4. CASE Entry(device, p) = k
        BY <2>8, <4>3, <4>4 DEF IsWritten
      <4>5. CASE Entry(device, p) # k
        <5>1. Entry(device, p) \in StagedAt(device')
          BY <2>3, <3>2, <4>3, <4>5 DEF IsStaged, StagedAt
        <5>2. QED
          BY <4>2, <5>1 DEF IsStaged, StagedAt
      <4>6. QED
        BY <4>4, <4>5
    <3>3. QED
      BY <3>1, <3>2
  <2>11. StoredInv'
    BY <1>1 DEF SafeInv, StoredInv
  <2>12. QED
    BY <2>3, <2>6, <2>9, <2>10, <2>11 DEF SafeInv
<1>4. QED
  BY <1>2, <1>3

\* What is written is the value there is, or the write fails.
LEMMA WriteSafe ==
  ASSUME SafeInv, Write
  PROVE  /\ SafeInv' /\ UNCHANGED device /\ bus.pid \in NonVolatile
         /\ nvs' \in {nvs, With(nvs, bus.pid, device.memory[bus.pid])}
<1>1. /\ bus.at = "write" /\ bus' = Listening
      /\ UNCHANGED <<device, staged, waiting, previous, app, bootLoader, changes, restarts,
                     seen, missed>>
  BY DEF Write, queue, learnt
<1>2. bus.pid \in NonVolatile
  BY <1>1 DEF SafeInv, TaskInv, BusInv
<1>3. Value(device, bus.pid) = device.memory[bus.pid]
      /\ device.memory[bus.pid] \in Possible(bus.pid)
  BY <1>2, OwnCell DEF SafeInv, DeviceInv, DeviceGood, Needed, Own
<1>4. PICK failed \in WriteFails :
       /\ nvs' = IF failed THEN nvs ELSE With(nvs, bus.pid, device.memory[bus.pid])
       /\ unsaved' = IF failed THEN unsaved ELSE unsaved \ {bus.pid}
       /\ lost' = IF failed /\ bus.pid \in unsaved THEN lost \cup {bus.pid}
                  ELSE lost \ {bus.pid}
  BY <1>3 DEF Write
<1>5. nvs' \in {nvs, With(nvs, bus.pid, device.memory[bus.pid])}
  BY <1>4
<1>6. DOMAIN nvs' \subseteq NonVolatile /\ \A p \in DOMAIN nvs' : nvs'[p] \in Possible(p)
  BY <1>2, <1>3, <1>5 DEF With, SafeInv, StoredInv
<1>7. unsaved' \subseteq NonVolatile /\ lost' \subseteq unsaved'
  BY <1>4 DEF SafeInv, StoredInv
<1>8. NothingForgotten'
  <2> SUFFICES ASSUME NEW p \in unsaved'
               PROVE  IsStaged(p)' \/ IsWritten(p)' \/ p \in lost'
    BY DEF NothingForgotten
  <2>1. IsStaged(p) \/ IsWritten(p) \/ p \in lost
    BY <1>4 DEF SafeInv, NothingForgotten
  <2>2. IsStaged(p)' <=> IsStaged(p)
    BY <1>1 DEF IsStaged
  <2>3. IsWritten(p) <=> p = bus.pid
    BY <1>1 DEF IsWritten
  <2>4. CASE p = bus.pid
    BY <1>4, <2>4
  <2>5. CASE p # bus.pid
    BY <1>4, <2>1, <2>2, <2>3, <2>5
  <2>6. QED
    BY <2>4, <2>5
<1>9. TaskInv'
  BY <1>1 DEF SafeInv, TaskInv, BusInv, AppInv, QueueInv, BoundsInv, Listening
<1>10. DeviceInv'
  BY <1>1 DEF SafeInv, DeviceInv
<1>11. QED
  BY <1>1, <1>2, <1>5, <1>6, <1>7, <1>8, <1>9, <1>10 DEF SafeInv, StoredInv

LEMMA RestartSafe ==
  ASSUME SafeInv, Restart
  PROVE  /\ SafeInv' /\ UNCHANGED nvs
         /\ \E f \in Firmwares : \A p \in NonVolatile : device'.memory[p] =
              IF p \in DOMAIN nvs /\ IsUsable(p, nvs[p], f) THEN nvs[p] ELSE StartsFrom(p, f)
<1>1. PICK f \in Firmwares : Start(f)
  BY DEF Restart
<1>2. restarts < MaxRestarts /\ restarts' = restarts + 1 /\ UNCHANGED <<nvs, changes>>
  BY DEF Restart
<1>3. /\ device' = Installed(nvs, f)
      /\ staged' = 0 /\ unsaved' = {} /\ lost' = {}
      /\ waiting' = <<>> /\ bus' = Listening /\ app' = Resting /\ bootLoader' = FALSE
  BY <1>1 DEF Start
<1>4. /\ DeviceGood(device') /\ StagedAt(device') = {}
      /\ \A p \in NonVolatile : device'.memory[p] =
           IF p \in DOMAIN nvs /\ IsUsable(p, nvs[p], f) THEN nvs[p] ELSE StartsFrom(p, f)
  <2> DEFINE D == Installed(nvs, f)
  <2>1. /\ DeviceGood(D) /\ StagedAt(D) = {}
        /\ \A p \in NonVolatile : D.memory[p] =
             IF p \in DOMAIN nvs /\ IsUsable(p, nvs[p], f) THEN nvs[p] ELSE StartsFrom(p, f)
    BY InstalledGood DEF SafeInv, StoredInv
  <2>2. device' = D
    BY <1>3
  <2> HIDE DEF D
  <2>3. QED
    BY <2>1, <2>2
<1>5. DeviceInv'
  BY <1>3, <1>4, FS_EmptySet DEF DeviceInv
<1>6. StoredInv' /\ NothingForgotten'
  BY <1>2, <1>3 DEF SafeInv, StoredInv, NothingForgotten
<1>7. TaskInv'
  <2>1. QueueInv'
    BY <1>3, EmptySeq DEF QueueInv
  <2>2. BusInv' /\ AppInv'
    BY <1>3 DEF BusInv, AppInv, Listening, Resting
  <2>3. BoundsInv'
    <3>1. restarts' \in 0..MaxRestarts /\ changes' \in 0..MaxChanges
      <4>1. MaxRestarts \in Nat /\ restarts \in 0..MaxRestarts /\ changes \in 0..MaxChanges
        BY ResponderAssumption DEF SafeInv, TaskInv, BoundsInv
      <4>2. QED
        BY <1>2, <4>1
    <3>2. QED
      BY <1>3, <3>1 DEF BoundsInv
  <2>4. QED
    BY <2>1, <2>2, <2>3 DEF TaskInv
<1>8. QED
  BY <1>2, <1>4, <1>5, <1>6, <1>7 DEF SafeInv

-----------------------------------------------------------------------------
(* The actions *)

\* A handler is chosen by the definition of a parameter that exists.
LEMMA Handled ==
  ASSUME SafeInv, NEW cc, NEW h, Handles(cc, h)
  PROVE  /\ bus.at = "respond" /\ bus.req \in Requests /\ bus.req.cc = cc
         /\ Exists(device, bus.req.pid) /\ bus.req.pid \in Pids
         /\ cc = "SET" => Definitions[bus.req.pid].set = h
         /\ cc # "SET" => Definitions[bus.req.pid].get = h
<1>1. WellFormed(device)
  BY DEF SafeInv, DeviceInv, DeviceGood
<1>2. bus.at = "respond" /\ Exists(device, bus.req.pid) /\ bus.req.cc = cc
  BY DEF Handles, Known
<1>3. bus.req.pid \in Pids
  BY <1>1, <1>2, EntryFound
<1>4. bus.req \in Requests
  BY <1>2 DEF SafeInv, TaskInv, BusInv
<1>5. QED
  BY <1>2, <1>3, <1>4 DEF Handles, Definition

\* A step that writes an answer.
Answers ==
  /\ bus.at # "write"
  /\ \E kind, pid, value :
       bus' = [bus EXCEPT !.at = "send", !.kind = kind, !.pid = pid, !.value = value]

LEMMA AnswerTasks ==
  ASSUME SafeInv, Answers, UNCHANGED <<waiting, app, changes, restarts>>,
         bootLoader' \in BOOLEAN, PersonalityCount(device') = PersonalityCount(device)
  PROVE  TaskInv'
<1>1. /\ bus'.at = "send"
      /\ bus' = [at |-> bus'.at, req |-> bus'.req, kind |-> bus'.kind, pid |-> bus'.pid,
                 value |-> bus'.value]
  BY DEF Answers, SafeInv, TaskInv, BusInv
<1>2. BusInv'
  BY <1>1 DEF BusInv
<1>3. AppInv' /\ QueueInv' /\ BoundsInv'
  BY DEF SafeInv, TaskInv, AppInv, QueueInv, BoundsInv
<1>4. QED
  BY <1>2, <1>3 DEF TaskInv

\* Answers that change no parameter.
LEMMA QuietAnswers ==
  ASSUME SafeInv, \/ Refuse \/ Simple \/ GetDeviceInfo \/ GetSupportedParameters
                  \/ GetParameterDescription \/ GetPersonalityDescription \/ AnswerPopped
  PROVE  SafeInv'
<1>1. Answers
  <2>1. bus.at # "write"
    BY DEF Refuse, Simple, GetDeviceInfo, GetSupportedParameters, GetParameterDescription,
       GetPersonalityDescription, AnswerPopped, Handles
  <2>2. \E kind, pid, value : Reply(kind, pid, value)
    BY DEF Refuse, Simple, GetDeviceInfo, GetSupportedParameters, GetParameterDescription,
       GetPersonalityDescription, AnswerPopped, Ack, Nack
  <2>3. QED
    BY <2>1, <2>2 DEF Reply, Answers
<1>2. /\ UNCHANGED <<device, staged, unsaved, lost, nvs>>
      /\ UNCHANGED <<waiting, app, changes, restarts, bootLoader>>
  BY DEF Refuse, Simple, GetDeviceInfo, GetSupportedParameters, GetParameterDescription,
     GetPersonalityDescription, AnswerPopped, Others, memory, queue
<1>3. Quiet
  BY <1>1, <1>2 DEF Quiet, Holds, Answers, memory
<1>4. /\ DeviceInv' /\ StoredInv' /\ NothingForgotten'
      /\ PersonalityCount(device') = PersonalityCount(device)
  BY <1>3, QuietSafe
<1>5. bootLoader' \in BOOLEAN
  BY <1>2 DEF SafeInv, TaskInv, BoundsInv
<1>6. TaskInv'
  BY <1>1, <1>2, <1>4, <1>5, AnswerTasks
<1>7. QED
  BY <1>4, <1>6 DEF SafeInv

\* What the handlers of SET and DISC set is what may be set.
LEMMA Settable ==
  ASSUME SafeInv
  PROVE  /\ SetSimple /\ bus.req.data # NoData => MayChange(bus.req.pid, bus.req.data)
         /\ SetLanguage => MayChange("LANGUAGE", bus.req.data)
         /\ SetPersonality => MayChange("DMX_PERSONALITY", <<bus.req.data, bus.value[2]>>)
         /\ SetResetDevice /\ bus.req.data # NoData => MayChange("RESET_DEVICE", bus.req.data)
         /\ ResetUnmutes => MayChange("DISC_MUTE", 0)
         /\ Discovery => /\ bus.req.pid \in {"DISC_UNIQUE_BRANCH", "DISC_MUTE", "DISC_UN_MUTE"}
                         /\ \A x : MayChange(bus.req.pid, x)
<1>1. \A p \in Needed : Exists(device, p)
  BY DEF SafeInv, DeviceInv, DeviceGood
<1>2. ASSUME SetSimple, bus.req.data # NoData
      PROVE  MayChange(bus.req.pid, bus.req.data)
  <2>1. /\ bus.req \in Requests /\ bus.req.cc = "SET" /\ Exists(device, bus.req.pid)
        /\ bus.req.pid \in NonVolatile \ {"DMX_PERSONALITY", "RESET_DEVICE"}
    BY <1>2, Handled, Handlers DEF SetSimple
  <2>2. QED
    BY <1>2, <2>1 DEF MayChange, Sets, NonVolatile
<1>3. ASSUME SetLanguage
      PROVE  MayChange("LANGUAGE", bus.req.data)
  <2>1. Exists(device, "LANGUAGE")
    BY <1>3, Handled, Handlers DEF SetLanguage
  <2>2. QED
    BY <2>1 DEF MayChange, NonVolatile
<1>4. ASSUME SetPersonality
      PROVE  MayChange("DMX_PERSONALITY", <<bus.req.data, bus.value[2]>>)
  <2> DEFINE x == <<bus.req.data, bus.value[2]>>
  <2>1. bus.value[2] = PersonalityCount(device) /\ bus.req.data \in 1..PersonalityCount(device)
    BY <1>4 DEF SetPersonality, SafeInv, TaskInv, BusInv
  <2>2. x \in {<<n, PersonalityCount(device)>> : n \in 1..PersonalityCount(device)}
    BY <2>1
  <2>3. x \in Sets("DMX_PERSONALITY")
    <3>1. PICK f \in Firmwares : PersonalityCount(device) = Len(f)
      BY Personalities DEF SafeInv, DeviceInv
    <3>2. QED
      BY <2>2, <3>1 DEF Sets
  <2>4. QED
    BY <1>1, <2>2, <2>3 DEF MayChange, Needed, NonVolatile
<1>5. ASSUME SetResetDevice, bus.req.data # NoData
      PROVE  MayChange("RESET_DEVICE", bus.req.data)
  <2>1. bus.req \in Requests /\ bus.req.cc = "SET" /\ bus.req.pid = "RESET_DEVICE"
    BY <1>5, Handled, Handlers DEF SetResetDevice
  <2>2. QED
    BY <1>1, <1>5, <2>1 DEF MayChange, Sets, Needed, NonVolatile
<1>6. MayChange("DISC_MUTE", 0)
  BY <1>1 DEF MayChange, Needed, NonVolatile
<1>7. ASSUME Discovery
      PROVE  /\ bus.req.pid \in {"DISC_UNIQUE_BRANCH", "DISC_MUTE", "DISC_UN_MUTE"}
             /\ \A x : MayChange(bus.req.pid, x)
  <2>1. /\ Exists(device, bus.req.pid)
        /\ bus.req.pid \in {"DISC_UNIQUE_BRANCH", "DISC_MUTE", "DISC_UN_MUTE"}
    BY <1>7, Handled, Handlers DEF Discovery
  <2>2. QED
    BY <2>1 DEF MayChange, NonVolatile
<1>8. QED
  BY <1>2, <1>3, <1>4, <1>5, <1>6, <1>7

LEMMA SetterChanges ==
  ASSUME SafeInv, \/ SetSimple \/ SetLanguage \/ CopyPersonality \/ SetPersonality
                  \/ SetResetDevice \/ ResetUnmutes \/ Discovery
  PROVE  Quiet \/ Changes
<1>1. \/ SetSimple \/ SetLanguage \/ CopyPersonality \/ SetPersonality
      \/ SetResetDevice \/ ResetUnmutes \/ Discovery
  OBVIOUS
<1>2. Holds
  BY <1>1 DEF SetSimple, SetLanguage, CopyPersonality, SetPersonality, SetResetDevice,
     ResetUnmutes, Discovery, Handles, Others, Holds
<1>3. UNCHANGED memory \/ \E pid, x : MayChange(pid, x) /\ Change(pid, x)
  <2>1. CASE SetSimple
    BY <2>1, Settable DEF SetSimple
  <2>2. CASE SetLanguage \/ CopyPersonality
    BY <2>2, Settable DEF SetLanguage, CopyPersonality
  <2>3. CASE SetPersonality \/ ResetUnmutes
    BY <2>3, Settable DEF SetPersonality, ResetUnmutes
  <2>4. CASE SetResetDevice
    <3>1. UNCHANGED memory \/ (Change("RESET_DEVICE", bus.req.data) /\ bus.req.data # NoData)
      BY <2>4, ResponderAssumption DEF SetResetDevice
    <3>2. QED
      BY <2>4, <3>1, Settable
  <2>5. CASE Discovery
    <3>1. UNCHANGED memory \/ \E x : Change(bus.req.pid, x)
      BY <2>5 DEF Discovery
    <3>2. QED
      BY <2>5, <3>1, Settable
  <2>6. QED
    BY <1>1, <2>1, <2>2, <2>3, <2>4, <2>5
<1>4. QED
  BY <1>2, <1>3 DEF Quiet, Changes

LEMMA SettersSafe ==
  ASSUME SafeInv, \/ SetSimple \/ SetLanguage \/ CopyPersonality \/ SetPersonality
                  \/ SetResetDevice \/ ResetUnmutes \/ Discovery
  PROVE  SafeInv'
<1>1. \/ SetSimple \/ SetLanguage \/ CopyPersonality \/ SetPersonality
      \/ SetResetDevice \/ ResetUnmutes \/ Discovery
  OBVIOUS
<1>2. /\ DeviceInv' /\ StoredInv' /\ NothingForgotten'
      /\ PersonalityCount(device') = PersonalityCount(device)
  BY SetterChanges, QuietSafe, ChangesSafe
<1>3. UNCHANGED <<waiting, app, changes, restarts>>
  BY <1>1 DEF SetSimple, SetLanguage, CopyPersonality, SetPersonality, SetResetDevice,
     ResetUnmutes, Discovery, Others, queue
<1>4. bootLoader' \in BOOLEAN
  <2>1. bootLoader \in BOOLEAN
    BY DEF SafeInv, TaskInv, BoundsInv
  <2>2. bootLoader' = bootLoader \/ bootLoader' = TRUE
    BY <1>1 DEF SetSimple, SetLanguage, CopyPersonality, SetPersonality, SetResetDevice,
       ResetUnmutes, Discovery, Others
  <2>3. QED
    BY <2>1, <2>2
<1>5. CASE Answers
  BY <1>2, <1>3, <1>4, <1>5, AnswerTasks DEF SafeInv
<1>6. CASE ~Answers
  <2>1. bus.at # "write"
    BY <1>1 DEF SetSimple, SetLanguage, CopyPersonality, SetPersonality, SetResetDevice,
       ResetUnmutes, Discovery, Handles
  <2>2. ~ \E kind, pid, value : Reply(kind, pid, value)
    BY <1>6, <2>1 DEF Reply, Answers
  <2>3. \/ CopyPersonality /\ HasPersonality(device, bus.req.data) /\ bus.req.data # NoData
           /\ Goto("personality", Value(device, "DMX_PERSONALITY"))
        \/ SetResetDevice /\ bus.req.data # NoData /\ Goto("unmute", bus.req.data)
    <3>1. CASE SetSimple \/ SetLanguage
      BY <2>2, <3>1 DEF SetSimple, SetLanguage, Ack, Nack
    <3>2. CASE SetPersonality \/ ResetUnmutes
      BY <2>2, <3>2 DEF SetPersonality, ResetUnmutes, Ack
    <3>3. CASE Discovery
      BY <2>2, <3>3 DEF Discovery, Ack, Nack
    <3>4. CASE CopyPersonality
      BY <2>2, <3>4 DEF CopyPersonality, Nack
    <3>5. CASE SetResetDevice
      BY <2>2, <3>5, ResponderAssumption DEF SetResetDevice, Nack
    <3>6. QED
      BY <1>1, <3>1, <3>2, <3>3, <3>4, <3>5
  <2>4. bus.at = "respond" /\ bus.req \in Requests
    BY <2>3, Handled DEF CopyPersonality, SetResetDevice
  <2>5. ASSUME CopyPersonality, HasPersonality(device, bus.req.data), bus.req.data # NoData,
               Goto("personality", Value(device, "DMX_PERSONALITY"))
        PROVE  BusInv'
    <3>1. /\ bus'.at = "personality" /\ bus'.req = bus.req
          /\ bus'.value = Value(device, "DMX_PERSONALITY")
          /\ bus' = [at |-> bus'.at, req |-> bus'.req, kind |-> bus'.kind, pid |-> bus'.pid,
                     value |-> bus'.value]
      BY <2>5 DEF Goto, SafeInv, TaskInv, BusInv
    <3>2. bus.req.pid = "DMX_PERSONALITY" /\ bus.req.cc = "SET"
      BY <2>5, Handled, Handlers DEF CopyPersonality
    <3>3. bus.req.data \in Nat
      BY <2>4, <2>5, <3>2, ResponderAssumption
    <3>4. PersonalityCount(device) \in Nat
          /\ Value(device, "DMX_PERSONALITY")[2] = PersonalityCount(device)
      <4>1. PersonalityCount(device) \in Nat
        BY Personalities DEF SafeInv, DeviceInv
      <4>2. Exists(device, "DMX_PERSONALITY")
        BY DEF SafeInv, DeviceInv, DeviceGood, Needed, NonVolatile
      <4>3. QED
        BY <4>1, <4>2 DEF PersonalityCount
    <3>5. bus.req.data \in 1..PersonalityCount(device)
      BY <2>5, <3>3, <3>4 DEF HasPersonality
    <3>6. QED
      BY <1>2, <2>4, <3>1, <3>4, <3>5 DEF BusInv
  <2>6. ASSUME SetResetDevice, bus.req.data # NoData, Goto("unmute", bus.req.data)
        PROVE  BusInv'
    <3>1. /\ bus'.at = "unmute" /\ bus'.req = bus.req
          /\ bus' = [at |-> bus'.at, req |-> bus'.req, kind |-> bus'.kind, pid |-> bus'.pid,
                     value |-> bus'.value]
      BY <2>6 DEF Goto, SafeInv, TaskInv, BusInv
    <3>2. bus.req.pid = "RESET_DEVICE"
      BY <2>6, Handled, Handlers DEF SetResetDevice
    <3>3. QED
      BY <2>4, <2>6, <3>1, <3>2 DEF BusInv
  <2>7. BusInv'
    BY <2>3, <2>5, <2>6
  <2>8. AppInv' /\ QueueInv' /\ BoundsInv'
    BY <1>2, <1>3, <1>4 DEF SafeInv, TaskInv, AppInv, QueueInv, BoundsInv
  <2>9. QED
    BY <1>2, <2>7, <2>8 DEF SafeInv, TaskInv
<1>7. QED
  BY <1>5, <1>6

\* A poll is refused, or answered that nothing waits, or takes what waited first.
NothingTaken ==
  /\ UNCHANGED waiting
  /\ \E kind, pid, value : Reply(kind, pid, value) /\ (kind # "ack" \/ pid \notin NonVolatile)

FirstTaken ==
  /\ waiting # <<>> /\ waiting' = Tail(waiting)
  /\ bus' = [bus EXCEPT !.at = "popped", !.pid = Head(waiting)]

LEMMA PollCases == QueuedMessage => NothingTaken \/ FirstTaken
<1> SUFFICES ASSUME QueuedMessage PROVE NothingTaken \/ FirstTaken
  OBVIOUS
<1>1. CASE bus.req.data = NoData \/ bus.req.data \notin StatusTypes
  <2>1. UNCHANGED waiting /\ \E reason : Reply("nack", bus.req.pid, reason)
    BY <1>1 DEF QueuedMessage, Nack, queue
  <2>2. QED
    BY <2>1 DEF NothingTaken
<1>2. CASE bus.req.data # NoData /\ bus.req.data \in StatusTypes /\ waiting = <<>>
  <2>1. UNCHANGED waiting /\ Reply("ack", "STATUS_MESSAGE", 0)
    BY <1>2 DEF QueuedMessage, Ack, queue
  <2>2. "STATUS_MESSAGE" \notin NonVolatile
    BY DEF NonVolatile
  <2>3. QED
    BY <2>1, <2>2 DEF NothingTaken
<1>3. CASE bus.req.data # NoData /\ bus.req.data \in StatusTypes /\ waiting # <<>>
  BY <1>3 DEF QueuedMessage, Messages!Unqueue, FirstTaken
<1>4. QED
  BY <1>1, <1>2, <1>3

\* The other steps of the responder's task.
LEMMA BusSafe ==
  ASSUME SafeInv, (\E req \in Requests : Receive(req)) \/ QueuedMessage \/ Send \/ TimedOut
  PROVE  SafeInv'
<1>1. (\E req \in Requests : Receive(req)) \/ QueuedMessage \/ Send \/ TimedOut
  OBVIOUS
<1>2. UNCHANGED <<device, staged, unsaved, lost, nvs, app, restarts>> /\ bus.at # "write"
  BY DEF Receive, QueuedMessage, Send, TimedOut, Handles, Others, memory
<1>3. Quiet
  BY <1>2 DEF Quiet, Holds, memory
<1>4. /\ DeviceInv' /\ StoredInv' /\ NothingForgotten'
      /\ PersonalityCount(device') = PersonalityCount(device)
  BY <1>3, QuietSafe
<1>5. AppInv'
  BY <1>2, <1>4 DEF SafeInv, TaskInv, AppInv
<1>6. ASSUME NEW req \in Requests, Receive(req)
      PROVE  BusInv' /\ QueueInv' /\ BoundsInv'
  <2>1. /\ UNCHANGED <<waiting, bootLoader, restarts>>
        /\ changes' = changes \/ (changes < MaxChanges /\ changes' = changes + 1)
        /\ bus' = [Listening EXCEPT !.at = "respond", !.req = req]
    BY <1>6 DEF Receive, Counted, queue
  <2>2. BusInv'
    BY <1>6, <2>1 DEF BusInv, Listening
  <2>3. changes' \in 0..MaxChanges
    BY <2>1, ResponderAssumption DEF SafeInv, TaskInv, BoundsInv
  <2>4. QED
    BY <2>1, <2>2, <2>3 DEF SafeInv, TaskInv, QueueInv, BoundsInv
<1>7. ASSUME QueuedMessage
      PROVE  BusInv' /\ QueueInv' /\ BoundsInv'
  <2>1. UNCHANGED <<bootLoader, changes, restarts>>
    BY <1>7 DEF QueuedMessage, Others
  <2>2. CASE NothingTaken
    <3>1. UNCHANGED waiting
      BY <2>2 DEF NothingTaken
    <3>2. BusInv'
      <4>1. PICK kind, pid, value : Reply(kind, pid, value)
        BY <2>2 DEF NothingTaken
      <4>2. bus' = [bus EXCEPT !.at = "send", !.kind = kind, !.pid = pid, !.value = value]
        BY <4>1 DEF Reply
      <4>3. QED
        BY <4>2 DEF SafeInv, TaskInv, BusInv
    <3>3. QED
      BY <2>1, <3>1, <3>2 DEF SafeInv, TaskInv, QueueInv, BoundsInv
  <2>3. CASE FirstTaken
    <3>1. waiting' = Tail(waiting) /\ bus' = [bus EXCEPT !.at = "popped", !.pid = Head(waiting)]
      BY <2>3 DEF FirstTaken
    <3>2. Head(waiting) \in NonVolatile /\ Tail(waiting) \in Seq(NonVolatile)
      <4>1. waiting \in Seq(NonVolatile) /\ waiting # <<>>
        BY <2>3 DEF SafeInv, TaskInv, QueueInv, FirstTaken
      <4> HIDE DEF NonVolatile
      <4>2. QED
        BY <4>1, HeadTailProperties
    <3>3. /\ bus'.at = "popped" /\ bus'.pid = Head(waiting)
          /\ bus' = [at |-> bus'.at, req |-> bus'.req, kind |-> bus'.kind, pid |-> bus'.pid,
                     value |-> bus'.value]
      BY <3>1 DEF SafeInv, TaskInv, BusInv
    <3>4. BusInv'
      BY <3>2, <3>3 DEF BusInv
    <3>5. QED
      BY <2>1, <3>1, <3>2, <3>4 DEF SafeInv, TaskInv, QueueInv, BoundsInv
  <2>4. QED
    BY <1>7, <2>2, <2>3, PollCases
<1>8. ASSUME Send
      PROVE  BusInv' /\ QueueInv' /\ BoundsInv'
  <2>1. UNCHANGED <<waiting, changes, restarts>> /\ bus' = Listening
    BY <1>8 DEF Send, queue
  <2>2. bootLoader' \in BOOLEAN
    BY <1>8 DEF Send
  <2>3. BusInv'
    BY <2>1 DEF BusInv, Listening
  <2>4. QED
    BY <2>1, <2>2, <2>3 DEF SafeInv, TaskInv, QueueInv, BoundsInv
<1>9. ASSUME TimedOut
      PROVE  BusInv' /\ QueueInv' /\ BoundsInv'
  <2>1. UNCHANGED <<waiting, bootLoader, changes, restarts>> /\ bus' = [bus EXCEPT !.at = "commit"]
    BY <1>9 DEF TimedOut, Others, queue
  <2>2. BusInv'
    BY <2>1 DEF SafeInv, TaskInv, BusInv
  <2>3. QED
    BY <2>1, <2>2 DEF SafeInv, TaskInv, QueueInv, BoundsInv
<1>10. QED
  BY <1>1, <1>4, <1>5, <1>6, <1>7, <1>8, <1>9 DEF SafeInv, TaskInv

\* What the application sets is what may be set.
LEMMA AppSettable ==
  ASSUME SafeInv
  PROVE  /\ \A s \in Settings : AppSet(s[1], s[2]) =>
              ParamOf(s[1]) \in NonVolatile /\ MayChange(ParamOf(s[1]), s[2])
         /\ AppSetPersonality => app.pid \in NonVolatile /\ MayChange(app.pid, app.value)
<1>1. \A p \in Needed : Exists(device, p)
  BY DEF SafeInv, DeviceInv, DeviceGood
<1>2. ASSUME NEW s \in Settings, AppSet(s[1], s[2])
      PROVE  ParamOf(s[1]) \in NonVolatile /\ MayChange(ParamOf(s[1]), s[2])
  <2>1. ParamOf(s[1]) \in NonVolatile /\ ParamOf(s[1]) # "DMX_PERSONALITY"
    BY <1>2, ResponderAssumption DEF AppSet, ParamOf
  <2>2. s[2] \in Sets(ParamOf(s[1]))
    BY <1>2, <2>1 DEF Sets
  <2>3. QED
    BY <1>1, <2>1, <2>2 DEF MayChange, Needed, NonVolatile
<1>3. ASSUME AppSetPersonality
      PROVE  app.pid \in NonVolatile /\ MayChange(app.pid, app.value)
  <2>1. /\ app.pid = "DMX_PERSONALITY"
        /\ app.value \in {<<n, PersonalityCount(device)>> : n \in 1..PersonalityCount(device)}
    BY <1>3 DEF AppSetPersonality, SafeInv, TaskInv, AppInv
  <2>2. app.value \in Sets("DMX_PERSONALITY")
    <3>1. PICK f \in Firmwares : PersonalityCount(device) = Len(f)
      BY Personalities DEF SafeInv, DeviceInv
    <3>2. QED
      BY <2>1, <3>1 DEF Sets
  <2>3. QED
    BY <1>1, <2>1, <2>2 DEF MayChange, Needed, NonVolatile
<1>4. QED
  BY <1>2, <1>3

LEMMA AppChanges ==
  ASSUME SafeInv, AppNext
  PROVE  Quiet \/ Changes
<1>1. Holds
  BY DEF AppNext, AppSet, AppCopyPersonality, AppSetPersonality, AppPush, Holds
<1>2. CASE AppPush \/ \E s \in Settings : AppCopyPersonality(s[2])
  BY <1>1, <1>2 DEF AppPush, AppCopyPersonality, Quiet
<1>3. ASSUME NEW s \in Settings, AppSet(s[1], s[2])
      PROVE  Changes
  BY <1>1, <1>3, AppSettable DEF AppSet, Changes
<1>4. ASSUME AppSetPersonality
      PROVE  Changes
  BY <1>1, <1>4, AppSettable DEF AppSetPersonality, Changes
<1>5. QED
  BY <1>2, <1>3, <1>4 DEF AppNext

LEMMA AppSafe ==
  ASSUME SafeInv, AppNext
  PROVE  SafeInv'
<1>1. /\ DeviceInv' /\ StoredInv' /\ NothingForgotten'
      /\ PersonalityCount(device') = PersonalityCount(device)
  BY AppChanges, QuietSafe, ChangesSafe
<1>2. /\ UNCHANGED <<bus, nvs, restarts, bootLoader>>
      /\ changes' = changes \/ (changes < MaxChanges /\ changes' = changes + 1)
  BY DEF AppNext, AppSet, AppCopyPersonality, AppSetPersonality, AppPush, Counted
<1>3. BusInv'
  BY <1>1, <1>2 DEF SafeInv, TaskInv, BusInv
<1>4. BoundsInv'
  <2>1. changes' \in 0..MaxChanges
    BY <1>2, ResponderAssumption DEF SafeInv, TaskInv, BoundsInv
  <2>2. QED
    BY <1>2, <2>1 DEF SafeInv, TaskInv, BoundsInv
<1>5. CASE AppPush
  <2>1. app.pid \in NonVolatile /\ waiting \in Seq(NonVolatile)
    BY <1>5 DEF AppPush, SafeInv, TaskInv, AppInv, QueueInv
  <2>2. waiting' = waiting \/ waiting' = Append(waiting, app.pid)
    BY <1>5 DEF AppPush, Push, queue, Messages!Queue
  <2>3. waiting' \in Seq(NonVolatile)
    BY <2>1, <2>2, WiderSeq
  <2>4. AppInv'
    BY <1>5 DEF AppPush, AppInv, Resting
  <2>5. QED
    BY <1>1, <1>3, <1>4, <2>3, <2>4 DEF SafeInv, TaskInv, QueueInv
<1>6. CASE \E s \in Settings : AppSet(s[1], s[2])
  <2>1. PICK s \in Settings : AppSet(s[1], s[2])
    BY <1>6
  <2>2. ParamOf(s[1]) \in NonVolatile
    BY ResponderAssumption
  <2>3. waiting' = waiting /\ app' = [at |-> "push", pid |-> ParamOf(s[1]), value |-> 0]
    BY <2>1 DEF AppSet, queue
  <2>4. AppInv'
    BY <2>2, <2>3 DEF AppInv
  <2>5. QED
    BY <1>1, <1>3, <1>4, <2>3, <2>4 DEF SafeInv, TaskInv, QueueInv
<1>7. CASE \E s \in Settings : s[1] = "DMX_PERSONALITY" /\ AppCopyPersonality(s[2])
  <2>1. PICK s \in Settings : s[1] = "DMX_PERSONALITY" /\ AppCopyPersonality(s[2])
    BY <1>7
  <2>2. s[2] \in Nat
    BY <2>1, ResponderAssumption
  <2>3. s[2] \in 1..PersonalityCount(device)
    <3>1. PersonalityCount(device) \in Nat
      BY Personalities DEF SafeInv, DeviceInv
    <3>2. QED
      BY <2>1, <2>2, <3>1 DEF AppCopyPersonality, HasPersonality
  <2>4. waiting' = waiting
        /\ app' = [at |-> "personality", pid |-> "DMX_PERSONALITY",
                   value |-> <<s[2], PersonalityCount(device)>>]
    BY <2>1 DEF AppCopyPersonality, queue
  <2>5. AppInv'
    BY <1>1, <2>3, <2>4 DEF AppInv, NonVolatile
  <2>6. QED
    BY <1>1, <1>3, <1>4, <2>4, <2>5 DEF SafeInv, TaskInv, QueueInv
<1>8. CASE AppSetPersonality
  <2>1. waiting' = waiting /\ app' = [app EXCEPT !.at = "push", !.value = 0] /\ app.at = "personality"
    BY <1>8 DEF AppSetPersonality, queue
  <2>2. AppInv'
    BY <2>1 DEF SafeInv, TaskInv, AppInv
  <2>3. QED
    BY <1>1, <1>3, <1>4, <2>1, <2>2 DEF SafeInv, TaskInv, QueueInv
<1>9. QED
  BY <1>5, <1>6, <1>7, <1>8 DEF AppNext

LEMMA InitSafe == Init => SafeInv
<1> SUFFICES ASSUME Init PROVE SafeInv
  OBVIOUS
<1>1. PICK f \in Firmwares : device = Installed(<<>>, f)
  BY DEF Init
<1>2. /\ staged = 0 /\ unsaved = {} /\ lost = {} /\ waiting = <<>> /\ bus = Listening
      /\ app = Resting /\ bootLoader = FALSE /\ changes = 0 /\ restarts = 0 /\ nvs = <<>>
  BY DEF Init
<1>3. DOMAIN <<>> = {}
  OBVIOUS
<1>4. DeviceGood(device) /\ StagedAt(device) = {}
  <2>1. DeviceGood(Installed(<<>>, f)) /\ StagedAt(Installed(<<>>, f)) = {}
    BY <1>3, InstalledGood
  <2>2. QED
    BY <1>1, <2>1
<1>5. DeviceInv /\ StoredInv /\ NothingForgotten
  BY <1>2, <1>3, <1>4, FS_EmptySet DEF DeviceInv, StoredInv, NothingForgotten
<1>6. BusInv /\ AppInv
  BY <1>2 DEF BusInv, AppInv, Listening, Resting
<1>7. QueueInv
  BY <1>2, EmptySeq DEF QueueInv
<1>8. BoundsInv
  <2>1. restarts \in 0..MaxRestarts /\ changes \in 0..MaxChanges
    BY <1>2, ResponderAssumption
  <2>2. QED
    BY <1>2, <2>1 DEF BoundsInv
<1>9. QED
  BY <1>5, <1>6, <1>7, <1>8 DEF SafeInv, TaskInv

LEMMA StepSafe == SafeInv /\ [Next]_vars => SafeInv'
<1> SUFFICES ASSUME SafeInv, [Next]_vars PROVE SafeInv'
  OBVIOUS
<1>1. CASE UNCHANGED vars
  <2>1. /\ UNCHANGED <<device, staged, unsaved, lost, nvs, waiting, bus, app, bootLoader>>
        /\ UNCHANGED <<changes, restarts>>
    BY <1>1 DEF vars, memory, queue
  <2>2. Quiet
    BY <2>1 DEF Quiet, Holds, memory
  <2>3. TaskInv'
    BY <2>1 DEF SafeInv, TaskInv, BusInv, AppInv, QueueInv, BoundsInv
  <2>4. QED
    BY <2>2, <2>3, QuietSafe DEF SafeInv
<1>2. CASE \E req \in Requests : Receive(req)
  BY <1>2, BusSafe
<1>3. CASE Restart \/ ReadNull \/ \E req \in Requests : Abort(req)
  BY <1>3, RestartSafe DEF Abort, ReadNull
<1>4. CASE Respond
  BY <1>4, QuietAnswers, SettersSafe, BusSafe DEF Respond, Get, SetOrDiscover
<1>5. CASE TimedOut \/ Committing
  BY <1>5, BusSafe, CommitSafe, WriteSafe DEF Committing
<1>6. CASE AppNext
  BY <1>6, AppSafe
<1>7. QED
  BY <1>1, <1>2, <1>3, <1>4, <1>5, <1>6 DEF Next

LEMMA SafeInvariant == Spec => []SafeInv
BY InitSafe, StepSafe, PTL DEF Spec

-----------------------------------------------------------------------------
(* Staging and ranges *)

\* The steps of the tasks, the queue and the tables keep to their ranges.
THEOREM TypeCorrect == Spec => []TypeOK
<1>1. SafeInv => TypeOK
  <2> SUFFICES ASSUME SafeInv PROVE TypeOK
    OBVIOUS
  <2>1. BusInv /\ AppInv /\ StoredInv /\ BoundsInv
    BY DEF SafeInv, TaskInv
  <2>2. \A i \in DOMAIN waiting : waiting[i] \in NonVolatile
    <3>1. waiting \in Seq(NonVolatile)
      BY DEF SafeInv, TaskInv, QueueInv
    <3> HIDE DEF NonVolatile
    <3>2. QED
      BY <3>1
  <2>3. staged \in 0..Len(device.table)
    <3>1. WellFormed(device) /\ staged = Cardinality(StagedAt(device))
      BY DEF SafeInv, DeviceInv, DeviceGood
    <3>2. StagedAt(device) \subseteq 1..Len(device.table) /\ Len(device.table) \in Nat
      BY <3>1, EntryTypes DEF StagedAt
    <3>3. IsFiniteSet(1..Len(device.table)) /\ Cardinality(1..Len(device.table)) = Len(device.table)
      BY <3>2, FS_Interval
    <3>4. IsFiniteSet(StagedAt(device))
          /\ Cardinality(StagedAt(device)) <= Len(device.table)
      BY <3>2, <3>3, FS_Subset
    <3>5. Cardinality(StagedAt(device)) \in Nat
      BY <3>4, FS_CardinalityType
    <3>6. QED
      BY <3>1, <3>2, <3>4, <3>5
  <2>4. bus.pid \in NonVolatile => Exists(device, bus.pid)
    BY DEF SafeInv, DeviceInv, DeviceGood, Needed
  <2>5. bootLoader \in BOOLEAN
    BY <2>1 DEF BoundsInv
  <2>6. restarts \in 0..MaxRestarts /\ changes \in 0..MaxChanges
    BY <2>1 DEF BoundsInv
  <2>7. DOMAIN nvs \subseteq NonVolatile /\ unsaved \subseteq NonVolatile /\ lost \subseteq unsaved
    BY <2>1 DEF StoredInv
  <2>8. QED
    BY <2>1, <2>2, <2>3, <2>4, <2>5, <2>6, <2>7 DEF TypeOK, BusInv, AppInv
<1>2. QED
  BY <1>1, SafeInvariant, PTL

\* The counter that a commit looks at is the number of staged parameters,
\* whoever sets parameters between the steps of a commit.
THEOREM StagingIsCounted == Spec => []StagedCounts
<1>1. SafeInv => StagedCounts
  BY DEF SafeInv, DeviceInv, StagedCounts
<1>2. QED
  BY <1>1, SafeInvariant, PTL

\* A value that is not stored is staged or being written, or its write failed.
THEOREM NothingIsForgotten == Spec => []NothingForgotten
<1>1. SafeInv => NothingForgotten
  BY DEF SafeInv
<1>2. QED
  BY <1>1, SafeInvariant, PTL

\* The current personality is one that the firmware has, after any restart
\* with any firmware.
THEOREM PersonalityIsKnown == Spec => []PersonalityInRange
<1>1. SafeInv => PersonalityInRange
  <2> SUFFICES ASSUME SafeInv PROVE PersonalityInRange
    OBVIOUS
  <2>1. PICK f \in Firmwares :
          /\ Value(device, "DMX_PERSONALITY_DESCRIPTION") = f
          /\ Len(f) \in Nat \ {0} /\ PersonalityCount(device) = Len(f)
          /\ \E n \in 1..Len(f) : CurrentPersonality(device) = n
    BY Personalities DEF SafeInv, DeviceInv
  <2>2. QED
    BY <2>1 DEF PersonalityInRange
<1>2. QED
  BY <1>1, SafeInvariant, PTL

-----------------------------------------------------------------------------
(* The responder is a store of parameters *)

LEMMA StepKinds ==
  SafeInv /\ [Next]_vars => Quiet \/ Changes \/ Commit \/ Write \/ Restart
<1> SUFFICES ASSUME SafeInv, [Next]_vars PROVE Quiet \/ Changes \/ Commit \/ Write \/ Restart
  OBVIOUS
<1>1. CASE UNCHANGED vars
  BY <1>1 DEF vars, memory, Quiet, Holds
<1>2. CASE TimedOut \/ (\E req \in Requests : Receive(req)) \/ Refuse \/ Get \/ Send
  BY <1>2 DEF TimedOut, Receive, Refuse, Get, Simple, GetDeviceInfo, GetSupportedParameters,
     GetParameterDescription, GetPersonalityDescription, QueuedMessage, AnswerPopped, Send,
     Handles, Others, Quiet, Holds
<1>3. CASE SetOrDiscover
  BY <1>3, SetterChanges DEF SetOrDiscover
<1>4. CASE AppNext
  BY <1>4, AppChanges
<1>5. QED
  BY <1>1, <1>2, <1>3, <1>4 DEF Next, Respond, Committing, Abort, ReadNull

\* What non-volatile parameters are, with what is stored of them.
values == [p \in NonVolatile |-> device.memory[p]]

LEMMA StoreStep == SafeInv /\ [Next]_vars => [Store!StoreNext]_(Store!storeVars)
<1> SUFFICES ASSUME SafeInv, [Next]_vars PROVE Store!StoreNext \/ (UNCHANGED <<values, nvs>>)
  BY DEF Store!storeVars, values
<1>1. CASE Quiet
  BY <1>1 DEF Quiet, Holds, memory, values
<1>2. CASE Changes
  <2>1. PICK pid, x : MayChange(pid, x) /\ Change(pid, x)
    BY <1>2 DEF Changes
  <2>2. UNCHANGED nvs
    BY <1>2 DEF Changes, Holds
  <2>3. \A p \in NonVolatile : device'.memory[p] = IF p = pid THEN x ELSE device.memory[p]
    BY <2>1, ChangeDevice DEF SafeInv
  <2>4. CASE pid \in NonVolatile
    <3>1. values' = [values EXCEPT ![pid] = x]
      BY <2>3, <2>4 DEF values
    <3>2. x \in Sets(pid)
      BY <2>1, <2>4 DEF MayChange
    <3>3. Store!Write(pid)
      BY <2>2, <3>1, <3>2 DEF Store!Write, values
    <3>4. QED
      BY <2>4, <3>3 DEF Store!StoreNext
  <2>5. CASE pid \notin NonVolatile
    BY <2>2, <2>3, <2>5 DEF values
  <2>6. QED
    BY <2>4, <2>5
<1>3. CASE Commit
  BY <1>3, CommitSafe DEF Commit, Others, values
<1>4. CASE Write
  <2>1. UNCHANGED device /\ bus.pid \in NonVolatile
        /\ nvs' \in {nvs, With(nvs, bus.pid, device.memory[bus.pid])}
    BY <1>4, WriteSafe
  <2>2. UNCHANGED values
    BY <2>1 DEF values
  <2>3. CASE nvs' = With(nvs, bus.pid, device.memory[bus.pid])
    <3>1. nvs' = [q \in DOMAIN nvs \cup {bus.pid} |->
                    IF q = bus.pid THEN values[bus.pid] ELSE nvs[q]]
      BY <2>1, <2>3 DEF With, values
    <3>2. Store!Store(bus.pid)
      BY <2>2, <3>1 DEF Store!Store, values
    <3>3. QED
      BY <2>1, <3>2 DEF Store!StoreNext
  <2>4. QED
    BY <2>1, <2>2, <2>3
<1>5. CASE Restart
  <2>1. UNCHANGED nvs
    BY <1>5, RestartSafe
  <2>2. PICK f \in Firmwares : \A p \in NonVolatile : device'.memory[p] =
          IF p \in DOMAIN nvs /\ IsUsable(p, nvs[p], f) THEN nvs[p] ELSE StartsFrom(p, f)
    BY <1>5, RestartSafe
  <2>3. values' = Store!StartOf(f)
    BY <2>2 DEF values, Store!StartOf
  <2>4. Store!Restart
    BY <2>1, <2>3 DEF Store!Restart, values
  <2>5. QED
    BY <2>4 DEF Store!StoreNext
<1>6. QED
  BY <1>1, <1>2, <1>3, <1>4, <1>5, StepKinds

LEMMA StoreInitial == Init => Store!StoreInit
<1> SUFFICES ASSUME Init PROVE Store!StoreInit
  OBVIOUS
<1>1. PICK f \in Firmwares : device = Installed(<<>>, f)
  BY DEF Init
<1>2. DOMAIN <<>> = {}
  OBVIOUS
<1>3. \A p \in NonVolatile : device.memory[p] = StartsFrom(p, f)
  <2>1. \A p \in NonVolatile : Installed(<<>>, f).memory[p] = StartsFrom(p, f)
    BY <1>2, InstalledGood
  <2>2. QED
    BY <1>1, <2>1
<1>4. values = [p \in NonVolatile |-> StartsFrom(p, f)] /\ nvs = <<>>
  BY <1>3 DEF values, Init
<1>5. QED
  BY <1>4 DEF Store!StoreInit, values

\* The table, the staging, the commits and the installation implement the store
\* of parameters: what is stored is what was set last, and a restart at any
\* step finds what was stored, or a default where it cannot be used.
THEOREM ResponderIsStore == Spec => StoresParameters
<1>1. SafeInv /\ [Next]_vars => [Store!StoreNext]_(Store!storeVars)
  BY StoreStep
<1>2. QED
  BY <1>1, StoreInitial, SafeInvariant, PTL DEF Spec, StoresParameters, Store!Spec

-----------------------------------------------------------------------------
(* What the controller learns *)

Learns(p) == (Told(p) \/ Telling(p)) /\ Fresh(p)

\* Without an answer on its way, the controller has been told.
LEMMA Untold ==
  ASSUME LearnInv, bus.at \notin {"popped", "send", "unmute"}
  PROVE  \A p \in NonVolatile : Told(p)
BY DEF LearnInv, Telling

LEMMA LearnsAll ==
  ASSUME seen' = [p \in NonVolatile |-> seen'[p]], \A p \in NonVolatile : Learns(p)'
  PROVE  LearnInv'
BY DEF LearnInv, Learns

\* An answer that tells of the value there is, or of one that was announced
\* again, while every other value stays as it was told.
LEMMA ReplyLearns ==
  ASSUME SafeInv, LearnInv, NEW kind, NEW pid, NEW value, Reply(kind, pid, value),
         UNCHANGED <<waiting, missed, app, seen>>,
         kind = "ack" /\ pid \in NonVolatile /\ value # NoData =>
           value = device'.memory[pid] \/ Announced(pid),
         \A p \in NonVolatile : \/ Told(p) /\ device'.memory[p] = device.memory[p]
                                \/ p = pid /\ kind = "ack" /\ value # NoData
  PROVE  LearnInv'
<1>1. bus'.at = "send" /\ bus'.kind = kind /\ bus'.pid = pid /\ bus'.value = value
  BY DEF Reply, SafeInv, TaskInv, BusInv
<1>2. ASSUME NEW p \in NonVolatile
      PROVE  Learns(p)'
  <2>1. Announced(p)' <=> Announced(p)
    BY DEF Announced, Waits
  <2>2. Fresh(p)'
    BY <1>1, <1>2, <2>1 DEF Fresh
  <2>3. CASE Told(p) /\ device'.memory[p] = device.memory[p]
    BY <2>1, <2>2, <2>3 DEF Learns, Told
  <2>4. CASE p = pid /\ kind = "ack" /\ value # NoData
    BY <1>1, <2>2, <2>4 DEF Learns, Telling
  <2>5. QED
    BY <1>2, <2>3, <2>4
<1>3. seen' = [p \in NonVolatile |-> seen'[p]]
  BY DEF LearnInv
<1>4. QED
  BY <1>2, <1>3, LearnsAll

\* A step of the responder's task that writes no answer and sets nothing.
LEMMA SilenceLearns ==
  ASSUME LearnInv, UNCHANGED <<waiting, missed, app, seen>>, device'.memory = device.memory,
         bus.at \notin {"popped", "send", "unmute"}, bus'.at \notin {"popped", "send", "unmute"}
  PROVE  LearnInv'
<1>1. ASSUME NEW p \in NonVolatile
      PROVE  Learns(p)'
  <2>1. Announced(p)' <=> Announced(p)
    BY DEF Announced, Waits
  <2>2. Told(p)
    BY <1>1, Untold
  <2>3. Told(p)'
    BY <2>1, <2>2 DEF Told
  <2>4. QED
    BY <2>3 DEF Learns, Fresh
<1>2. seen' = [p \in NonVolatile |-> seen'[p]]
  BY DEF LearnInv
<1>3. QED
  BY <1>1, <1>2, LearnsAll

\* Values are never what a request without data carries.
LEMMA RealValues ==
  ASSUME SafeInv
  PROVE  \A p \in NonVolatile : /\ device.memory[p] # NoData
                                /\ Exists(device, p) /\ Value(device, p) = device.memory[p]
<1>1. ASSUME NEW p \in NonVolatile
      PROVE  device.memory[p] # NoData
  <2>1. device.memory[p] \in Possible(p)
    BY <1>1 DEF SafeInv, DeviceInv, DeviceGood
  <2>2. NoData \notin Possible(p)
    BY <1>1, NoDataAssumption DEF Possible
  <2>3. QED
    BY <2>1, <2>2
<1>2. \A p \in NonVolatile : Exists(device, p) /\ Value(device, p) = device.memory[p]
  BY OwnCell DEF SafeInv, DeviceInv, DeviceGood, Needed, Own
<1>3. QED
  BY <1>1, <1>2

LEMMA GetLearns ==
  ASSUME SafeInv, LearnInv,
         \/ Refuse \/ Simple \/ GetDeviceInfo \/ GetSupportedParameters
         \/ GetParameterDescription \/ GetPersonalityDescription \/ AnswerPopped
  PROVE  LearnInv'
<1>1. UNCHANGED <<waiting, missed, app, seen, device>>
  BY DEF Refuse, Simple, GetDeviceInfo, GetSupportedParameters, GetParameterDescription,
     GetPersonalityDescription, AnswerPopped, Others, memory, queue, learnt
<1>2. CASE AnswerPopped
  <2>1. bus.at = "popped" /\ bus.pid \in NonVolatile /\ Reply("ack", bus.pid, Value(device, bus.pid))
    BY <1>2 DEF AnswerPopped, Ack, SafeInv, TaskInv, BusInv
  <2>2. Value(device, bus.pid) = device.memory[bus.pid] /\ device.memory[bus.pid] # NoData
    BY <2>1, RealValues
  <2>3. \A p \in NonVolatile : Told(p) \/ p = bus.pid
    BY <2>1 DEF LearnInv, Telling
  <2>4. QED
    BY <1>1, <2>1, <2>2, <2>3, ReplyLearns
<1>3. CASE ~AnswerPopped
  <2>1. bus.at = "respond"
    BY <1>3 DEF Refuse, Simple, GetDeviceInfo, GetSupportedParameters, GetParameterDescription,
       GetPersonalityDescription, Handles
  <2>2. \A p \in NonVolatile : Told(p)
    BY <2>1, Untold
  <2>3. ASSUME NEW kind, NEW pid, NEW value, Reply(kind, pid, value),
               kind # "ack" \/ pid \notin NonVolatile \/ value = device.memory[pid]
        PROVE  LearnInv'
    BY <1>1, <2>2, <2>3, ReplyLearns
  <2>4. CASE Refuse
    <3>1. \E kind \in {"nack", "silence"} : \E pid, value : Reply(kind, pid, value)
      BY <2>4 DEF Refuse, Nack
    <3>2. QED
      BY <2>3, <3>1
  <2>5. CASE Simple
    <3>1. Reply("ack", bus.req.pid, Value(device, bus.req.pid))
      BY <2>5 DEF Simple, Ack
    <3>2. QED
      BY <2>3, <3>1, RealValues
  <2>6. CASE GetDeviceInfo \/ GetSupportedParameters
    <3>1. \E pid \in {"DEVICE_INFO", "SUPPORTED_PARAMETERS"} : \E value : Reply("ack", pid, value)
      BY <2>6 DEF GetDeviceInfo, GetSupportedParameters, Ack
    <3>2. QED
      BY <2>3, <3>1 DEF NonVolatile
  <2>7. CASE GetParameterDescription
    <3>1. \E pid, value : Reply("nack", pid, value)
      BY <2>7 DEF GetParameterDescription, Nack
    <3>2. QED
      BY <2>3, <3>1
  <2>8. CASE GetPersonalityDescription
    <3>1. bus.req.pid \notin NonVolatile
      BY <2>8, Handled, Handlers DEF GetPersonalityDescription, NonVolatile
    <3>2. \/ \E value : Reply("ack", bus.req.pid, value)
          \/ \E pid, value : Reply("nack", pid, value)
      BY <2>8 DEF GetPersonalityDescription, Ack, Nack
    <3>3. QED
      BY <2>3, <3>1, <3>2
  <2>9. QED
    BY <1>3, <2>4, <2>5, <2>6, <2>7, <2>8
<1>4. QED
  BY <1>2, <1>3

\* Only the parameter that is set has another value afterwards.
LEMMA OthersStay ==
  ASSUME SafeInv, NEW pid, NEW x, MayChange(pid, x), Change(pid, x)
  PROVE  \A p \in NonVolatile : device'.memory[p] = IF p = pid THEN x ELSE device.memory[p]
BY ChangeDevice DEF SafeInv

LEMMA SetLearns ==
  ASSUME SafeInv, LearnInv,
         \/ SetSimple \/ SetLanguage \/ CopyPersonality \/ SetPersonality
         \/ SetResetDevice \/ ResetUnmutes \/ Discovery
  PROVE  LearnInv'
<1>1. UNCHANGED <<waiting, missed, app, seen>>
  BY DEF SetSimple, SetLanguage, CopyPersonality, SetPersonality, SetResetDevice,
     ResetUnmutes, Discovery, Others, queue, learnt
<1>2. bus.at \notin {"popped", "send", "unmute"} => \A p \in NonVolatile : Told(p)
  BY Untold
<1>3. ASSUME NEW kind, NEW pid, NEW value, Reply(kind, pid, value), UNCHANGED device,
             bus.at = "respond", kind # "ack" \/ pid \notin NonVolatile \/ value = NoData
      PROVE  LearnInv'
  BY <1>1, <1>2, <1>3, ReplyLearns
<1>4. ASSUME SetSimple
      PROVE  LearnInv'
  <2>1. bus.at = "respond" /\ Reply("ack", bus.req.pid, bus.req.data)
    BY <1>4 DEF SetSimple, Handles, Ack
  <2>2. CASE bus.req.data = NoData
    BY <1>3, <1>4, <2>1, <2>2 DEF SetSimple, memory
  <2>3. CASE bus.req.data # NoData
    <3>1. \A p \in NonVolatile : device'.memory[p] =
            IF p = bus.req.pid THEN bus.req.data ELSE device.memory[p]
      BY <1>4, <2>3, Settable, OthersStay DEF SetSimple
    <3>2. QED
      BY <1>1, <1>2, <2>1, <2>3, <3>1, ReplyLearns
  <2>4. QED
    BY <2>2, <2>3
<1>5. ASSUME SetLanguage
      PROVE  LearnInv'
  <2>1. bus.at = "respond"
    BY <1>5 DEF SetLanguage, Handles
  <2>2. CASE UNCHANGED memory /\ \E pid, value : Reply("nack", pid, value)
    BY <1>3, <2>1, <2>2 DEF memory
  <2>3. CASE Change("LANGUAGE", bus.req.data) /\ Reply("ack", "LANGUAGE", bus.req.data)
    <3>1. "LANGUAGE" \notin NonVolatile
      BY DEF NonVolatile
    <3>2. \A p \in NonVolatile : device'.memory[p] = device.memory[p]
      BY <1>5, <2>3, <3>1, Settable, OthersStay
    <3>3. QED
      BY <1>1, <1>2, <2>1, <2>3, <3>1, <3>2, ReplyLearns
  <2>4. QED
    BY <1>5, <2>2, <2>3 DEF SetLanguage, Ack, Nack
<1>6. ASSUME CopyPersonality
      PROVE  LearnInv'
  <2>1. bus.at = "respond" /\ UNCHANGED device
    BY <1>6 DEF CopyPersonality, Handles, memory
  <2>2. CASE \E pid, value : Reply("nack", pid, value)
    BY <1>3, <2>1, <2>2
  <2>3. CASE Goto("personality", Value(device, "DMX_PERSONALITY"))
    <3>1. bus'.at = "personality"
      BY <2>3 DEF Goto, SafeInv, TaskInv, BusInv
    <3>2. QED
      BY <1>1, <2>1, <3>1, SilenceLearns
  <2>4. QED
    BY <1>6, <2>2, <2>3 DEF CopyPersonality, Nack
<1>7. ASSUME SetPersonality
      PROVE  LearnInv'
  <2> DEFINE x == <<bus.req.data, bus.value[2]>>
  <2>1. bus.at = "personality" /\ Reply("ack", "DMX_PERSONALITY", x) /\ Change("DMX_PERSONALITY", x)
    BY <1>7 DEF SetPersonality, Ack
  <2>2. MayChange("DMX_PERSONALITY", x)
    BY <1>7, Settable
  <2> HIDE DEF x
  <2>3. \A p \in NonVolatile : device'.memory[p] =
          IF p = "DMX_PERSONALITY" THEN x ELSE device.memory[p]
    BY <2>1, <2>2, OthersStay
  <2>4. x # NoData
    BY <2>2, NoDataAssumption DEF MayChange, NonVolatile
  <2>5. QED
    BY <1>1, <1>2, <2>1, <2>3, <2>4, ReplyLearns
<1>8. ASSUME SetResetDevice
      PROVE  LearnInv'
  <2>1. bus.at = "respond"
    BY <1>8 DEF SetResetDevice, Handles
  <2>2. CASE UNCHANGED memory /\ \E pid, value : Reply("nack", pid, value)
    BY <1>3, <2>1, <2>2 DEF memory
  <2>3. CASE /\ Change("RESET_DEVICE", bus.req.data) /\ Goto("unmute", bus.req.data)
             /\ bus.req.data # NoData
    <3>1. \A p \in NonVolatile : device'.memory[p] =
            IF p = "RESET_DEVICE" THEN bus.req.data ELSE device.memory[p]
      BY <1>8, <2>3, Settable, OthersStay
    <3>2. bus'.at = "unmute" /\ bus'.req = bus.req
      BY <2>3 DEF Goto, SafeInv, TaskInv, BusInv
    <3>3. ASSUME NEW p \in NonVolatile
          PROVE  Learns(p)'
      <4>1. Announced(p)' <=> Announced(p)
        BY <1>1 DEF Announced, Waits
      <4>2. Told(p)
        BY <1>2, <2>1, <3>3
      <4>3. Fresh(p)'
        BY <3>1, <3>2, <3>3 DEF Fresh
      <4>4. Told(p)' \/ Telling(p)'
        BY <1>1, <3>1, <3>2, <3>3, <4>1, <4>2 DEF Told, Telling
      <4>5. QED
        BY <4>3, <4>4 DEF Learns
    <3>4. QED
      BY <1>1, <3>3, LearnsAll DEF LearnInv
  <2>4. QED
    BY <1>8, <2>2, <2>3, ResponderAssumption DEF SetResetDevice, Nack
<1>9. ASSUME ResetUnmutes
      PROVE  LearnInv'
  <2>1. /\ bus.at = "unmute" /\ bus.req.data # NoData
        /\ Reply("ack", "RESET_DEVICE", bus.req.data) /\ Change("DISC_MUTE", 0)
    BY <1>9 DEF ResetUnmutes, Ack, SafeInv, TaskInv, BusInv
  <2>2. \A p \in NonVolatile : device'.memory[p] = device.memory[p]
    <3>1. "DISC_MUTE" \notin NonVolatile
      BY DEF NonVolatile
    <3>2. QED
      BY <1>9, <2>1, <3>1, Settable, OthersStay
  <2>3. \A p \in NonVolatile : Told(p) \/ p = "RESET_DEVICE"
    BY <2>1 DEF LearnInv, Telling
  <2>4. bus.req.data = device.memory["RESET_DEVICE"] \/ Announced("RESET_DEVICE")
    BY <2>1 DEF LearnInv, Fresh, NonVolatile
  <2>5. bus.req.data = device'.memory["RESET_DEVICE"] \/ Announced("RESET_DEVICE")
    BY <2>2, <2>4 DEF NonVolatile
  <2>6. QED
    BY <1>1, <2>1, <2>2, <2>3, <2>5, ReplyLearns
<1>10. ASSUME Discovery
       PROVE  LearnInv'
  <2>1. bus.at = "respond" /\ bus.req.pid \notin NonVolatile
    BY <1>10, Settable DEF Discovery, Handles, NonVolatile
  <2>2. \A p \in NonVolatile : device'.memory[p] = device.memory[p]
    <3>1. UNCHANGED memory \/ \E x : Change(bus.req.pid, x) /\ MayChange(bus.req.pid, x)
      BY <1>10, Settable DEF Discovery
    <3>2. QED
      BY <2>1, <3>1, OthersStay DEF memory
  <2>3. \E kind, value : \E pid : /\ Reply(kind, pid, value)
                                  /\ kind # "ack" \/ pid \notin NonVolatile
    BY <1>10, <2>1 DEF Discovery, Ack, Nack
  <2>4. QED
    BY <1>1, <1>2, <2>1, <2>2, <2>3, ReplyLearns
<1>11. QED
  BY <1>4, <1>5, <1>6, <1>7, <1>8, <1>9, <1>10

\* The parameter that leaves the queue is told of in the answer.
LEMMA PopLearns ==
  ASSUME SafeInv, LearnInv, QueuedMessage
  PROVE  LearnInv'
<1>1. /\ UNCHANGED <<device, missed, app, seen>> /\ bus.at = "respond"
      /\ \A p \in NonVolatile : Told(p)
  BY Untold DEF QueuedMessage, Handles, Others, memory, learnt
<1>2. CASE NothingTaken
  <2>1. PICK kind, pid, value : Reply(kind, pid, value) /\ (kind # "ack" \/ pid \notin NonVolatile)
    BY <1>2 DEF NothingTaken
  <2> HIDE DEF NonVolatile
  <2>2. QED
    BY <1>1, <1>2, <2>1, ReplyLearns DEF NothingTaken
<1>3. CASE FirstTaken
  <2>1. waiting' = Tail(waiting) /\ bus'.at = "popped" /\ bus'.pid = Head(waiting)
    BY <1>3 DEF FirstTaken, SafeInv, TaskInv, BusInv
  <2>2. ASSUME NEW p \in NonVolatile, Waits(p), p # Head(waiting)
        PROVE  Waits(p)'
    <3>1. waiting \in Seq(NonVolatile)
      BY DEF SafeInv, TaskInv, QueueInv
    <3> HIDE DEF NonVolatile
    <3>2. PICK i \in DOMAIN waiting : waiting[i] = p
      BY <2>2 DEF Waits
    <3>3. i \in 2..Len(waiting)
      BY <1>3, <2>2, <3>1, <3>2
    <3>4. i - 1 \in DOMAIN Tail(waiting) /\ Tail(waiting)[i - 1] = p
      BY <1>3, <3>1, <3>2, <3>3
    <3>5. QED
      BY <2>1, <3>4 DEF Waits
  <2>3. ASSUME NEW p \in NonVolatile
        PROVE  Learns(p)'
    <3>1. Told(p)
      BY <1>1, <2>3
    <3>2. CASE p = Head(waiting)
      BY <2>1, <3>2 DEF Learns, Telling, Fresh
    <3>3. CASE p # Head(waiting)
      <4>1. Announced(p) => Announced(p)'
        BY <1>1, <2>2, <2>3, <3>3 DEF Announced
      <4>2. Told(p)'
        BY <1>1, <3>1, <4>1 DEF Told
      <4>3. QED
        BY <2>1, <4>2 DEF Learns, Fresh
    <3>4. QED
      BY <3>2, <3>3
  <2>4. QED
    BY <1>1, <2>3, LearnsAll DEF LearnInv
<1>4. QED
  BY <1>2, <1>3, PollCases

\* The controller gets the answer, or the parameter is one that it missed.
LEMMA SendLearns ==
  ASSUME SafeInv, LearnInv, Send
  PROVE  LearnInv'
<1> DEFINE tells == bus.kind = "ack" /\ bus.pid \in NonVolatile /\ bus.value # NoData
           fresh == bus.value = Value(device, bus.pid)
<1>1. /\ UNCHANGED <<device, waiting, app>> /\ bus.at = "send" /\ bus'.at = "receive"
  BY DEF Send, memory, queue, Listening
<1>2. PICK sent \in BOOLEAN :
        /\ seen' = IF tells /\ sent THEN [seen EXCEPT ![bus.pid] = bus.value] ELSE seen
        /\ missed' = CASE tells /\ sent /\ fresh -> missed \ {bus.pid}
                       [] tells /\ ~sent -> missed \cup {bus.pid}
                       [] OTHER -> missed
  BY DEF Send
<1>3. ASSUME NEW p \in NonVolatile
      PROVE  Told(p)'
  <2>1. (Told(p) \/ Telling(p)) /\ Fresh(p)
    BY <1>3 DEF LearnInv
  <2>2. Value(device, p) = device.memory[p]
    BY <1>3, RealValues
  <2>3. CASE tells /\ p = bus.pid
    <3>1. CASE sent /\ fresh
      <4>1. seen' = [seen EXCEPT ![p] = device.memory[p]]
        BY <1>2, <2>2, <2>3, <3>1
      <4>2. seen = [q \in NonVolatile |-> seen[q]]
        BY DEF LearnInv
      <4>3. seen'[p] = device.memory[p]
        BY <1>3, <4>1, <4>2
      <4>4. QED
        BY <1>1, <4>3 DEF Told
    <3>2. CASE sent /\ ~fresh
      <4>1. missed' = missed
        BY <1>2, <3>2
      <4>2. Announced(p)
        BY <1>1, <2>1, <2>2, <2>3, <3>2 DEF Fresh
      <4>3. QED
        BY <1>1, <4>1, <4>2 DEF Told, Announced, Waits
    <3>3. CASE ~sent
      <4>1. p \in missed'
        BY <1>2, <2>3, <3>3
      <4>2. QED
        BY <4>1 DEF Told, Announced
    <3>4. QED
      BY <3>1, <3>2, <3>3
  <2>4. CASE ~ (tells /\ p = bus.pid)
    <3>1. Told(p)
      BY <1>1, <1>3, <2>1, <2>4 DEF Telling
    <3>2. seen'[p] = seen[p]
      <4>1. CASE tells /\ sent
        <5>1. p # bus.pid /\ seen' = [seen EXCEPT ![bus.pid] = bus.value]
          BY <1>2, <2>4, <4>1
        <5>2. seen = [q \in NonVolatile |-> seen[q]]
          BY DEF LearnInv
        <5>3. QED
          BY <1>3, <5>1, <5>2
      <4>2. CASE ~ (tells /\ sent)
        BY <1>2, <4>2
      <4>3. QED
        BY <4>1, <4>2
    <3>3. p \in missed => p \in missed'
      <4>1. CASE tells /\ sent /\ fresh
        BY <1>2, <2>4, <4>1
      <4>2. CASE tells /\ ~sent
        BY <1>2, <4>2
      <4>3. CASE ~ (tells /\ sent /\ fresh) /\ ~ (tells /\ ~sent)
        BY <1>2, <4>3
      <4>4. QED
        BY <4>1, <4>2, <4>3
    <3>4. QED
      BY <1>1, <3>1, <3>2, <3>3 DEF Told, Announced, Waits
  <2>5. QED
    BY <2>3, <2>4
<1>4. seen' = [p \in NonVolatile |-> seen'[p]]
  <2>1. seen = [q \in NonVolatile |-> seen[q]]
    BY DEF LearnInv
  <2>2. QED
    BY <1>2, <2>1
<1>5. \A p \in NonVolatile : Learns(p)'
  BY <1>1, <1>3 DEF Learns, Fresh
<1>6. QED
  BY <1>4, <1>5, LearnsAll

\* What the application sets is announced.
LEMMA AppLearns ==
  ASSUME SafeInv, LearnInv, AppNext
  PROVE  LearnInv'
<1>1. UNCHANGED <<bus, seen>>
  BY DEF AppNext, AppSet, AppCopyPersonality, AppSetPersonality, AppPush, learnt
<1>2. ASSUME NEW pid \in NonVolatile, NEW x, MayChange(pid, x), Change(pid, x),
             app.at # "push", app'.at = "push", app'.pid = pid, UNCHANGED <<waiting, missed>>
      PROVE  LearnInv'
  <2>1. \A p \in NonVolatile : device'.memory[p] = IF p = pid THEN x ELSE device.memory[p]
    BY <1>2, OthersStay
  <2>2. ASSUME NEW p \in NonVolatile
        PROVE  Learns(p)'
    <3>1. CASE p = pid
      <4>1. Announced(p)'
        BY <1>2, <3>1 DEF Announced
      <4>2. QED
        BY <4>1 DEF Learns, Told, Fresh
    <3>2. CASE p # pid
      <4>1. device'.memory[p] = device.memory[p]
        BY <2>1, <2>2, <3>2
      <4>2. Announced(p) => Announced(p)'
        BY <1>2 DEF Announced, Waits
      <4>3. (Told(p) \/ Telling(p)) /\ Fresh(p)
        BY <2>2 DEF LearnInv
      <4>4. QED
        BY <1>1, <4>1, <4>2, <4>3 DEF Learns, Told, Telling, Fresh
    <3>3. QED
      BY <3>1, <3>2
  <2>3. QED
    BY <1>1, <2>2, LearnsAll DEF LearnInv
<1>3. ASSUME UNCHANGED device, \A p \in NonVolatile : Announced(p) => Announced(p)'
      PROVE  LearnInv'
  <2>1. ASSUME NEW p \in NonVolatile
        PROVE  Learns(p)'
    <3>1. (Told(p) \/ Telling(p)) /\ Fresh(p)
      BY <2>1 DEF LearnInv
    <3>2. Announced(p) => Announced(p)'
      BY <1>3, <2>1
    <3>3. QED
      BY <1>1, <1>3, <3>1, <3>2 DEF Learns, Told, Telling, Fresh
  <2>2. QED
    BY <1>1, <2>1, LearnsAll DEF LearnInv
<1>4. CASE AppPush
  <2>1. UNCHANGED device /\ app.at = "push"
    BY <1>4 DEF AppPush, memory
  <2>2. ASSUME NEW p \in NonVolatile, Announced(p)
        PROVE  Announced(p)'
    <3>1. CASE Waits(app.pid)
      <4>1. UNCHANGED <<waiting, missed>>
        BY <1>4, <3>1 DEF AppPush, Push, queue
      <4>2. QED
        BY <2>2, <3>1, <4>1 DEF Announced, Waits
    <3>2. CASE ~Waits(app.pid) /\ NoRoom
      <4>1. UNCHANGED waiting /\ missed' = missed \cup {app.pid}
        BY <1>4, <3>2 DEF AppPush, Push, queue
      <4>2. QED
        BY <2>2, <4>1 DEF Announced, Waits
    <3>3. CASE ~Waits(app.pid) /\ ~NoRoom
      <4>1. waiting' = Append(waiting, app.pid) /\ UNCHANGED missed
        BY <1>4, <3>3 DEF AppPush, Push, Messages!Queue
      <4>2. waiting \in Seq(NonVolatile) /\ app.pid \in NonVolatile
        BY <2>1 DEF SafeInv, TaskInv, QueueInv, AppInv
      <4> HIDE DEF NonVolatile
      <4>3. /\ DOMAIN waiting' = 1..Len(waiting) + 1 /\ Len(waiting) \in Nat
            /\ waiting'[Len(waiting) + 1] = app.pid
            /\ \A i \in DOMAIN waiting : i \in DOMAIN waiting' /\ waiting'[i] = waiting[i]
        BY <4>1, <4>2
      <4>4. p = app.pid => Waits(p)'
        BY <4>3 DEF Waits
      <4>5. Waits(p) => Waits(p)'
        BY <4>3 DEF Waits
      <4>6. QED
        BY <2>2, <4>1, <4>4, <4>5 DEF Announced
    <3>4. QED
      BY <3>1, <3>2, <3>3
  <2>3. QED
    BY <1>3, <2>1, <2>2
<1>5. CASE \E s \in Settings : AppSet(s[1], s[2])
  <2>1. PICK s \in Settings : AppSet(s[1], s[2])
    BY <1>5
  <2>2. ParamOf(s[1]) \in NonVolatile /\ MayChange(ParamOf(s[1]), s[2])
    BY <2>1, AppSettable
  <2>3. /\ app.at = "idle" /\ Change(ParamOf(s[1]), s[2]) /\ UNCHANGED <<waiting, missed>>
        /\ app' = [at |-> "push", pid |-> ParamOf(s[1]), value |-> 0]
    BY <2>1 DEF AppSet, queue, learnt
  <2>4. app'.at = "push" /\ app'.pid = ParamOf(s[1])
    BY <2>3
  <2>5. QED
    BY <1>2, <2>2, <2>3, <2>4
<1>6. CASE \E s \in Settings : AppCopyPersonality(s[2])
  <2>1. UNCHANGED <<device, waiting, missed>> /\ app.at # "push"
    BY <1>6 DEF AppCopyPersonality, memory, queue, learnt
  <2>2. \A p \in NonVolatile : Announced(p) => Announced(p)'
    BY <2>1 DEF Announced, Waits
  <2>3. QED
    BY <1>3, <2>1, <2>2
<1>7. CASE AppSetPersonality
  <2>1. app.pid \in NonVolatile /\ MayChange(app.pid, app.value)
    BY <1>7, AppSettable
  <2>2. /\ app.at = "personality" /\ Change(app.pid, app.value) /\ UNCHANGED <<waiting, missed>>
        /\ app' = [app EXCEPT !.at = "push", !.value = 0]
    BY <1>7 DEF AppSetPersonality, queue, learnt
  <2>3. app'.at = "push" /\ app'.pid = app.pid
    BY <2>2 DEF SafeInv, TaskInv, AppInv
  <2>4. QED
    BY <1>2, <2>1, <2>2, <2>3
<1>8. QED
  BY <1>4, <1>5, <1>6, <1>7 DEF AppNext

LEMMA InitLearns == Init => LearnInv
<1> SUFFICES ASSUME Init PROVE LearnInv
  OBVIOUS
<1>1. seen = [p \in NonVolatile |-> device.memory[p]] /\ bus = Listening
  BY DEF Init
<1>2. QED
  BY <1>1 DEF LearnInv, Told, Fresh, Listening

LEMMA StepLearns == SafeInv /\ LearnInv /\ [Next]_vars => LearnInv'
<1> SUFFICES ASSUME SafeInv, LearnInv, [Next]_vars PROVE LearnInv'
  OBVIOUS
<1>1. CASE UNCHANGED vars
  <2>1. UNCHANGED <<device, waiting, bus, app, seen, missed>>
    BY <1>1 DEF vars, memory, queue, learnt
  <2>2. QED
    BY <2>1 DEF LearnInv, Told, Telling, Fresh, Announced, Waits
<1>2. CASE (\E req \in Requests : Receive(req)) \/ TimedOut
  <2>1. UNCHANGED <<device, waiting, missed, app, seen>> /\ bus.at = "receive"
    BY <1>2 DEF Receive, TimedOut, Others, memory, queue, learnt
  <2>2. bus'.at \in {"respond", "commit"}
    BY <1>2 DEF Receive, TimedOut, Listening, SafeInv, TaskInv, BusInv
  <2>3. QED
    BY <2>1, <2>2, SilenceLearns
<1>3. CASE Committing
  <2>1. UNCHANGED <<waiting, missed, app, seen>> /\ bus.at \in {"commit", "write"}
    BY <1>3 DEF Committing, Commit, Write, Others, queue, learnt
  <2>2. device'.memory = device.memory
    BY <1>3, CommitSafe, WriteSafe DEF Committing
  <2>3. bus'.at \in {"receive", "write"}
    <3>1. \/ bus' = Listening
          \/ \E pid : bus' = [bus EXCEPT !.at = "write", !.pid = pid]
      BY <1>3 DEF Committing, Commit, Write
    <3>2. CASE bus' = Listening
      BY <3>2 DEF Listening
    <3>3. CASE \E pid : bus' = [bus EXCEPT !.at = "write", !.pid = pid]
      <4>1. PICK pid : bus' = [bus EXCEPT !.at = "write", !.pid = pid]
        BY <3>3
      <4>2. "at" \in DOMAIN bus
        BY DEF SafeInv, TaskInv, BusInv
      <4>3. QED
        BY <4>1, <4>2
    <3>4. QED
      BY <3>1, <3>2, <3>3
  <2>4. QED
    BY <2>1, <2>2, <2>3, SilenceLearns
<1>4. CASE Restart \/ ReadNull \/ \E req \in Requests : Abort(req)
  <2>1. PICK f \in Firmwares : Start(f)
    BY <1>4 DEF Restart, Abort, ReadNull
  <2>2. seen' = [p \in NonVolatile |-> device'.memory[p]] /\ bus' = Listening
    BY <2>1 DEF Start
  <2>3. QED
    BY <2>2 DEF LearnInv, Told, Fresh, Listening
<1>5. CASE Respond
  BY <1>5, GetLearns, SetLearns, PopLearns, SendLearns DEF Respond, Get, SetOrDiscover
<1>6. CASE AppNext
  BY <1>6, AppLearns
<1>7. QED
  BY <1>1, <1>2, <1>3, <1>4, <1>5, <1>6 DEF Next

\* The controller knows the value of every parameter, or its message waits or
\* is about to be pushed, or an answer about it was lost or is on its way.
THEOREM ControllerIsTold == Spec => []ControllerLearns
<1>1. SafeInv /\ LearnInv => ControllerLearns
  <2> SUFFICES ASSUME SafeInv, LearnInv, NEW p \in NonVolatile
               PROVE  \/ seen[p] = device.memory[p]
                      \/ Waits(p) \/ p \in missed
                      \/ app.at = "push" /\ app.pid = p
                      \/ bus.at \in {"popped", "send", "unmute"} /\ p \in {bus.pid, bus.req.pid}
    BY DEF ControllerLearns
  <2>1. Told(p) \/ Telling(p)
    BY DEF LearnInv
  <2>2. bus.at = "unmute" => bus.req.pid = "RESET_DEVICE"
    BY DEF SafeInv, TaskInv, BusInv
  <2>3. QED
    BY <2>1, <2>2 DEF Told, Announced, Telling
<1>2. Spec => [](SafeInv /\ LearnInv)
  <2>1. SafeInv /\ LearnInv /\ [Next]_vars => LearnInv'
    BY StepLearns
  <2>2. QED
    BY <2>1, InitLearns, SafeInvariant, PTL DEF Spec
<1>3. QED
  BY <1>1, <1>2, PTL
=============================================================================
