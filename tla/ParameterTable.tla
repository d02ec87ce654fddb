--------------------------- MODULE ParameterTable ---------------------------
(***************************************************************************)
(* The parameters of a DMX device: the table of dmx/service.c and          *)
(* dmx/parameter.c, and what the rdm_register_ functions of rdm/responder  *)
(* put into it.  A device is a record of its table, a sequence of entries  *)
(* in the order of their registration, and of the memory that the entries  *)
(* point to: two entries may share a cell.  Only the root device exists:   *)
(* nothing in the component adds a sub-device.  Memory never runs out.     *)
(***************************************************************************)
EXTENDS Integers, Sequences

CONSTANTS
  RootParams,     \* root_device_parameter_count: entries of the table
  QueueSize,      \* queue_size_max, 0 for no queue
  LanguageLength  \* length of the code the application registers

Universe == 513   \* DMX_PACKET_SIZE_MAX

Empty == [table |-> <<>>, memory |-> <<>>]

\* The function f with the value v at x.
With(f, x, v) == [y \in DOMAIN f \cup {x} |-> IF y = x THEN v ELSE f[y]]

-----------------------------------------------------------------------------
(* dmx/service.c, dmx/parameter.c *)

\* dmx_parameter_get_entry(): the entry's index, 0 for none.
Entry(d, pid) ==
  IF \E i \in DOMAIN d.table : d.table[i].pid = pid
  THEN CHOOSE i \in DOMAIN d.table : d.table[i].pid = pid ELSE 0

Exists(d, pid) == Entry(d, pid) # 0

\* dmx_parameter_get_data(): the cell, and dmx_parameter_copy(): what is in it.
Cell(d, pid) == d.table[Entry(d, pid)].cell
Value(d, pid) == d.memory[Cell(d, pid)]

\* dmx_parameter_at() from index 0; it may look at one entry past a full
\* table, where it finds whatever the heap holds.
At(d, i, beyond) ==
  CASE i < Len(d.table) -> d.table[i + 1].pid
    [] i = RootParams -> beyond
    [] OTHER -> "none"

\* dmx_parameter_add()
Add(d, pid, type, cell, value) ==
  IF Exists(d, pid) \/ Len(d.table) = RootParams THEN d
  ELSE [table |-> Append(d.table, [pid |-> pid, type |-> type, cell |-> cell]),
        memory |-> IF cell \in DOMAIN d.memory THEN d.memory
                   ELSE With(d.memory, cell, value)]

\* Mutant: the parameters are staged one at a time.
StagesMutant(d, staged, pid) ==
  /\ d.table[Entry(d, pid)].type = "NON_VOLATILE"
  /\ staged = 0

\* A parameter is staged when it is set, unless it waits already.
Stages(d, staged, pid) == d.table[Entry(d, pid)].type = "NON_VOLATILE"

\* dmx_parameter_set(): the device after it.
Set(d, staged, pid, value) ==
  [table |-> [i \in DOMAIN d.table |->
                IF i = Entry(d, pid) /\ Stages(d, staged, pid)
                THEN [d.table[i] EXCEPT !.type = "STAGED"] ELSE d.table[i]],
   memory |-> [d.memory EXCEPT ![Cell(d, pid)] = value]]

StagedAt(d) == {i \in DOMAIN d.table : d.table[i].type = "STAGED"}

\* dmx_parameter_commit(): the entry that is committed first.
FirstStaged(d) == CHOOSE i \in StagedAt(d) : \A j \in StagedAt(d) : i <= j

Unstage(d, i) == [d EXCEPT !.table[i].type = "NON_VOLATILE"]

\* Mutant: what is stored is not read.
LoadedMutant(nvs, pid, default) == default

\* dmx_nvs_get(): what non-volatile storage holds of a parameter.
Loaded(nvs, pid, default) == IF pid \in DOMAIN nvs THEN nvs[pid] ELSE default

-----------------------------------------------------------------------------
(* dmx/device.c, rdm/responder/dmx_setup.c *)

\* A personality is a pair: the current one, and how many there are.
CurrentPersonality(d) ==
  IF Exists(d, "DMX_PERSONALITY") THEN Value(d, "DMX_PERSONALITY")[1] ELSE 0

PersonalityCount(d) ==
  IF Exists(d, "DMX_PERSONALITY") THEN Value(d, "DMX_PERSONALITY")[2] ELSE 0

HasPersonality(d, n) == 0 < n /\ n <= PersonalityCount(d)

PersonalityDescription(d, n) ==
  LET footprints == Value(d, "DMX_PERSONALITY_DESCRIPTION")
  IN IF n \in DOMAIN footprints THEN footprints[n] ELSE 0

Footprint(d, n) ==
  IF HasPersonality(d, n) /\ Exists(d, "DMX_PERSONALITY_DESCRIPTION")
  THEN PersonalityDescription(d, n) ELSE 0

StartAddress(d) ==
  IF Exists(d, "DMX_START_ADDRESS") THEN Value(d, "DMX_START_ADDRESS") ELSE 65535

\* Mutant: a personality of another firmware is kept.
PersonalityAtStartMutant(nvs, count) == Loaded(nvs, "DMX_PERSONALITY", <<1, count>>)

\* A stored personality is used if there are as many as when it was stored.
PersonalityAtStart(nvs, count) ==
  LET stored == Loaded(nvs, "DMX_PERSONALITY", <<1, count>>)
  IN IF stored[2] = count THEN stored ELSE <<1, count>>

RegisterDmxPersonality(d, nvs, count) ==
  Add(d, "DMX_PERSONALITY", "NON_VOLATILE", "DMX_PERSONALITY",
      PersonalityAtStart(nvs, count))

RegisterDmxPersonalityDescription(d, footprints) ==
  Add(d, "DMX_PERSONALITY_DESCRIPTION", "DYNAMIC", "DMX_PERSONALITY_DESCRIPTION",
      footprints)

\* The address is checked against the footprint only if the personality is
\* registered already.
RegisterDmxStartAddress(d, nvs) ==
  LET stored == Loaded(nvs, "DMX_START_ADDRESS", 1)
      current == CurrentPersonality(d)
      fits == current > 0 => stored + Footprint(d, current) <= Universe
  IN Add(d, "DMX_START_ADDRESS", "NON_VOLATILE", "DMX_START_ADDRESS",
         IF fits THEN stored ELSE 1)

-----------------------------------------------------------------------------
(* rdm/responder/discovery.c, queue_status.c *)

RegisterDiscUniqueBranch(d) ==
  Add(d, "DISC_UNIQUE_BRANCH", "STATIC", "none", 0)

\* The two mute parameters share a flag, whichever comes first.
RegisterDiscMute(d) ==
  IF Exists(d, "DISC_UN_MUTE")
  THEN Add(d, "DISC_MUTE", "STATIC", Cell(d, "DISC_UN_MUTE"), 0)
  ELSE Add(d, "DISC_MUTE", "DYNAMIC", "mute", 0)

RegisterDiscUnMute(d) ==
  IF Exists(d, "DISC_MUTE")
  THEN Add(d, "DISC_UN_MUTE", "STATIC", Cell(d, "DISC_MUTE"), 0)
  ELSE Add(d, "DISC_UN_MUTE", "DYNAMIC", "mute", 0)

RegisterQueuedMessage(d) ==
  Add(d, "QUEUED_MESSAGE", "DYNAMIC", "QUEUED_MESSAGE", 0)

-----------------------------------------------------------------------------
(* rdm/responder/product_info.c, device_control.c, power_lamp.c, rdm_info.c *)

RegisterDeviceInfo(d) ==
  Add(d, "DEVICE_INFO", "DYNAMIC", "DEVICE_INFO", "product")

RegisterSoftwareVersionLabel(d) ==
  Add(d, "SOFTWARE_VERSION_LABEL", "DYNAMIC", "SOFTWARE_VERSION_LABEL", "version")

RegisterManufacturerLabel(d) ==
  Add(d, "MANUFACTURER_LABEL", "STATIC", "MANUFACTURER_LABEL", "maker")

RegisterDeviceModelDescription(d) ==
  Add(d, "DEVICE_MODEL_DESCRIPTION", "DYNAMIC", "DEVICE_MODEL_DESCRIPTION", "model")

\* The label is non-volatile, and is not loaded.
RegisterDeviceLabel(d) ==
  Add(d, "DEVICE_LABEL", "NON_VOLATILE", "DEVICE_LABEL", "")

\* The check of the code's length is upside down: a code of two letters is
\* refused, and two letters of a longer one are kept.
RegisterLanguage(d) ==
  IF ~Exists(d, "LANGUAGE") /\ LanguageLength = 2 THEN d
  ELSE Add(d, "LANGUAGE", "DYNAMIC", "LANGUAGE", "en")

\* Nor are these two.
RegisterIdentifyDevice(d) ==
  Add(d, "IDENTIFY_DEVICE", "NON_VOLATILE", "IDENTIFY_DEVICE", 0)

RegisterResetDevice(d) ==
  Add(d, "RESET_DEVICE", "NON_VOLATILE", "RESET_DEVICE", 0)

RegisterDeviceHours(d, nvs) ==
  Add(d, "DEVICE_HOURS", "NON_VOLATILE", "DEVICE_HOURS", Loaded(nvs, "DEVICE_HOURS", 0))

RegisterLampHours(d, nvs) ==
  Add(d, "LAMP_HOURS", "NON_VOLATILE", "LAMP_HOURS", Loaded(nvs, "LAMP_HOURS", 0))

RegisterSupportedParameters(d) ==
  Add(d, "SUPPORTED_PARAMETERS", "STATIC", "none", 0)

RegisterParameterDescription(d) ==
  Add(d, "PARAMETER_DESCRIPTION", "STATIC", "none", 0)

Def(cc, get, set) == [cc |-> cc, get |-> get, set |-> set]

\* rdm_definition_set(): the class of commands and the handlers that are
\* registered with a parameter.
Definitions ==
  LET values == {"IDENTIFY_DEVICE", "DMX_START_ADDRESS", "DEVICE_LABEL", "DEVICE_HOURS",
                 "LAMP_HOURS"}
      discovery == {"DISC_UNIQUE_BRANCH", "DISC_MUTE", "DISC_UN_MUTE"}
      labels == {"SOFTWARE_VERSION_LABEL", "MANUFACTURER_LABEL", "DEVICE_MODEL_DESCRIPTION"}
      others == [DEVICE_INFO |-> Def("GET", "device_info", "none"),
                 SUPPORTED_PARAMETERS |-> Def("GET", "supported", "none"),
                 PARAMETER_DESCRIPTION |-> Def("GET", "description", "none"),
                 QUEUED_MESSAGE |-> Def("GET", "queued_message", "none"),
                 DMX_PERSONALITY |-> Def("GET_SET", "simple", "personality"),
                 DMX_PERSONALITY_DESCRIPTION |-> Def("GET", "personality_description", "none"),
                 LANGUAGE |-> Def("GET_SET", "language", "language"),
                 RESET_DEVICE |-> Def("SET", "none", "reset")]
  IN [pid \in values \cup discovery \cup labels \cup DOMAIN others |->
        CASE pid \in values -> Def("GET_SET", "simple", "simple")
          [] pid \in discovery -> Def("DISC", "discovery", "none")
          [] pid \in labels -> Def("GET", "simple", "none")
          [] OTHER -> others[pid]]

\* rdm_get_device_info(): all but the product is computed.
DeviceInfo(d) ==
  [personality |-> <<CurrentPersonality(d), PersonalityCount(d)>>,
   footprint |-> IF CurrentPersonality(d) > 0 THEN Footprint(d, CurrentPersonality(d)) ELSE 0,
   address |-> StartAddress(d)]

\* The PIDs of the minimum set are not reported.
Required ==
  {"DISC_UNIQUE_BRANCH", "DISC_MUTE", "DISC_UN_MUTE", "SUPPORTED_PARAMETERS",
   "PARAMETER_DESCRIPTION", "DEVICE_INFO", "SOFTWARE_VERSION_LABEL",
   "DMX_START_ADDRESS", "IDENTIFY_DEVICE"}

SupportedParameters(d, beyond) ==
  {At(d, i, beyond) : i \in 0..RootParams} \ (Required \cup {"none"})

-----------------------------------------------------------------------------
(* dmx_driver_install(): the order of the registrations. *)

InstallRequired(nvs, footprints) ==
  LET base == RegisterIdentifyDevice(RegisterSoftwareVersionLabel(RegisterDeviceInfo(
                RegisterDiscUnMute(RegisterDiscMute(RegisterDiscUniqueBranch(Empty))))))
  IN IF footprints = <<>> THEN base ELSE RegisterDmxStartAddress(base, nvs)

InstallOptional(d, nvs, footprints) ==
  LET queued == IF QueueSize > 0 THEN RegisterQueuedMessage(d) ELSE d
      maker == RegisterManufacturerLabel(queued)
      dmx == IF footprints = <<>> THEN maker
             ELSE RegisterDmxPersonalityDescription(
                    RegisterDmxPersonality(maker, nvs, Len(footprints)), footprints)
  IN RegisterParameterDescription(RegisterSupportedParameters(RegisterDeviceLabel(dmx)))

\* What an application registers after that.
RegisterMore(d, nvs) ==
  RegisterLanguage(RegisterDeviceModelDescription(
    RegisterLampHours(RegisterDeviceHours(RegisterResetDevice(d), nvs), nvs)))

Installed(nvs, footprints) ==
  RegisterMore(InstallOptional(InstallRequired(nvs, footprints), nvs, footprints), nvs)
=============================================================================
