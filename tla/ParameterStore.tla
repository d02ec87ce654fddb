--------------------------- MODULE ParameterStore ---------------------------
(***************************************************************************)
(* What a device promises of its non-volatile parameters: a value that was *)
(* set is kept until it is set again, it may be stored at any time after,  *)
(* what is stored is what was set last, and a restart finds what was       *)
(* stored, or a default where that cannot be used.                         *)
(***************************************************************************)
CONSTANTS
  Params,              \* the non-volatile parameters
  Values(_),           \* values a parameter may be set to
  Firmwares,           \* programs that a restart may find
  Usable(_, _, _),     \* a firmware starts from a stored value of a parameter
  Default(_, _)        \* what it starts from else

VARIABLES
  value,    \* of each parameter
  stored    \* of the parameters that are stored

storeVars == <<value, stored>>

StartOf(firmware) ==
  [p \in Params |-> IF p \in DOMAIN stored /\ Usable(p, stored[p], firmware)
                    THEN stored[p] ELSE Default(p, firmware)]

StoreInit ==
  /\ stored = <<>>
  /\ \E f \in Firmwares : value = [p \in Params |-> Default(p, f)]

Write(p) ==
  /\ \E v \in Values(p) : value' = [value EXCEPT ![p] = v]
  /\ UNCHANGED stored

Store(p) ==
  /\ stored' = [q \in DOMAIN stored \cup {p} |-> IF q = p THEN value[p] ELSE stored[q]]
  /\ UNCHANGED value

Restart ==
  /\ \E f \in Firmwares : value' = StartOf(f)
  /\ UNCHANGED stored

StoreNext == Restart \/ \E p \in Params : Write(p) \/ Store(p)

Spec == StoreInit /\ [][StoreNext]_storeVars
=============================================================================
