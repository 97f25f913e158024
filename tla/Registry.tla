------------------------------- MODULE Registry -------------------------------
(***************************************************************************)
(* The provider registry: providers/registry.py, the settings it reads     *)
(* (config.py) and what GET /providers shows of it (api/providers.py).     *)
(*                                                                         *)
(* Settings are read once; build_providers then makes one adapter of every *)
(* provider that takes part in searches, with limits taken from its        *)
(* options.  PROVIDER_CONFIG_JSON is free JSON: an entry or an option may  *)
(* be missing (Absent) or be something else than is expected (Junk).       *)
(* Timeouts and the country of Adzuna are left out, and so is concurrency, *)
(* which nothing bounds: PagePool takes any number of workers, none too.   *)
(***************************************************************************)
EXTENDS Integers, FiniteSets

CONSTANTS
  Absent,            \* no such entry or option
  Junk,              \* an entry that is no object; an option that is no number
  MaxCap,            \* the literal 1_000 of _factory
  MaxBudget,         \* the literal 50
  DefaultCap,        \* the literals 50, 100 and 200, by provider
  DefaultBudget      \* the literals 1 and 10, by provider

KnownKeys == {"himalayas", "remoteok", "jobicy", "adzuna", "remotive", "weworkremotely"}
OptionNames == {"request_budget", "result_cap", "batch_size"}

ASSUME RegistryAssumption ==
  /\ Absent # Junk /\ Absent \notin Int /\ Junk \notin Int
  /\ {MaxCap, MaxBudget} \subseteq Nat \ {0}
  /\ DefaultCap \in [KnownKeys -> 1..MaxCap]
  /\ DefaultBudget \in [KnownKeys -> 1..MaxBudget]

\* ProviderConfigEntry.
Entry(options) == [enabled : BOOLEAN, options : options]

\* Settings: provider_config, an entry or Absent or Junk for every known key; whether it
\* has an entry for another key; whether both credentials of Adzuna are more than blanks.
Settings(options) ==
  [config : [KnownKeys -> {Absent, Junk} \cup Entry(options)],
   stray : BOOLEAN, credentials : BOOLEAN]

-----------------------------------------------------------------------------
(* Which providers take part.                                              *)

ConfigEnabled(settings, key) ==
  settings.config[key] # Absent => settings.config[key].enabled

CredentialsPresent(settings, key) == key = "adzuna" => settings.credentials

\* resolve_provider_state, and what GET /providers shows.
ProviderState(settings, key) ==
  CASE ~ConfigEnabled(settings, key) -> "disabled"
    [] ConfigEnabled(settings, key) /\ ~CredentialsPresent(settings, key) -> "unconfigured"
    [] OTHER -> "enabled"

\* The process does not start: a malformed entry, an unknown key, or no enabled key.
Refused(settings) ==
  \/ \E key \in KnownKeys : settings.config[key] = Junk
  \/ settings.stray
  \/ \A key \in KnownKeys : ~ConfigEnabled(settings, key)

\* build_providers.  It may be empty: all that is enabled may lack its credentials.
BuildProviders(settings) ==
  {key \in KnownKeys : ProviderState(settings, key) = "enabled"}

-----------------------------------------------------------------------------
(* The limits of an adapter: _factory.                                     *)

Options(settings, key) ==
  IF settings.config[key] = Absent THEN [name \in OptionNames |-> Absent]
  ELSE settings.config[key].options

\* A float (cut off to an integer) and a string of digits stand here for the integer that
\* _coerce_int makes of them; Junk is any other value.
CoerceInt(value, default) == IF value \in {Absent, Junk} THEN default ELSE value

\* Wrong variant: the least legal value is taken for out of range.
BoundedOptionAbove(value, default, maximum) ==
  LET parsed == CoerceInt(value, default)
  IN IF 1 < parsed /\ parsed <= maximum THEN parsed ELSE default

\* A value out of range is not brought into it, but replaced by the default.
BoundedOption(value, default, maximum) ==
  LET parsed == CoerceInt(value, default)
  IN IF 1 <= parsed /\ parsed <= maximum THEN parsed ELSE default

\* result_cap, and for the single feeds _feed_item_cap and RemoteOK's _batch_size: most
\* results of one search.
ResultCapOf(settings, key) ==
  LET options == Options(settings, key)
      value == IF key = "remoteok" /\ options.result_cap = Absent
               THEN options.batch_size ELSE options.result_cap
  IN BoundedOption(value, DefaultCap[key], MaxCap)

\* We Work Remotely: results of one batch.
BatchSizeOf(settings, key) ==
  LET options == Options(settings, key)
      value == IF options.result_cap = Absent THEN options.batch_size ELSE options.result_cap
  IN BoundedOption(value, DefaultCap[key], MaxCap)

\* request_budget: the requests of a search of a paginating provider, the attempts of
\* the others.
RequestBudgetOf(settings, key) ==
  BoundedOption(Options(settings, key).request_budget, DefaultBudget[key], MaxBudget)
=============================================================================
