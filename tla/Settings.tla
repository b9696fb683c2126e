------------------------------- MODULE Settings -------------------------------
(***************************************************************************)
(* How an application gets its configuration (settings/settings.go,        *)
(* settings/envexpand.go) and its database (bootstrap/): defaults, a base  *)
(* file, override files and environment variables are merged, placeholders *)
(* are expanded, and the driver that was registered under the configured   *)
(* name builds a dialector from a DSN or from structured settings.         *)
(*                                                                         *)
(* A value is a literal, [var |-> "", text], or a placeholder              *)
(* ${var:text}, [var, text]; an environment variable holds either. The     *)
(* variable that overrides a key (SERVER__PORT for server.port) is named   *)
(* by the key. Viper is external.                                          *)
(***************************************************************************)
EXTENDS Naturals, Sequences, FiniteSets, TLC

CONSTANTS
  Setups,         \* [entry, explicit, base, extra, byEnv, environ]: see SettingsInit
  SettingDefaults,  \* key -> value; setDefaults
  Numerals,       \* the texts that are numbers
  DriverPackages  \* what driver packages register: [builder, names]

VARIABLES
  setup,      \* the call, the files and the environment
  merged,     \* the settings of the files so far
  config,     \* the Config
  registry,   \* the dialector registry: driver name -> builder
  opened,     \* the database: [builder, dsn] or [builder, structured]
  loadStage

settingsVars == <<setup, merged, config, registry, opened, loadStage>>

\* There is a default DSN, and no package but SQLite's registers SQLite's names.
ASSUME SettingsAssumption ==
  /\ "database.dsn" \in DOMAIN SettingDefaults
  /\ \A package \in DriverPackages :
       package.builder # "sqlite" =>
         \A i \in DOMAIN package.names : package.names[i] \notin {"sqlite", "sqlite3"}

Literal(text) == [var |-> "", text |-> text]
Unset == Literal("")
NoSettings == [key \in {} |-> Unset]
NoDatabase == [builder |-> "none"]
ConfigKeys == DOMAIN SettingDefaults

-----------------------------------------------------------------------------
(* Values.                                                                 *)

\* expandPlaceholders: an environment variable that is unset or empty gives the default.
Expanded(value, environ) ==
  IF value.var = "" THEN value
  ELSE IF value.var \in DOMAIN environ /\ environ[value.var] # Unset THEN environ[value.var]
  ELSE Literal(value.text)

\* What viper finds for a key: the environment, the files, the default.
Lookup(key, settings, environ) ==
  IF key \in DOMAIN environ /\ environ[key] # Unset THEN environ[key]
  ELSE IF key \in DOMAIN settings THEN settings[key] ELSE SettingDefaults[key]

\* The decoder's hook expands every string, the ones from the environment too, and
\* expandConfigStrings expands the result again.
ValueOf(key, settings, environ) ==
  Expanded(Expanded(Lookup(key, settings, environ), environ), environ).text

\* What comes first stays under what comes later.
MergeKeys(below, above) ==
  [key \in DOMAIN above \cup DOMAIN below |-> IF key \in DOMAIN above THEN above[key] ELSE below[key]]

-----------------------------------------------------------------------------
(* Databases.                                                              *)

\* normalizeDriverName, among the names the setups use.
DriverName(driver) == IF driver = "MySQL" THEN "mysql" ELSE driver

StructuredKeys(driver) ==
  {"database." \o driver \o "." \o part : part \in {"host", "user", "password", "name"}}

\* IsConfigured: some structured setting of the driver is not empty (the ports and
\* parameters are left out).
IsConfigured(values, driver) == \E key \in StructuredKeys(driver) : values[key] # ""

\* normalizeDatabaseConfig drops the default DSN, for the drivers it knows by these names.
NormalizedDSN(values) ==
  LET driver == values["database.driver"]
  IN IF /\ values["database.dsn"] = "app.db"
        /\ \/ driver = "mysql" /\ IsConfigured(values, "mysql")
           \/ driver \in {"postgres", "postgresql"} /\ IsConfigured(values, "postgres")
     THEN "" ELSE values["database.dsn"]

\* Plausible bug: left to normalizeDatabaseConfig, which takes names literally.
IgnoreNoDSN(values, builder) == FALSE

\* shouldIgnoreImplicitDefaultDSN.
IgnoreDefaultDSN(values, builder) ==
  /\ IsConfigured(values, builder)
  /\ values["database.driver"] \notin {"sqlite", "sqlite3"}
  /\ values["database.dsn"] = "app.db"

\* SQLite, MySQL and Postgres: the DSN, or else structured settings with a host and a name
\* (and a user, with a password for Postgres).
DatabaseOf(values, builder) ==
  LET dsn == values["database.dsn"]
      Set(part) == values["database." \o builder \o "." \o part] # ""
  IN IF builder = "sqlite"
     THEN IF dsn = "" THEN NoDatabase ELSE [builder |-> builder, dsn |-> dsn]
     ELSE IF dsn # "" /\ ~IgnoreDefaultDSN(values, builder)
     THEN [builder |-> builder, dsn |-> dsn]
     ELSE IF Set("host") /\ Set("name")
             /\ (builder = "postgres" /\ Set("password") => Set("user"))
     THEN [builder |-> builder, structured |-> [key \in StructuredKeys(builder) |-> values[key]]]
     ELSE NoDatabase

-----------------------------------------------------------------------------

SettingsTypeOK ==
  /\ loadStage \in {"start", "base", "merged", "loaded", "open", "failed"}
  /\ DOMAIN merged \subseteq ConfigKeys /\ DOMAIN config \subseteq ConfigKeys
  /\ opened.builder \in {"none", "sqlite", "mysql", "postgres"}

\* A setup: which function loads (Load, LoadWithOverrides, LoadForEnv), whether it was
\* given a file name, the base file ("there", "missing" or "broken") and its settings, the
\* override files it was given, taken together, the ones by environment that exist, and
\* the environment. An override file that cannot be read has the key "broken".
SettingsInit ==
  /\ setup \in Setups
  /\ merged = NoSettings /\ config = NoSettings
  /\ registry = [name \in {} |-> ""]
  /\ opened = NoDatabase /\ loadStage = "start"

LoadFails(stage) ==
  /\ loadStage = stage /\ loadStage' = "failed"
  /\ UNCHANGED <<setup, merged, config, registry, opened>>

\* RegisterDialector, from the init function of a package. A name that is taken is an
\* error, after the names before it have been registered.
RegisterDriver(package) ==
  /\ loadStage = "start"
  /\ \E taken \in 0..Len(package.names) :
       /\ \A i \in 1..taken : package.names[i] \notin DOMAIN registry
       /\ taken < Len(package.names) => package.names[taken + 1] \in DOMAIN registry
       /\ registry' = MergeKeys(registry, [name \in {package.names[i] : i \in 1..taken} |-> package.builder])
       /\ loadStage' = IF taken < Len(package.names) THEN "failed" ELSE "start"
  /\ UNCHANGED <<setup, merged, config, opened>>

\* ReadInConfig of the base file: it may be missing if it was not named.
ReadBase ==
  /\ loadStage = "start"
  /\ setup.base # "broken" /\ (setup.base = "missing" => ~setup.explicit)
  /\ merged' = IF setup.base = "missing" THEN NoSettings ELSE setup.settings
  /\ loadStage' = "base"
  /\ UNCHANGED <<setup, config, registry, opened>>

CannotReadBase ==
  /\ setup.base = "broken" \/ (setup.base = "missing" /\ setup.explicit)
  /\ LoadFails("start")

\* LoadForEnv looks up app.env, as it is written, in the base file and the environment.
PeekedEnv ==
  LET peeked == Lookup("app.env", merged, setup.environ)
  IN IF peeked = Unset THEN Literal("development") ELSE peeked

\* The settings of the override files; those that are missing are skipped.
Overrides ==
  CASE setup.entry = "LoadWithOverrides" -> setup.extra
    [] setup.entry = "LoadForEnv" /\ setup.explicit /\ PeekedEnv.var = ""
       /\ PeekedEnv.text \in DOMAIN setup.byEnv -> setup.byEnv[PeekedEnv.text]
    [] OTHER -> NoSettings

MergeOverrides ==
  /\ loadStage = "base" /\ "broken" \notin DOMAIN Overrides
  /\ merged' = MergeKeys(merged, Overrides)
  /\ loadStage' = "merged"
  /\ UNCHANGED <<setup, config, registry, opened>>

CannotReadOverride == "broken" \in DOMAIN Overrides /\ LoadFails("base")

\* unmarshalConfig, expandConfigStrings, normalizeDatabaseConfig.
Decode ==
  LET values == [key \in ConfigKeys |-> ValueOf(key, merged, setup.environ)]
  IN /\ loadStage = "merged"
     /\ IF values["server.port"] \notin Numerals
        THEN loadStage' = "failed" /\ UNCHANGED config
        ELSE /\ config' = [values EXCEPT !["database.dsn"] = NormalizedDSN(values)]
             /\ loadStage' = "loaded"
     /\ UNCHANGED <<setup, merged, registry, opened>>

\* InitDB: registeredDialector and the builder of the driver.
OpenDatabase ==
  LET driver == DriverName(config["database.driver"])
  IN /\ loadStage = "loaded"
     /\ opened' = IF driver \in DOMAIN registry
                  THEN DatabaseOf(config, registry[driver]) ELSE NoDatabase
     /\ loadStage' = IF opened' = NoDatabase THEN "failed" ELSE "open"
     /\ UNCHANGED <<setup, merged, config, registry>>

SettingsNext ==
  \/ \E package \in DriverPackages : RegisterDriver(package)
  \/ ReadBase \/ CannotReadBase \/ MergeOverrides \/ CannotReadOverride \/ Decode \/ OpenDatabase

SettingsSpec == SettingsInit /\ [][SettingsNext]_settingsVars

-----------------------------------------------------------------------------

\* A database server whose connection is configured by structured settings is never
\* asked to open the file app.db, which is the default DSN, however its name is
\* written; and a DSN that was set is used, whatever the structured settings say.
OpenedIsConfigured ==
  loadStage = "open" =>
    LET dsn == ValueOf("database.dsn", merged, setup.environ)
        builder == opened.builder
    IN /\ builder # "sqlite" /\ IsConfigured(config, builder) /\ dsn = "app.db"
            => "structured" \in DOMAIN opened
       /\ dsn \notin {"", "app.db"} => opened = [builder |-> builder, dsn |-> dsn]
=============================================================================
