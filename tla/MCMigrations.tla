---------------------------- MODULE MCMigrations ----------------------------
(* What happens before a server serves: the schema of its database is brought  *)
(* up to date, by processes and files as a whole and by the text of each file, *)
(* and its configuration is loaded and its database opened. Each behaviour is  *)
(* of one of them, the others standing still.                                  *)
(*                                                                             *)
(* Migrations: a table, whose reverse is a DROP TABLE IF EXISTS, a column,     *)
(* whose reverse is not forgiving, two names for files and two processes that  *)
(* run migrate, on a database of each kind.                                    *)
EXTENDS Migrations, MigrationFiles, Settings

VARIABLE subject

allVars == <<subject, vars, fileVars, settingsVars>>

-----------------------------------------------------------------------------
(* Settings: files that name the drivers in different ways, with structured    *)
(* settings or a DSN, an environment that overrides or expands them, files     *)
(* that are missing or broken, and driver packages two of which share a name.  *)

MCDefaults ==
  "app.env" :> Literal("development") @@ "server.port" :> Literal("8080")
    @@ "database.driver" :> Literal("sqlite") @@ "database.dsn" :> Literal("app.db")
    @@ [key \in StructuredKeys("mysql") \cup StructuredKeys("postgres") |-> Unset]

Driver(name) == "database.driver" :> Literal(name)

Postgres(driver) ==
  Driver(driver) @@ "database.postgres.host" :> Literal("db")
    @@ "database.postgres.name" :> Literal("app")

MySQL(driver) ==
  Driver(driver) @@ "database.mysql.host" :> [var |-> "DB_HOST", text |-> "db"]
    @@ "database.mysql.name" :> Literal("app")

MCFiles ==
  { NoSettings, Driver("mysql"), Driver("sqlite3"),
    MySQL("mysql"), MySQL("MySQL"), MySQL("mariadb"),
    MySQL("mysql") @@ "database.dsn" :> Literal("root@/x"),
    Postgres("postgres"), Postgres("postgresql"),
    Postgres("postgres") @@ "database.postgres.password" :> Literal("pw"),
    "app.env" :> Literal("production"), "app.env" :> [var |-> "MODE", text |-> "production"] }

MCEnvirons ==
  { NoSettings,
    "database.dsn" :> [var |-> "DSN", text |-> "env.db"] @@ "server.port" :> Literal("80"),
    "DB_HOST" :> [var |-> "OTHER", text |-> "there"],
    "server.port" :> Literal("many"), "app.env" :> Literal("staging"), "database.dsn" :> Unset }

Plain ==
  [entry |-> "Load", explicit |-> TRUE, base |-> "there", settings |-> NoSettings,
   extra |-> NoSettings, environ |-> NoSettings,
   byEnv |-> "production" :> ("server.port" :> Literal("443"))
               @@ "development" :> ("database.dsn" :> Literal("dev.db"))]

MCSetups ==
  { [Plain EXCEPT !.entry = entry, !.explicit = explicit, !.settings = settings,
                  !.extra = Postgres("postgres"), !.environ = environ] :
      entry \in {"Load", "LoadWithOverrides", "LoadForEnv"}, explicit \in BOOLEAN,
      settings \in MCFiles, environ \in MCEnvirons }
  \cup
  { [Plain EXCEPT !.explicit = explicit, !.base = base] :
      explicit \in BOOLEAN, base \in {"missing", "broken"} }
  \cup
  { [Plain EXCEPT !.entry = entry, !.extra = "broken" :> Unset,
                  !.byEnv = "development" :> ("broken" :> Unset)] :
      entry \in {"LoadWithOverrides", "LoadForEnv"} }

MCPackages ==
  { [builder |-> "sqlite", names |-> <<"sqlite", "sqlite3">>],
    [builder |-> "mysql", names |-> <<"mysql">>],
    [builder |-> "mysql", names |-> <<"mariadb", "mysql">>],
    [builder |-> "postgres", names |-> <<"postgres", "postgresql">>] }

-----------------------------------------------------------------------------

(* The text of a file: every literal and comment around a semicolon, a quote   *)
(* or a marker, in pairs of statements; and triples of every kind of statement *)
(* on tables that are new or not, each of them repeated in one way or another. *)

Text(kinds) == [i \in DOMAIN kinds |-> Symbol(kinds[i])]
Pieces ==
  { Text(<<"word">>),
    Text(<<"single quote", ";", "single quote", "single quote", "--", "single quote">>),
    Text(<<"single quote", "backslash", "single quote", ";", "double quote", "single quote">>),
    Text(<<"double quote", "single quote", ";", "/*", "double quote">>),
    Text(<<"backtick", "backtick", "backtick", "double quote", ";", "backtick">>),
    Text(<<"/*", "single quote", ";", "--", "*/">>),
    Text(<<"--", ";", "backtick", "newline", "word">>),
    Text(<<"$$", ";", "$t$", "single quote", "newline", "$$">>),
    Text(<<"$t$", "$$", "--", "newline", ";", "$t$">>),
    Text(<<"newline", "-- Down", "word", "newline", "word">>) }

Statement(verb, table, name, to) ==
  <<[is |-> "ddl", verb |-> verb, table |-> table, name |-> name, to |-> to, safe |-> TRUE]>>
NewTable == Statement("create table", "new", "", "")
Verbs ==
  { NewTable, Statement("create table", "next", "", "new"),
    Statement("add column", "old", "note", ""), Statement("create index", "old", "i", "note"),
    Statement("create index", "new", "i", ""), Statement("add foreign key", "old", "fk", "new"),
    Statement("add constraint", "new", "c", ""), Statement("add key", "old", "", ""),
    Statement("alter table", "old", "", ""),
    <<[Statement("create table", "s.odd", "", "")[1] EXCEPT !.safe = FALSE]>> }

MCCollections ==
  { <<NewTable>> } \cup
  { <<NewTable \o p \o q, Statement("add column", "old", "note", "") \o r>> :
      p, q \in Pieces, r \in Pieces }
  \cup
  { <<a, <<NewLine>> \o b \o <<Semicolon, NewLine>>, c>> : a, b, c \in Verbs }
MCSchemaBefore == { [kind |-> "table", table |-> "old", name |-> "", to |-> ""] }

-----------------------------------------------------------------------------
MCInit ==
  /\ subject \in {"migrations", "files", "settings"}
  /\ subject = "settings" \/ setup = [Plain EXCEPT !.base = "broken"]
  /\ subject = "migrations" \/ dialect = CHOOSE kind \in Dialects : TRUE
  /\ subject = "files" \/ (sqlDialect = "sqlite" /\ statements = <<NewTable>>)
  /\ Init /\ SettingsInit /\ FilesInit

\* The application has its database, or has not come that far; the file has been
\* executed up and down, or cannot be.
Ended ==
  /\ \/ subject = "settings" /\ loadStage \in {"open", "failed"}
     \/ subject = "files" /\ fileStage \in {"refused", "rolled back"}
     \/ subject = "files" /\ fileStage = "applied" /\ parsed.irreversible
  /\ UNCHANGED allVars

MCNext ==
  \/ subject = "migrations" /\ Next /\ UNCHANGED <<subject, fileVars, settingsVars>>
  \/ subject = "files" /\ FilesNext /\ UNCHANGED <<subject, vars, settingsVars>>
  \/ subject = "settings" /\ SettingsNext /\ UNCHANGED <<subject, vars, fileVars>>
  \/ Ended

MCSpec == MCInit /\ [][MCNext]_allVars

\* All keep their types.
MCTypeOK == TypeOK /\ FilesTypeOK /\ SettingsTypeOK

\* No file is lost, none is applied or rolled back out of turn, and each does what
\* was collected for it and undoes it again.
MigrationsAreFaithful == FilesInOrder /\ [](ReadAsWritten /\ DownUndoesUp)

Symmetry == Permutations(Migrators)
=============================================================================
