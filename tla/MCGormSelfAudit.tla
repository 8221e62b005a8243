--------------------------- MODULE MCGormSelfAudit ---------------------------
(***************************************************************************)
(* Both plugins under the tables Migrate and MigrateWithTable create.      *)
(***************************************************************************)
EXTENDS GormSelfAudit

Tables == {"users", "orders", "sessions"}

(* Config{} after Migrate(db). *)
ByMigrate ==
    [plugin |-> "postgres-gorm", skipTables |-> {}, tableName |-> "audits",
     versionTable |-> "audits_versions", migrated |-> {"audits", "audit_versions"}]
(* Config{} after MigrateWithTable(db, ""). *)
ByMigrateWithTable == [ByMigrate EXCEPT !.migrated = {"audits", "audits_versions"}]

(* Config{} of the plugin of the module root. *)
Root == [ByMigrate EXCEPT !.plugin = "root", !.migrated = {"audits"}]

(* Audits in a table of another name. *)
Custom(base) ==
    [base EXCEPT !.tableName = "trail", !.versionTable = "trail_versions",
                   !.migrated = {"trail", "trail_versions"}, !.skipTables = @ \cup {"audits"}]

(* The schema names of the library's tables are skipped by hand, or by     *)
(* default, or a table is missing.                                         *)
SkipsVersions ==
    [ByMigrateWithTable EXCEPT !.skipTables = {"audit_versions", "sessions"}]
Survivors ==
    {SkipsVersions, Custom(SkipsVersions), Root, Custom(Root),
     [Root EXCEPT !.skipTables = {"sessions"}],
     ByMigrate, [SkipsVersions EXCEPT !.migrated = {"audits_versions"}],
     [Root EXCEPT !.migrated = {}]}

Migrated == {ByMigrate}

(* Own rows that no name skips, and for the plugin of the module root no   *)
(* table to write them to.                                                 *)
Default ==
    {ByMigrateWithTable, [Custom(Root) EXCEPT !.skipTables = {}, !.migrated = {}]}
=============================================================================
