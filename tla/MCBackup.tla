------------------------------ MODULE MCBackup ------------------------------
(* One snapshot kept, Samba's passwords not always exported, a restore that fails and a second one.  *)
(* One runner: while runs do not overlap, those of the others are only at other times.               *)
EXTENDS Backup

MCOrder == <<"mk-nas.db", "passdb.tdb">>
============================================================================
