---------------------------- MODULE MediaImport ----------------------------
(***************************************************************************)
(* The import of the asset library into the object store                   *)
(* (local_media_migration, run by migrate_local): file by file, the source *)
(* is hashed, the store is asked for the key, the file is read and put     *)
(* under a temporary name, renamed, and hashed again.  The run may stop at *)
(* any point and be started again; its manifest is written at its end.     *)
(*                                                                         *)
(* Somebody may edit the library at any time.  Uploads to the server (the  *)
(* module Media) are not let in during a run.                              *)
(***************************************************************************)
EXTENDS Integers

CONSTANTS
  Files,      \* number of files, in the order of the run
  Contents,
  Images,     \* contents that are an allowed image
  Nothing

VARIABLES
  source,     \* contents of the files
  object,     \* the store: contents under each file's key
  run,        \* the run under way
  entries,    \* its report so far, in memory: status, sha256_source
  manifest    \* the report of the last run that ended

vars == <<source, object, run, entries, manifest>>

Index == 1..Files
NoEntry == [status |-> "NONE", hash |-> Nothing]
NoReport == [i \in Index |-> NoEntry]
Stopped == [step |-> "stopped", at |-> 1, dry |-> FALSE, hash |-> Nothing, payload |-> Nothing]

Init ==
  /\ source \in [Index -> Contents]
  /\ object = [i \in Index |-> Nothing]
  /\ run = Stopped
  /\ entries = NoReport /\ manifest = NoReport

Start(dry) ==
  /\ run = Stopped
  /\ run' = [Stopped EXCEPT !.step = "hash", !.dry = dry]
  /\ UNCHANGED <<source, object, entries, manifest>>

At == run.at
Go(step) == run' = [run EXCEPT !.step = step]
\* The report keeps every hash; only those of Claims are looked at again.
Claims == {"COPIED", "ALREADY_IDENTICAL"}
Record(status) ==
  /\ entries' = [entries EXCEPT ![At] =
       [status |-> status, hash |-> IF status \in Claims THEN run.hash ELSE Nothing]]
  /\ run' = [run EXCEPT !.step = IF At = Files THEN "end" ELSE "hash",
                        !.at = IF At = Files THEN At ELSE At + 1,
                        !.hash = Nothing, !.payload = Nothing]

\* classify_source_file, sha256_of_file, and the end of a dry run.
Hash ==
  /\ run.step = "hash"
  /\ \/ source[At] \notin Images /\ Record("UNSUPPORTED")
     \/ source[At] \in Images /\ run.dry /\ Record("PLANNED")
     \/ /\ source[At] \in Images /\ ~run.dry
        /\ run' = [run EXCEPT !.step = "look", !.hash = source[At]]
        /\ UNCHANGED entries
  /\ UNCHANGED <<source, object, manifest>>

\* object_exists and get_metadata.
Look ==
  /\ run.step = "look"
  /\ \/ object[At] = run.hash /\ Record("ALREADY_IDENTICAL")
     \/ object[At] \notin {run.hash, Nothing} /\ Record("COLLISION")
     \/ object[At] = Nothing /\ Go("read") /\ UNCHANGED entries
  /\ UNCHANGED <<source, object, manifest>>

\* The file is read again: it may have been edited since it was hashed.
ReadFile ==
  /\ run.step = "read"
  /\ run' = [run EXCEPT !.step = "replace", !.payload = source[At]]
  /\ UNCHANGED <<source, object, entries, manifest>>

\* put_object: a temporary file, which no other step reads, and os.replace.
Replace ==
  /\ run.step = "replace"
  /\ object' = [object EXCEPT ![At] = run.payload]
  /\ Go("verify")
  /\ UNCHANGED <<source, entries, manifest>>

Verify_Trusts ==   \* mutant: what was put is not read back
  /\ run.step = "verify"
  /\ Record("COPIED")
  /\ UNCHANGED <<source, object, manifest>>

\* The checksum of what was written.
Verify ==
  /\ run.step = "verify"
  /\ Record(IF object[At] = run.hash THEN "COPIED" ELSE "CHECKSUM_MISMATCH")
  /\ UNCHANGED <<source, object, manifest>>

\* An exception ends the file, not the run.
FailFile ==
  /\ run.step \in {"hash", "look", "read", "replace", "verify"}
  /\ Record("FAILED")
  /\ UNCHANGED <<source, object, manifest>>

\* write_manifest.
End ==
  /\ run.step = "end"
  /\ manifest' = entries /\ entries' = NoReport
  /\ run' = Stopped
  /\ UNCHANGED <<source, object>>

\* The process is killed: nothing cleans up.
Kill ==
  /\ run # Stopped
  /\ run' = Stopped /\ entries' = NoReport
  /\ UNCHANGED <<source, object, manifest>>

EditLibrary(i, b) ==
  /\ source' = [source EXCEPT ![i] = b]
  /\ UNCHANGED <<object, run, entries, manifest>>

File == Hash \/ Look \/ ReadFile \/ Replace \/ Verify \/ FailFile

Next ==
  \/ \E dry \in BOOLEAN : Start(dry)
  \/ File \/ End \/ Kill
  \/ \E i \in Index, b \in Contents : EditLibrary(i, b)

Spec == Init /\ [][Next]_vars

-----------------------------------------------------------------------------

\* verify_migration: what a report claims is in the store as it was hashed.
Claimed(report) == {i \in Index : report[i].status \in Claims}

\* Wherever runs are killed, files fail, or the library is edited under them,
\* what the last manifest says was imported is still in the store as it said,
\* later runs included; and so is what the current run has done so far.
\* ("COLLISION ... nothing is ever silently overwritten")
ManifestHolds ==
  /\ \A i \in Claimed(manifest) : object[i] = manifest[i].hash
  /\ \A i \in Claimed(entries) : object[i] = entries[i].hash
=============================================================================
