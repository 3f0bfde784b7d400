------------------------------- MODULE RunStore -------------------------------
(***************************************************************************)
(* One run directory and the RunStore object that fills it                 *)
(* (opentruth/store.py).  The object belongs to one thread, which calls the *)
(* operations below in its own order: this module has the state and the     *)
(* operations, and the modules of the threads (Engine, DiffRun) have the    *)
(* next-state relations.                                                    *)
(*                                                                         *)
(* A JSONL file is the set of its rows: every row carries an id taken from  *)
(* a counter, so the set loses no row and the ids keep the order.  A blob   *)
(* named after an id is part of the row that cites it.  server.log is       *)
(* apart: the application writes it through a handle of its own, past the   *)
(* store.  A SHA-256 digest is the content it stands for (no collisions).   *)
(***************************************************************************)
EXTENDS Naturals

CONSTANTS
  NoFile,   \* the content of a file that does not exist
  Torn      \* manifest.json opened for writing, nothing in it yet

VARIABLES
  phase,     \* how far the directory is: see Phases
  json,      \* content of requirements.json, plan.json and verdict.json
  rows,      \* content of actions.jsonl, observations.jsonl, assertions.jsonl
  counter,   \* last id allocated under each prefix
  log,       \* number of writes in artifacts/server.log; 0: no such file
  hashes,    \* the digests seal() has in memory, not yet in manifest.json
  manifest   \* manifest.json: NoFile, Torn or the digests

storeVars == <<phase, json, rows, counter, log, hashes, manifest>>

\* absent   no directory          open     create() has returned
\* hashed   seal() has digests    torn     manifest.json exists, still empty
\* sealed   manifest.json written, self.sealed set
\* frozen   _freeze_tree has returned
Phases == {"absent", "open", "hashed", "torn", "sealed", "frozen"}

JsonNames == {"requirements", "plan", "verdict"}
RowFiles == {"actions", "observations", "assertions"}
Prefixes == {"A", "O", "E"}

\* What _iter_files sees of the directory, manifest.json excepted.
Snapshot == [json |-> json, rows |-> rows, log |-> log]

\* self.sealed
Sealed == phase \in {"sealed", "frozen"}

\* manifest.json is there: the test _run_dir, latest_run and resolve_run_arg
\* take for "this is a sealed run".
HasManifest == manifest # NoFile

\* verify_manifest returns instead of raising: manifest.json parses, and no
\* file is missing, extra or changed.  (NoFile and Torn are no snapshots.)
VerifyManifest == manifest = Snapshot

\* What the directory looks like from outside.  The digests that seal() has in
\* memory cannot be seen.
Stage ==
  IF phase = "absent" THEN "absent"
  ELSE IF phase \in {"open", "hashed"}
    THEN IF json["verdict"] = NoFile THEN "open" ELSE "decided"
  ELSE IF phase = "torn" THEN "torn"
  ELSE "sealed"
Outside == INSTANCE RunStages WITH stage <- Stage

-------------------------------------------------------------------------------
StoreInit ==
  /\ phase = "absent"
  /\ json = [n \in JsonNames |-> NoFile]
  /\ rows = [f \in RowFiles |-> {}]
  /\ counter = [p \in Prefixes |-> 0]
  /\ log = 0
  /\ hashes = NoFile
  /\ manifest = NoFile

\* The guard of every mutating operation: the directory exists and the owner
\* is not inside or past seal().
Writable == phase = "open"

Create ==
  /\ phase = "absent"
  /\ phase' = "open"
  /\ UNCHANGED <<json, rows, counter, log, hashes, manifest>>

\* write_json: the three frozen files are written once.
WriteJson(name, obj) ==
  /\ Writable
  /\ json[name] = NoFile
  /\ json' = [json EXCEPT ![name] = obj]

\* Mutant of NextId: the counter's present value is handed out.
NextIdPost(p) == counter[p]

\* The id allocate(p) hands out next.
NextId(p) == counter[p] + 1

\* allocate(), then append() of a row with the new id.
Record(p, file, row) ==
  /\ Writable
  /\ counter' = [counter EXCEPT ![p] = NextId(p)]
  /\ rows' = [rows EXCEPT ![file] = @ \cup {row}]

-------------------------------------------------------------------------------
\* seal(), first half: refuse an incomplete run, then digest every file.
SealHash ==
  /\ Writable
  /\ \A n \in JsonNames : json[n] # NoFile
  /\ hashes' = Snapshot
  /\ phase' = "hashed"
  /\ UNCHANGED <<json, rows, counter, log, manifest>>

\* write_text opens manifest.json, which creates it empty ...
SealOpenManifest ==
  /\ phase = "hashed"
  /\ manifest' = Torn
  /\ phase' = "torn"
  /\ UNCHANGED <<json, rows, counter, log, hashes>>

\* ... writes and closes it; self.sealed is set.
SealWriteManifest ==
  /\ phase = "torn"
  /\ manifest' = hashes
  /\ phase' = "sealed"
  /\ UNCHANGED <<json, rows, counter, log, hashes>>

\* _freeze_tree takes the write bits away.  A handle opened before keeps its
\* access: freezing does not stop a process that still has server.log open.
Freeze ==
  /\ phase = "sealed"
  /\ phase' = "frozen"
  /\ UNCHANGED <<json, rows, counter, log, hashes, manifest>>
===============================================================================
