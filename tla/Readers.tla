-------------------------------- MODULE Readers --------------------------------
(***************************************************************************)
(* Reading a run while it is written, and after it was sealed and damaged:  *)
(* explain and get_run load the evidence graph (load_graph, graph.py), pack *)
(* and the server's pack handler zip the directory (ci.py, server.py).  All *)
(* of them call verify_manifest first and open the files again afterwards.  *)
(* Readers change nothing, so one reader that comes at any time stands for  *)
(* all of them.  The writer is any program that keeps to RunStages.         *)
(***************************************************************************)
EXTENDS RunStages, Naturals, FiniteSets

CONSTANTS
  Files,     \* the files of a run that its manifest lists
  Loaded,    \* those EvidenceGraph parses
  Verdict,   \* verdict.json among them
  Strange,   \* names of files that do not belong to a run
  MaxDamage  \* bound: changes made to a sealed run

Manifest == "manifest.json"
Hashed == Files \cup Strange
Names == Hashed \cup {Manifest}

ASSUME ReadersAssumption ==
  /\ Loaded \subseteq Files /\ Verdict \in Loaded
  /\ Files \cap Strange = {} /\ Manifest \notin Hashed
  /\ MaxDamage \in Nat

\* What a file can be, a digest being the content it stands for.  torn: there,
\* and it does not parse into what its readers expect; relabelled: a manifest whose list of digests is as it
\* was sealed and whose other fields are not.
Contents == {"none", "torn", "good", "changed", "relabelled"}

VARIABLES
  file,     \* the directory
  damage,   \* changes made to it since it was sealed
  pc,       \* where the reader is
  op,       \* "explain" or "pack"
  by,       \* the run was named by "path" or found by "lookup"
  todo,     \* names left in the loop at pc
  listed,   \* manifest.json as verify_manifest has read it
  seen,     \* `actual`: the digests it has taken
  got,      \* what has been parsed or zipped
  flagged,  \* ~integrity_ok
  answer,   \* see Answers
  spoiled,  \* the run was damaged before the reader came (observed only)
  late      \* ... or changed since (observed only)

readerVars == <<pc, op, by, todo, listed, seen, got, flagged, answer, spoiled>>
vars == <<stage, file, damage, readerVars, late>>

\* clean: graph with integrity_ok, or a zip   flagged: INTEGRITY FAILED, 409,
\* exit 3   failed: another exception, a traceback or 500   unknown: no such run
Answers == {"none", "clean", "flagged", "failed", "unknown"}

NoContent == [f \in Names |-> "none"]

Init ==
  /\ StagesInit
  /\ file = NoContent
  /\ damage = 0
  /\ pc = "idle" /\ op \in {"explain", "pack"} /\ by \in {"path", "lookup"}
  /\ todo = {} /\ listed = "none" /\ seen = NoContent /\ got = NoContent
  /\ flagged = FALSE /\ answer = "none" /\ spoiled = FALSE /\ late = FALSE

-------------------------------------------------------------------------------
(* The writer: any program that keeps to the stages.  It stops where it likes. *)

SetFile(f, content) ==
  /\ file' = [file EXCEPT ![f] = content]
  /\ UNCHANGED <<damage, readerVars, late>>

CreateRun ==
  /\ Enter
  /\ UNCHANGED <<file, damage, readerVars, late>>

\* A file is created empty and then written.
WriteFile(f) ==
  /\ stage = "open" /\ f # Verdict
  /\ \/ file[f] = "none" /\ SetFile(f, "torn")
     \/ file[f] = "torn" /\ SetFile(f, "good")
  /\ UNCHANGED stage

WriteVerdict ==
  /\ \A f \in Files \ {Verdict} : file[f] = "good"
  /\ \/ file[Verdict] = "none" /\ Conclude /\ SetFile(Verdict, "torn")
     \/ file[Verdict] = "torn" /\ stage = "decided" /\ SetFile(Verdict, "good")
        /\ UNCHANGED stage

\* Mutant of Seal: manifest.json is opened first, and then the files are looked at.
SealEarly ==
  \/ stage = "open" /\ stage' = "torn" /\ SetFile(Manifest, "torn")
  \/ CloseManifest /\ SetFile(Manifest, "good")

Seal ==
  \/ file[Verdict] = "good" /\ OpenManifest /\ SetFile(Manifest, "torn")
  \/ CloseManifest /\ SetFile(Manifest, "good")

Write == CreateRun \/ (\E f \in Files : WriteFile(f)) \/ WriteVerdict \/ Seal

\* Somebody or something changes a sealed run, never back to what it was and
\* never so that changed files and the digests listed agree again.
Damage(f, content) ==
  /\ stage = "sealed" /\ damage < MaxDamage
  /\ content \notin {"good", file[f]}
  /\ f \in Strange => content = "changed"
  /\ content = "relabelled" => f = Manifest /\ file[f] = "good"
  /\ file' = [file EXCEPT ![f] = content]
  /\ damage' = damage + 1
  /\ late' = (late \/ pc # "idle")
  /\ UNCHANGED <<stage, readerVars>>

-------------------------------------------------------------------------------
(* The reader. *)

Goto(label, names) == pc' = label /\ todo' = names

Reply(a) ==
  /\ answer' = a
  /\ Goto("answered", {})

\* An exception that is no answer about the run: a traceback, or the message of a
\* missing or unreadable file with which cmd_pack leaves (cli.py:81-83).
Fail ==
  /\ Reply("failed")
  /\ UNCHANGED <<op, by, listed, seen, got, flagged, spoiled>>

\* IntegrityError: a pack is refused; load_graph reads on, for diagnosis.
Suspect ==
  /\ \/ op = "pack" /\ Reply("flagged") /\ UNCHANGED flagged
     \/ op = "explain" /\ Goto("reload", {}) /\ flagged' = TRUE /\ UNCHANGED answer
  /\ UNCHANGED <<op, by, listed, seen, got, spoiled>>

\* verify_manifest holds nothing against a sealed run with this file.
Passes(f, content) ==
  IF f = Manifest THEN content \in {"good", "relabelled"}
  ELSE content = IF f \in Files THEN "good" ELSE "none"

\* resolve_run's is_dir, _run_dir's and latest_run's manifest.json.
Known == IF by = "path" THEN stage # "absent" ELSE file[Manifest] # "none"

Ask ==
  /\ pc = "idle"
  /\ \/ Known /\ Goto("manifest", {}) /\ UNCHANGED answer
     \/ ~Known /\ Reply("unknown")
  /\ spoiled' = (stage = "sealed" /\ \E f \in Names : ~Passes(f, file[f]))
  /\ UNCHANGED <<op, by, listed, seen, got, flagged>>

\* verify_manifest: manifest.json missing, cut short, without `sealed`, or read.
ReadManifest ==
  /\ pc = "manifest"
  /\ \/ file[Manifest] \in {"none", "changed"} /\ Suspect
     \/ file[Manifest] = "torn" /\ Fail
     \/ /\ file[Manifest] \in {"good", "changed", "relabelled"}
        /\ listed' = file[Manifest]
        /\ Goto("list", {})
        /\ UNCHANGED <<op, by, seen, got, flagged, answer, spoiled>>

\* Mutant of ListFiles: `continue` for manifest.json is missing.
ListFilesAll ==
  /\ pc = "list"
  /\ Goto("hash", {f \in Names : file[f] # "none"})
  /\ UNCHANGED <<op, by, listed, seen, got, flagged, answer, spoiled>>

\* _iter_files.  (It lists a subdirectory when it gets there; what is put in or
\* taken out meanwhile is a change while the reader is reading.)
ListFiles ==
  /\ pc = "list"
  /\ Goto("hash", {f \in Hashed : file[f] # "none"})
  /\ UNCHANGED <<op, by, listed, seen, got, flagged, answer, spoiled>>

\* _sha256_file of one of them.
HashFile ==
  /\ pc = "hash"
  /\ \E f \in todo :
       \/ file[f] = "none" /\ Fail
       \/ /\ file[f] # "none"
          /\ seen' = [seen EXCEPT ![f] = file[f]]
          /\ Goto("hash", todo \ {f})
          /\ UNCHANGED <<op, by, listed, got, flagged, answer, spoiled>>

\* Mutant of Matches: a listed file that is missing is no difference.
MatchesPresent ==
  /\ listed # "changed"
  /\ \A f \in Hashed : seen[f] # "none" => f \in Files /\ seen[f] = "good"

\* Nothing missing, nothing extra, nothing changed.
Matches ==
  /\ listed # "changed"
  /\ \A f \in Hashed : seen[f] = IF f \in Files THEN "good" ELSE "none"

\* The end of verify_manifest, and what its caller does next: EvidenceGraph
\* parses its files, pack lists the directory again.
CompareFiles ==
  /\ pc = "hash" /\ todo = {}
  /\ \/ ~Matches /\ Suspect
     \/ /\ Matches
        /\ IF op = "explain" THEN Goto("load", Loaded)
                             ELSE Goto("zip", {f \in Names : file[f] # "none"})
        /\ UNCHANGED <<op, by, listed, seen, got, flagged, answer, spoiled>>

\* Mutant of Reload: what verify_manifest has raised about is not loaded again.
ReloadNot == pc = "reload" /\ Fail

\* load_graph after an IntegrityError: manifest.json once more, then the graph.
Reload ==
  /\ pc = "reload"
  /\ \/ file[Manifest] = "torn" /\ Fail
     \/ /\ file[Manifest] # "torn"
        /\ Goto("load", Loaded)
        /\ UNCHANGED <<op, by, listed, seen, got, flagged, answer, spoiled>>

\* load_json or load_jsonl of one file.
LoadFile ==
  /\ pc = "load"
  /\ \E f \in todo :
       \/ file[f] \in {"none", "torn"} /\ Fail
       \/ /\ file[f] \notin {"none", "torn"}
          /\ got' = [got EXCEPT ![f] = file[f]]
          /\ Goto("load", todo \ {f})
          /\ UNCHANGED <<op, by, listed, seen, flagged, answer, spoiled>>

\* One name of rglob: passed over when is_file says no, an exception when the
\* file goes between is_file and write.
ZipFile ==
  /\ pc = "zip"
  /\ \E f \in todo :
       \/ file[f] = "none" /\ Fail
       \/ /\ got' = [got EXCEPT ![f] = file[f]]
          /\ Goto("zip", todo \ {f})
          /\ UNCHANGED <<op, by, listed, seen, flagged, answer, spoiled>>

Finish ==
  /\ pc \in {"load", "zip"} /\ todo = {}
  /\ Reply(IF flagged THEN "flagged" ELSE "clean")
  /\ UNCHANGED <<op, by, listed, seen, got, flagged, spoiled>>

Read ==
  /\ \/ Ask \/ ReadManifest \/ ListFiles \/ HashFile \/ CompareFiles
     \/ Reload \/ LoadFile \/ ZipFile \/ Finish
  /\ UNCHANGED <<stage, file, damage, late>>

DamageSome == \E f \in Names, c \in Contents : Damage(f, c)

Next == Write \/ DamageSome \/ Read

Spec == Init /\ [][Next]_vars

-------------------------------------------------------------------------------
Labels == {"idle", "manifest", "list", "hash", "reload", "load", "zip", "answered"}

\* Every variable has its type; manifest.json is never among the files whose
\* digests are compared with it (store.py:174).
TypeOK ==
  /\ stage \in Stages
  /\ file \in [Names -> Contents]
  /\ damage \in 0..MaxDamage
  /\ pc \in Labels /\ op \in {"explain", "pack"} /\ by \in {"path", "lookup"}
  /\ todo \subseteq Names /\ (pc = "hash" => todo \subseteq Hashed)
  /\ listed \in Contents
  /\ seen \in [Names -> Contents] /\ got \in [Names -> Contents]
  /\ {flagged, spoiled, late} \subseteq BOOLEAN
  /\ answer \in Answers

\* What a sealed run holds, manifest.json aside, and what an operation takes of it.
Sealed(contents, names) ==
  \A f \in Hashed : contents[f] = IF f \in names THEN "good" ELSE "none"
Taken == IF op = "explain" THEN Loaded ELSE Files

\* A clean answer is about a run that was sealed and not damaged when the reader
\* came, all of whose files verify_manifest found as they were sealed; and
\* unless somebody changed the directory under the reader, what it has parsed
\* or zipped in its second pass is exactly that (graph.py:76-81, ci.py:83-99,
\* server.py:451-467).
CleanMeansIntact ==
  answer = "clean" =>
    /\ stage = "sealed" /\ ~spoiled /\ Sealed(seen, Files)
    /\ ~late => Sealed(got, Taken)
    /\ ~late /\ op = "pack" => got[Manifest] \in {"good", "relabelled"}

\* A reader who is undisturbed flags every damage done to a sealed run before
\* it came, of whatever file, as long as manifest.json and the files it parses
\* can be parsed; it has no other answer then (graph.py:82-89, explain.py:144,
\* ci.py:102, server.py:456).
SpoiledIsFlagged ==
  /\ answer \notin {"none", "unknown"} /\ ~late
  /\ spoiled /\ file[Manifest] # "torn"
  /\ \A f \in Files : op = "explain" /\ f \in Loaded => file[f] \notin {"none", "torn"}
  => answer = "flagged"

\* A run found by its manifest.json is never flagged while nobody has changed
\* it, at whatever step of its writer the reader comes: the digests are listed
\* when nothing is written any more (store.py:107-126, server.py:72).
NoFalseAlarm == by = "lookup" /\ damage = 0 => answer # "flagged"

-------------------------------------------------------------------------------
\* README.md:275, "Tamper any file and `opentruth explain` reports `INTEGRITY
\* FAILED`".
TamperIsReported ==
  op = "explain" /\ by = "path" /\ spoiled /\ ~late /\ answer # "none" => answer = "flagged"
===============================================================================
