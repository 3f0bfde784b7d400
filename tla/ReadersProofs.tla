----------------------------- MODULE ReadersProofs -----------------------------
(* What the answers of a reader mean, for any set of files, any number of    *)
(* changes made to a sealed run, and a reader who comes at any moment.       *)
EXTENDS Readers, TLAPS

\* The actions of the reader change the reader, the others the directory.
Outer == UNCHANGED readerVars
Inner == UNCHANGED <<stage, file, damage, late>>

LEMMA Sides == (Write => Outer) /\ (DamageSome => Outer) /\ (Read => Inner)
BY DEF Write, CreateRun, WriteFile, WriteVerdict, Seal, SetFile, DamageSome, Damage, Read,
  Outer, Inner

-------------------------------------------------------------------------------
LEMMA TypeInit == Init => TypeOK
<1> SUFFICES ASSUME Init PROVE TypeOK
  OBVIOUS
<1>1. NoContent \in [Names -> Contents]
  BY DEF NoContent, Contents
<1>2. damage \in 0..MaxDamage
  BY ReadersAssumption DEF Init
<1>3. stage \in Stages
  BY DEF Init, StagesInit, Stages
<1>4. listed \in Contents /\ answer \in Answers /\ pc \in Labels
  BY DEF Init, Contents, Answers, Labels
<1> QED
  BY <1>1, <1>2, <1>3, <1>4 DEF Init, TypeOK

LEMMA TypeWrite == TypeOK /\ Write => TypeOK'
<1> SUFFICES ASSUME TypeOK, Write PROVE TypeOK'
  OBVIOUS
<1>1. \A f \in Names, c \in Contents : [file EXCEPT ![f] = c] \in [Names -> Contents]
  BY DEF TypeOK
<1>2. Files \subseteq Names /\ Verdict \in Names /\ Manifest \in Names
  BY ReadersAssumption DEF Names, Hashed
<1>3. UNCHANGED <<damage, readerVars, late>>
  BY DEF Write, CreateRun, WriteFile, WriteVerdict, Seal, SetFile
<1>4. stage' \in Stages
  BY DEF Write, CreateRun, WriteFile, WriteVerdict, Seal, Enter, Conclude, OpenManifest,
    CloseManifest, TypeOK, Stages
<1>5. file' \in [Names -> Contents]
  BY <1>1, <1>2 DEF Write, CreateRun, WriteFile, WriteVerdict, Seal, SetFile, TypeOK, Contents
<1> QED
  BY <1>3, <1>4, <1>5 DEF TypeOK, readerVars

LEMMA TypeDamage == TypeOK /\ DamageSome => TypeOK'
BY ReadersAssumption DEF TypeOK, DamageSome, Damage, readerVars

LEMMA TypeRead == TypeOK /\ Read => TypeOK'
<1> SUFFICES ASSUME TypeOK, Read PROVE TypeOK'
  OBVIOUS
<1> USE DEF TypeOK, Goto, Labels, Answers
<1>f. Fail => TypeOK'
  BY DEF Read, Fail, Reply
<1>s. Suspect => TypeOK'
  BY DEF Read, Suspect, Reply
<1>n. Loaded \subseteq Names /\ Hashed \subseteq Names
  BY ReadersAssumption DEF Names, Hashed
<1>1. CASE Ask
  BY <1>1 DEF Read, Ask, Reply
<1>2. CASE ReadManifest
  <2>1. Manifest \in Names
    BY DEF Names
  <2> QED
    BY <1>2, <1>f, <1>s, <2>1 DEF Read, ReadManifest
<1>3. CASE ListFiles
  BY <1>3, <1>n DEF Read, ListFiles
<1>4. CASE HashFile
  BY <1>4, <1>f DEF Read, HashFile
<1>5. CASE CompareFiles
  BY <1>5, <1>s, <1>n DEF Read, CompareFiles
<1>6. CASE Reload
  BY <1>6, <1>f, <1>n DEF Read, Reload
<1>7. CASE LoadFile
  BY <1>7, <1>f DEF Read, LoadFile
<1>8. CASE ZipFile
  BY <1>8, <1>f DEF Read, ZipFile
<1>9. CASE Finish
  BY <1>9 DEF Read, Finish, Reply
<1> QED
  BY <1>1, <1>2, <1>3, <1>4, <1>5, <1>6, <1>7, <1>8, <1>9 DEF Read

LEMMA TypeNext == TypeOK /\ [Next]_vars => TypeOK'
<1>1. TypeOK /\ UNCHANGED vars => TypeOK'
  BY DEF TypeOK, vars, readerVars
<1> QED
  BY <1>1, TypeWrite, TypeDamage, TypeRead DEF Next

\* Every variable keeps its type, and manifest.json is never hashed.
THEOREM ReadersTypeCorrect == Spec => []TypeOK
BY TypeInit, TypeNext, PTL DEF Spec

-------------------------------------------------------------------------------
(* The directory.  Nothing is damaged before it is sealed, and an undamaged   *)
(* one holds what its stage says: only a sealed run has a manifest.json that  *)
(* parses, and its files were complete before that file was there.            *)
DirInv ==
  /\ damage # 0 => stage = "sealed"
  /\ damage = 0 =>
       /\ \A f \in Strange : file[f] = "none"
       /\ stage = "sealed" => file[Manifest] = "good"
       /\ stage = "torn" => file[Manifest] = "torn"
       /\ stage \notin {"torn", "sealed"} => file[Manifest] = "none"
       /\ stage \in {"decided", "torn", "sealed"} => \A f \in Files \ {Verdict} : file[f] = "good"
       /\ stage \in {"torn", "sealed"} => file[Verdict] = "good"

LEMMA Apart == /\ Manifest \in Names /\ Manifest \notin Files /\ Manifest \notin Strange
               /\ Files \subseteq Names /\ Strange \subseteq Names /\ Loaded \subseteq Files
               /\ Verdict \in Files /\ Verdict # Manifest /\ Files \cap Strange = {}
               /\ Hashed = Files \cup Strange /\ Names = Hashed \cup {Manifest}
BY ReadersAssumption DEF Names, Hashed

LEMMA DirInit == Init => DirInv
BY Apart DEF Init, StagesInit, NoContent, DirInv

LEMMA DirWrite == TypeOK /\ DirInv /\ Write => DirInv'
<1> SUFFICES ASSUME TypeOK, DirInv, Write PROVE DirInv'
  OBVIOUS
<1> USE Apart
<1>0. damage' = damage /\ damage = 0
  BY DEF DirInv, Write, CreateRun, WriteFile, WriteVerdict, Seal, SetFile, Enter, Conclude,
    OpenManifest, CloseManifest
<1>1. CASE CreateRun
  BY <1>0, <1>1 DEF DirInv, CreateRun, Enter
<1>2. ASSUME NEW f \in Files, WriteFile(f) PROVE DirInv'
  BY <1>0, <1>2 DEF DirInv, WriteFile, SetFile, TypeOK
<1>3. CASE WriteVerdict
  BY <1>0, <1>3 DEF DirInv, WriteVerdict, Conclude, SetFile, TypeOK
<1>4. CASE Seal
  BY <1>0, <1>4 DEF DirInv, Seal, OpenManifest, CloseManifest, SetFile, TypeOK
<1> QED
  BY <1>1, <1>2, <1>3, <1>4 DEF Write

LEMMA DirNext == TypeOK /\ DirInv /\ [Next]_vars => DirInv'
<1>1. DirInv /\ UNCHANGED <<stage, file, damage>> => DirInv'
  BY DEF DirInv
<1>2. Read \/ UNCHANGED vars => UNCHANGED <<stage, file, damage>>
  BY DEF Read, vars
<1>3. TypeOK /\ DamageSome => stage' = "sealed" /\ damage' # 0
  BY ReadersAssumption DEF DamageSome, Damage, TypeOK
<1>4. stage' = "sealed" /\ damage' # 0 => DirInv'
  BY DEF DirInv
<1> QED
  BY <1>1, <1>2, <1>3, <1>4, DirWrite DEF Next

-------------------------------------------------------------------------------
(* The reader: how far it is, and what it has seen of a sealed run.           *)
Second == (pc \in {"load", "zip"} /\ ~flagged) \/ answer = "clean"

PathInv ==
  /\ listed \in {"none", "good", "changed", "relabelled"}
  /\ listed # "none" => stage = "sealed"
  /\ pc \in {"list", "hash"} => listed # "none"
  /\ pc \in {"idle", "manifest"} => listed = "none"
  /\ pc \in {"idle", "manifest", "list"} => seen = NoContent
  /\ pc \in {"idle", "manifest", "list", "hash", "reload"} => got = NoContent
  /\ pc \in {"idle", "manifest", "list", "hash", "zip"} => ~flagged
  /\ pc = "reload" => flagged
  /\ pc \in {"load", "reload"} => op = "explain"
  /\ pc = "zip" => op = "pack"
  /\ pc = "load" => todo \subseteq Loaded
  /\ pc # "answered" => answer = "none"
  /\ answer = "flagged" /\ op = "explain" => flagged
  /\ Second => Matches /\ listed # "none"

LEMMA Unsealed == Write => stage # "sealed"
BY DEF Write, CreateRun, WriteFile, WriteVerdict, Seal, Enter, Conclude, OpenManifest,
  CloseManifest

LEMMA StaysSealed == [Next]_vars /\ stage = "sealed" => stage' = "sealed"
<1>1. DamageSome \/ Read \/ UNCHANGED vars => stage' = stage
  BY DEF DamageSome, Damage, Read, vars
<1> QED
  BY <1>1, Unsealed DEF Next

LEMMA PathOuter == PathInv /\ [Next]_vars /\ Outer => PathInv'
BY StaysSealed DEF PathInv, Outer, readerVars, Second, Matches

LEMMA SealedManifest ==
  DirInv /\ file[Manifest] \notin {"none", "torn"} => stage = "sealed"
BY DEF DirInv

LEMMA PathRead == TypeOK /\ DirInv /\ PathInv /\ Read => PathInv'
<1> SUFFICES ASSUME TypeOK, DirInv, PathInv, Read PROVE PathInv'
  OBVIOUS
<1>i. stage' = stage
  BY DEF Read
<1> USE <1>i DEF PathInv, Goto, Second, Matches
<1>f. Fail => PathInv'
  BY DEF Fail, Reply
<1>s. pc \in {"manifest", "hash"} /\ Suspect => PathInv'
  BY DEF Suspect, Reply
<1>1. CASE Ask
  BY <1>1 DEF Ask, Reply
<1>2. CASE ReadManifest
  BY <1>2, <1>f, <1>s, SealedManifest DEF ReadManifest
<1>3. CASE ListFiles
  BY <1>3 DEF ListFiles
<1>4. CASE HashFile
  BY <1>4, <1>f DEF HashFile
<1>5. CASE CompareFiles
  <2>1. CASE Matches /\ op = "explain"
    BY <1>5, <2>1 DEF CompareFiles, Suspect, TypeOK
  <2>2. CASE Matches /\ op = "pack"
    BY <1>5, <2>2 DEF CompareFiles, Suspect, TypeOK
  <2>3. CASE ~Matches
    BY <1>5, <2>3, <1>s DEF CompareFiles
  <2> QED
    BY <2>1, <2>2, <2>3 DEF TypeOK
<1>6. CASE Reload
  BY <1>6, <1>f DEF Reload
<1>7. CASE LoadFile
  BY <1>7, <1>f DEF LoadFile
<1>8. CASE ZipFile
  BY <1>8, <1>f DEF ZipFile
<1>9. CASE Finish
  BY <1>9 DEF Finish, Reply
<1> QED
  BY <1>1, <1>2, <1>3, <1>4, <1>5, <1>6, <1>7, <1>8, <1>9 DEF Read

-------------------------------------------------------------------------------
(* A file that was damaged when the reader came stays damaged, and the reader *)
(* cannot have seen it as it was sealed.                                      *)
Unsound(f) ==
  /\ ~Passes(f, file[f])
  /\ f = Manifest => listed \in {"none", "changed"}
  /\ f \in Files => seen[f] # "good"
  /\ f \in Strange /\ pc = "hash" => f \in todo \/ seen[f] # "none"

SpoiledInv ==
  /\ pc = "idle" => ~spoiled
  /\ spoiled => stage = "sealed" /\ ~Second /\ \E f \in Names : Unsound(f)

LEMMA SpoiledOuter == TypeOK /\ SpoiledInv /\ [Next]_vars /\ Outer => SpoiledInv'
<1> SUFFICES ASSUME TypeOK, SpoiledInv, [Next]_vars, Outer PROVE SpoiledInv'
  OBVIOUS
<1>1. CASE ~spoiled
  BY <1>1 DEF SpoiledInv, Outer, readerVars
<1>2. CASE spoiled
  <2>1. stage = "sealed" /\ stage' = "sealed" /\ ~Second'
    BY <1>2, StaysSealed DEF SpoiledInv, Outer, readerVars, Second
  <2>2. PICK f \in Names : Unsound(f)
    BY <1>2 DEF SpoiledInv
  <2>3. ~Passes(f, file'[f])
    <3>1. CASE UNCHANGED file
      BY <2>2, <3>1 DEF Unsound, Passes
    <3>2. CASE DamageSome
      BY <2>2, <3>2, Apart DEF Unsound, Passes, DamageSome, Damage, TypeOK
    <3>3. Read \/ UNCHANGED vars => UNCHANGED file
      BY DEF Read, vars
    <3> QED
      BY <3>1, <3>2, <3>3, <2>1, Unsealed DEF Next
  <2>4. Unsound(f)'
    BY <2>2, <2>3 DEF Unsound, Outer, readerVars, Passes
  <2> QED
    BY <1>2, <2>1, <2>4 DEF SpoiledInv, Outer, readerVars
<1> QED
  BY <1>1, <1>2

LEMMA UnsoundDiffers == ASSUME TypeOK, PathInv, NEW f \in Names, Unsound(f), pc = "hash", todo = {}
                        PROVE ~Matches
BY Apart DEF Unsound, Matches, TypeOK, PathInv

LEMMA SpoiledRead == TypeOK /\ PathInv /\ SpoiledInv /\ Read => SpoiledInv'
<1> SUFFICES ASSUME TypeOK, PathInv, SpoiledInv, Read PROVE SpoiledInv'
  OBVIOUS
<1>0. UNCHANGED <<stage, file>>
  BY DEF Read
<1>1. CASE Ask
  <2>1. pc' # "idle" /\ pc' # "hash" /\ ~Second' /\ UNCHANGED <<listed, seen>>
    BY <1>1 DEF Ask, Reply, Goto, Second, PathInv
  <2>2. ASSUME NEW f \in Names, ~Passes(f, file[f]) PROVE Unsound(f)'
    <3>1. listed' = "none" /\ seen'[f] = "none"
      BY <1>1, <2>1 DEF PathInv, NoContent, Ask
    <3>2. ~Passes(f, file[f])'
      BY <1>0, <2>2 DEF Passes
    <3> QED
      BY <2>1, <3>1, <3>2 DEF Unsound
  <2>3. spoiled' => stage = "sealed" /\ \E f \in Names : ~Passes(f, file[f])
    BY <1>1 DEF Ask
  <2> QED
    BY <1>0, <2>1, <2>2, <2>3 DEF SpoiledInv
<1>2. CASE pc # "idle"
  <2>1. pc' # "idle" /\ spoiled' = spoiled
    BY <1>2 DEF Read, Ask, ReadManifest, ListFiles, HashFile, CompareFiles, Reload, LoadFile,
      ZipFile, Finish, Fail, Suspect, Reply, Goto
  <2>2. CASE ~spoiled
    BY <2>1, <2>2 DEF SpoiledInv
  <2>3. CASE spoiled
    <3>1. PICK f \in Names : Unsound(f)
      BY <2>3 DEF SpoiledInv
    <3>2. ~Second /\ stage = "sealed"
      BY <2>3 DEF SpoiledInv
    <3>3. ~Second' /\ Unsound(f)'
      <4> USE <1>0, <3>1, <3>2, Apart DEF Unsound, Second, Goto, Passes
      <4>f. Fail => ~Second' /\ Unsound(f)'
        BY DEF Fail, Reply
      <4>s. Suspect => ~Second' /\ Unsound(f)'
        BY DEF Suspect, Reply
      <4>1. CASE ReadManifest
        BY <4>1, <4>f, <4>s DEF ReadManifest, PathInv
      <4>2. CASE ListFiles
        BY <4>2 DEF ListFiles, PathInv
      <4>3. CASE HashFile
        BY <4>3, <4>f DEF HashFile, PathInv, TypeOK
      <4>4. CASE CompareFiles
        <5>1. CASE pc = "hash" /\ todo = {}
          <6>1. ~Matches
            BY <2>3, <3>1, <5>1, UnsoundDiffers
          <6> QED
            BY <4>4, <4>s, <6>1 DEF CompareFiles
        <5> QED
          BY <4>4, <5>1 DEF CompareFiles
      <4>5. CASE Reload
        BY <4>5, <4>f DEF Reload, PathInv
      <4>6. CASE LoadFile
        <5>1. Fail \/ (pc' = pc /\ pc = "load" /\ UNCHANGED <<listed, seen, flagged, answer>>)
          BY <4>6 DEF LoadFile
        <5> QED
          BY <4>f, <5>1
      <4>7. CASE ZipFile
        BY <4>7, <4>f DEF ZipFile, PathInv
      <4>8. CASE Finish
        BY <4>8 DEF Finish, Reply, PathInv
      <4> QED
        BY <1>2, <4>1, <4>2, <4>3, <4>4, <4>5, <4>6, <4>7, <4>8 DEF Read, Ask
    <3> QED
      BY <1>0, <2>1, <2>3, <3>2, <3>3 DEF SpoiledInv
  <2> QED
    BY <2>2, <2>3
<1> QED
  BY <1>1, <1>2 DEF Read, ReadManifest, ListFiles, HashFile, CompareFiles, Reload, LoadFile,
    ZipFile, Finish

-------------------------------------------------------------------------------
(* While nobody changes the directory under the reader, what it has seen is    *)
(* what is there, in the first pass and in the second.                        *)
FirstPass ==
  /\ pc \in {"list", "hash"} => listed = file[Manifest]
  /\ pc = "hash" =>
       \A f \in Hashed : IF f \in todo THEN file[f] # "none" ELSE seen[f] = file[f]
  /\ Second => Sealed(file, Files) /\ listed = file[Manifest]

SecondPass ==
  /\ pc = "load" /\ ~flagged =>
       \A f \in Names : got[f] = IF f \in Loaded \ todo THEN file[f] ELSE "none"
  /\ pc = "zip" => \A f \in Names : got[f] = IF f \in todo THEN "none" ELSE file[f]
  /\ answer = "clean" =>
       /\ Sealed(got, Taken)
       /\ op = "pack" => got[Manifest] = file[Manifest]

Unreadable ==
  \/ file[Manifest] = "torn"
  \/ op = "explain" /\ \E f \in Loaded : file[f] \in {"none", "torn"}

StillInv == ~late => FirstPass /\ SecondPass /\ (answer = "failed" /\ spoiled => Unreadable)

LEMMA StillOuter == TypeOK /\ PathInv /\ SpoiledInv /\ StillInv /\ [Next]_vars /\ Outer => StillInv'
<1> SUFFICES ASSUME TypeOK, PathInv, SpoiledInv, StillInv, [Next]_vars, Outer, ~late'
             PROVE StillInv'
  BY DEF StillInv
<1>1. CASE UNCHANGED file
  <2>1. late = FALSE
    BY DEF Next, Write, CreateRun, WriteFile, WriteVerdict, Seal, SetFile, DamageSome, Damage,
      Read, vars, TypeOK
  <2> QED
    BY <1>1, <2>1 DEF StillInv, FirstPass, SecondPass, Unreadable, Outer, readerVars, Second,
      Sealed, Taken
<1>2. CASE DamageSome
  <2>1. pc = "idle" /\ pc' = "idle" /\ answer' = "none" /\ ~Second'
    BY <1>2 DEF DamageSome, Damage, PathInv, Outer, readerVars, Second
  <2> QED
    BY <2>1 DEF StillInv, FirstPass, SecondPass
<1>3. CASE Write
  <2>1. listed = "none" /\ ~spoiled /\ pc \notin {"list", "hash"} /\ ~Second
    BY <1>3, Unsealed DEF PathInv, SpoiledInv
  <2>2. listed' = "none" /\ ~spoiled' /\ pc' \notin {"list", "hash"} /\ ~Second'
    BY <2>1 DEF Outer, readerVars, Second
  <2>3. pc # "zip"
    BY <2>1 DEF PathInv, Second
  <2>4. pc' # "zip"
    BY <2>3 DEF Outer, readerVars
  <2> QED
    BY <2>2, <2>4 DEF StillInv, FirstPass, SecondPass, Second
<1> QED
  BY <1>1, <1>2, <1>3 DEF Next, Read, vars

LEMMA StillRead == TypeOK /\ PathInv /\ SpoiledInv /\ StillInv /\ Read => StillInv'
<1> SUFFICES ASSUME TypeOK, PathInv, SpoiledInv, StillInv, Read, ~late PROVE StillInv'
  BY DEF StillInv, Read
<1>0. UNCHANGED <<stage, file, late>>
  BY DEF Read
<1> USE <1>0, Apart DEF Goto, Second, FirstPass, SecondPass, Unreadable, StillInv
<1>f. ASSUME Fail, spoiled => Unreadable, answer = "none" PROVE StillInv'
  BY <1>f DEF Fail, Reply
<1>s. pc \in {"manifest", "hash"} /\ Suspect => StillInv'
  BY DEF Suspect, Reply, PathInv
<1>1. CASE Ask
  BY <1>1 DEF Ask, Reply, PathInv
<1>2. CASE ReadManifest
  BY <1>2, <1>f, <1>s DEF ReadManifest, PathInv
<1>3. CASE ListFiles
  <2>1. \A f \in Hashed : seen[f] = "none" /\ file[f] \in Contents
    BY <1>3 DEF ListFiles, PathInv, NoContent, TypeOK
  <2> QED
    BY <1>3, <2>1 DEF ListFiles, PathInv
<1>4. CASE HashFile
  BY <1>4 DEF HashFile, Fail, PathInv, TypeOK
<1>5. CASE CompareFiles
  <2>1. CASE ~Matches
    BY <1>5, <2>1, <1>s DEF CompareFiles
  <2>2. CASE Matches
    <3>1. ~flagged /\ got = NoContent /\ answer = "none" /\ pc' \in {"load", "zip"}
      BY <1>5, <2>2 DEF CompareFiles, Suspect, PathInv
    <3>2. Sealed(file, Files) /\ listed = file[Manifest]
      BY <1>5, <2>2 DEF CompareFiles, Matches, Sealed
    <3>3. UNCHANGED <<listed, got, flagged, answer, op>>
      BY <1>5, <2>2 DEF CompareFiles
    <3>4. FirstPass'
      BY <3>1, <3>2, <3>3 DEF Sealed
    <3>5. pc' = "load" => todo' = Loaded
      BY <1>5, <2>2 DEF CompareFiles
    <3>6. pc' = "zip" => todo' = {f \in Names : file[f] # "none"}
      BY <1>5, <2>2 DEF CompareFiles
    <3>7. SecondPass'
      BY <3>1, <3>3, <3>5, <3>6 DEF NoContent
    <3> QED
      BY <3>1, <3>3, <3>4, <3>7
  <2> QED
    BY <2>1, <2>2
<1>6. CASE Reload
  BY <1>6, <1>f DEF Reload, PathInv
<1>7. CASE LoadFile
  <2>1. Loaded \subseteq Names /\ todo \subseteq Loaded /\ op = "explain" /\ answer = "none"
    BY <1>7 DEF LoadFile, PathInv, Sealed
  <2>2. CASE Fail
    BY <1>7, <2>1, <2>2 DEF LoadFile, Fail, Reply
  <2>3. CASE ~Fail
    <3>1. PICK f \in todo : /\ got' = [got EXCEPT ![f] = file[f]]
                            /\ Goto("load", todo \ {f})
                            /\ UNCHANGED <<op, by, listed, seen, flagged, answer, spoiled>>
      BY <1>7, <2>3 DEF LoadFile
    <3> QED
      BY <1>7, <2>1, <3>1 DEF LoadFile, Sealed, TypeOK
  <2> QED
    BY <2>2, <2>3
<1>8. CASE ZipFile
  <2>1. pc = "zip" /\ answer = "none" /\ ~spoiled
    BY <1>8 DEF ZipFile, PathInv, SpoiledInv
  <2>2. CASE Fail
    BY <2>1, <2>2 DEF Fail, Reply
  <2>3. CASE ~Fail
    <3>1. PICK f \in todo : /\ got' = [got EXCEPT ![f] = file[f]]
                            /\ Goto("zip", todo \ {f})
                            /\ UNCHANGED <<op, by, listed, seen, flagged, answer, spoiled>>
      BY <1>8, <2>3 DEF ZipFile
    <3> QED
      BY <2>1, <3>1 DEF Sealed, TypeOK
  <2> QED
    BY <2>2, <2>3
<1>9. CASE Finish
  <2>1. UNCHANGED <<op, listed, got, flagged>> /\ pc' = "answered" /\ todo = {}
    BY <1>9 DEF Finish, Reply
  <2>2. CASE flagged
    BY <1>9, <2>1, <2>2 DEF Finish, Reply
  <2>3. CASE ~flagged
    <3>1. answer' = "clean" /\ Second /\ pc \in {"load", "zip"}
      BY <1>9, <2>3 DEF Finish, Reply, TypeOK
    <3>2. Sealed(file, Files) /\ listed = file[Manifest]
      BY <3>1
    <3>3. Sealed(got, Taken) /\ (op = "pack" => got[Manifest] = file[Manifest])
      <4>1. CASE pc = "load"
        BY <2>1, <2>3, <3>2, <4>1 DEF Sealed, Taken, PathInv
      <4>2. CASE pc = "zip"
        BY <2>1, <2>3, <3>2, <4>2 DEF Sealed, Taken, PathInv
      <4> QED
        BY <3>1, <4>1, <4>2
    <3> QED
      BY <2>1, <3>1, <3>2, <3>3 DEF Sealed, Taken
  <2> QED
    BY <2>2, <2>3
<1> QED
  BY <1>1, <1>2, <1>3, <1>4, <1>5, <1>6, <1>7, <1>8, <1>9 DEF Read

-------------------------------------------------------------------------------
(* A reader who found the run by its manifest.json, and no damage done.       *)
Spotless ==
  /\ ~flagged /\ answer # "flagged"
  /\ pc \notin {"idle", "answered"} => stage \in {"torn", "sealed"}
  /\ listed \in {"none", "good"}
  /\ pc = "hash" =>
       \A f \in Hashed : IF f \in todo THEN f \in Files
                         ELSE seen[f] = IF f \in Files THEN "good" ELSE "none"

AlarmInv == by = "lookup" /\ damage = 0 => Spotless

LEMMA AlarmOuter == TypeOK /\ AlarmInv /\ [Next]_vars /\ Outer => AlarmInv'
<1> SUFFICES ASSUME TypeOK, AlarmInv, [Next]_vars, Outer, by' = "lookup", damage' = 0
             PROVE Spotless'
  BY DEF AlarmInv
<1>1. UNCHANGED readerVars
  BY DEF Outer
<1>2. damage = 0 /\ Spotless
  <2>1. DamageSome => damage' # 0
    BY DEF DamageSome, Damage, TypeOK
  <2>2. Write \/ Read \/ UNCHANGED vars => UNCHANGED damage
    BY DEF Write, CreateRun, WriteFile, WriteVerdict, Seal, SetFile, Read, vars
  <2> QED
    BY <1>1, <2>1, <2>2 DEF Next, AlarmInv, readerVars
<1>3. stage \in {"torn", "sealed"} => stage' \in {"torn", "sealed"}
  BY DEF Next, Write, CreateRun, WriteFile, WriteVerdict, Seal, Enter, Conclude, OpenManifest,
    CloseManifest, DamageSome, Damage, Read, vars
<1> QED
  BY <1>1, <1>2, <1>3 DEF Spotless, readerVars

LEMMA AlarmRead == TypeOK /\ DirInv /\ PathInv /\ AlarmInv /\ Read => AlarmInv'
<1> SUFFICES ASSUME TypeOK, DirInv, PathInv, AlarmInv, Read, by' = "lookup", damage' = 0
             PROVE Spotless'
  BY DEF AlarmInv
<1>0. UNCHANGED <<stage, file, damage>>
  BY DEF Read
<1>1. UNCHANGED by
  BY DEF Read, Ask, ReadManifest, ListFiles, HashFile, CompareFiles, Reload, LoadFile,
    ZipFile, Finish, Fail, Suspect
<1>2. Spotless
  BY <1>0, <1>1 DEF AlarmInv
<1>3. /\ stage = "sealed" => file[Manifest] = "good"
      /\ stage = "torn" => file[Manifest] = "torn"
      /\ stage \notin {"torn", "sealed"} => file[Manifest] = "none"
      /\ \A f \in Strange : file[f] = "none"
      /\ stage \in {"torn", "sealed"} => \A f \in Files : file[f] = "good"
  BY <1>0, <1>2 DEF DirInv
<1> USE <1>0, <1>2, Apart DEF Goto, Spotless
<1>f. Fail => Spotless'
  BY DEF Fail, Reply
<1>4. CASE Ask
  BY <1>1, <1>3, <1>4 DEF Ask, Reply, Known, TypeOK, Stages
<1>5. CASE ReadManifest
  <2>1. ~(file[Manifest] \in {"none", "changed"})
    BY <1>3, <1>5 DEF ReadManifest
  <2> QED
    BY <1>3, <1>5, <1>f, <2>1 DEF ReadManifest
<1>6. CASE ListFiles
  <2>1. stage = "sealed" /\ \A f \in Hashed : seen[f] = "none"
    BY <1>6 DEF ListFiles, PathInv, NoContent
  <2> QED
    BY <1>3, <1>6, <2>1 DEF ListFiles
<1>7. CASE HashFile
  BY <1>3, <1>7, <1>f DEF HashFile, TypeOK
<1>8. CASE CompareFiles
  <2>1. Matches
    BY <1>8 DEF CompareFiles, Matches
  <2> QED
    BY <1>8, <2>1 DEF CompareFiles
<1>9. CASE Reload
  BY <1>9 DEF Reload, PathInv
<1>10. CASE LoadFile
  <2>1. Fail \/ (pc' = pc /\ pc = "load" /\ UNCHANGED <<listed, seen, flagged, answer>>)
    BY <1>10 DEF LoadFile
  <2> QED
    BY <1>f, <2>1
<1>11. CASE ZipFile
  <2>1. Fail \/ (pc' = pc /\ pc = "zip" /\ UNCHANGED <<listed, seen, flagged, answer>>)
    BY <1>11 DEF ZipFile
  <2> QED
    BY <1>f, <2>1
<1>12. CASE Finish
  BY <1>12 DEF Finish, Reply
<1> QED
  BY <1>4, <1>5, <1>6, <1>7, <1>8, <1>9, <1>10, <1>11, <1>12 DEF Read

-------------------------------------------------------------------------------
IndInv == TypeOK /\ DirInv /\ PathInv /\ SpoiledInv /\ StillInv /\ AlarmInv

LEMMA ReadersInit == Init => IndInv
<1>1. Init => PathInv
  BY DEF Init, PathInv, Second
<1>2. Init => SpoiledInv /\ StillInv /\ AlarmInv
  BY DEF Init, SpoiledInv, StillInv, FirstPass, SecondPass, Second, AlarmInv, Spotless
<1> QED
  BY <1>1, <1>2, TypeInit, DirInit DEF IndInv

LEMMA ReadersNext == IndInv /\ [Next]_vars => IndInv'
<1> SUFFICES ASSUME IndInv, [Next]_vars PROVE IndInv'
  OBVIOUS
<1> USE DEF IndInv
<1>1. TypeOK' /\ DirInv'
  BY TypeNext, DirNext
<1>2. CASE Outer
  BY <1>1, <1>2, PathOuter, SpoiledOuter, StillOuter, AlarmOuter
<1>3. CASE Read
  BY <1>1, <1>3, PathRead, SpoiledRead, StillRead, AlarmRead
<1>4. Outer \/ Read
  BY Sides DEF Next, vars, Outer
<1> QED
  BY <1>2, <1>3, <1>4

LEMMA ReadersInvariant == Spec => []IndInv
BY ReadersInit, ReadersNext, PTL DEF Spec

\* A clean answer is about a run that was sealed and intact, and about what it is now.
THEOREM ReadersCleanMeansIntact == Spec => []CleanMeansIntact
<1>1. IndInv => CleanMeansIntact
  <2> SUFFICES ASSUME IndInv, answer = "clean" PROVE CleanMeansIntact
    BY DEF CleanMeansIntact
  <2>1. Second /\ Matches /\ listed # "none" /\ stage = "sealed" /\ ~spoiled
    BY DEF IndInv, PathInv, SpoiledInv, Second
  <2>2. Sealed(seen, Files)
    BY <2>1 DEF Matches, Sealed
  <2>3. ~late => Sealed(got, Taken)
    BY DEF IndInv, StillInv, SecondPass
  <2>4. ~late /\ op = "pack" => got[Manifest] = listed
    BY <2>1 DEF IndInv, StillInv, SecondPass, FirstPass
  <2>5. listed \in {"good", "relabelled"}
    BY <2>1 DEF IndInv, PathInv, Matches
  <2> QED
    BY <2>1, <2>2, <2>3, <2>4, <2>5 DEF CleanMeansIntact
<1> QED
  BY <1>1, ReadersInvariant, PTL

\* Undisturbed, a reader flags a damaged run whose files it can parse.
THEOREM ReadersFlagSpoiled == Spec => []SpoiledIsFlagged
<1>1. IndInv => SpoiledIsFlagged
  <2>1. IndInv /\ spoiled => answer # "clean"
    BY DEF IndInv, SpoiledInv, Second
  <2>2. IndInv /\ spoiled /\ ~late /\ answer = "failed" => Unreadable
    BY DEF IndInv, StillInv
  <2>3. IndInv => answer \in Answers
    BY DEF IndInv, TypeOK
  <2> QED
    BY <2>1, <2>2, <2>3, Apart DEF SpoiledIsFlagged, Unreadable, Answers
<1> QED
  BY <1>1, ReadersInvariant, PTL

\* A reader who finds a run by its manifest.json never flags an undamaged one.
THEOREM ReadersNoFalseAlarm == Spec => []NoFalseAlarm
<1>1. IndInv => NoFalseAlarm
  BY DEF IndInv, AlarmInv, Spotless, NoFalseAlarm
<1> QED
  BY <1>1, ReadersInvariant, PTL
===============================================================================
