----------------------------- MODULE NodeProofs -----------------------------
(***************************************************************************)
(* Proofs about what a node keeps on its own disk and clock.               *)
(*                                                                         *)
(* FileStateStore implements IStateStore for any sessions, clients and     *)
(* values, if pathFor keeps session ids apart and writes are never cut     *)
(* short.  A save takes effect at its rename; until then the write that    *)
(* holds m_mutex knows the version it is about to replace.                 *)
(*                                                                         *)
(* CronExpression answers the earliest matching minute, for any text, time *)
(* zone and instant.                                                       *)
(*                                                                         *)
(* The scheduler delivers nothing twice and catches up in order, for any   *)
(* schedules, jobs, timers, threads and readings of the clock.  Its        *)
(* registrations are numbered, and whatever was handed out lies before the *)
(* next instant of the job it came from.                                   *)
(***************************************************************************)
EXTENDS MCNode, FiniteSetTheorems, SequenceTheorems, NaturalsInduction, WellFoundedInduction, TLAPS

\* The write in progress was computed from the file it will replace.
WriteCurrent ==
    write # None =>
        LET p == PathFor[write.rec.id]
        IN  /\ Version(file[p]) < MaxVersion
            /\ write.rec.version = Version(file[p]) + 1
            /\ write.at = "rename" => tmp[p] = write.rec
            /\ write.cas =>
                  /\ held[write.client] # None
                  /\ held[write.client].sess = write.rec.id
                  /\ Version(held[write.client].rec) = Version(file[p])

FileInv == TypeOK /\ NoPartialFile /\ WriteCurrent

LEMMA WholeFiles ==
    ASSUME TypeOK, NoPartialFile
    PROVE  /\ \A p \in Paths : Read(p) = file[p] /\ file[p] \in Rec \cup {None}
           /\ Abstract = [s \in Sessions |-> file[PathFor[s]]]
BY FileAssumption DEF TypeOK, NoPartialFile, Read, Content, Abstract

LEMMA NextRecType ==
    ASSUME NEW s \in Sessions, NEW v \in Values, NEW r \in Rec \cup {None},
           Version(r) < MaxVersion
    PROVE  /\ NextRec(s, v, r) \in Rec
           /\ NextRec(s, v, r).id = s
           /\ NextRec(s, v, r).version = Version(r) + 1
BY FileAssumption DEF NextRec, Version, Rec

LEMMA InitFile == Init => FileInv
BY ContentAssumption
   DEF Init, FileInv, TypeOK, NoPartialFile, WriteCurrent, Content, Loaded, Results

LEMMA NextFile ==
    ASSUME ~DiskMayFill, FileInv, [Next]_vars
    PROVE  FileInv'
<1> USE FileAssumption, ContentAssumption
<1>0. \A p \in Paths : Read(p) = file[p] /\ file[p] \in Rec \cup {None}
  BY WholeFiles DEF FileInv
<1>w. write # None => write \in Write /\ PathFor[write.rec.id] \in Paths
  BY DEF FileInv, TypeOK, Write, Rec
<1>1. CASE UNCHANGED vars
  BY <1>1 DEF vars, FileInv, TypeOK, NoPartialFile, WriteCurrent
<1>2. ASSUME NEW c \in Clients, NEW s \in Sessions, Load(c, s)
      PROVE  FileInv'
  <2>1. TypeOK'
    BY <1>0, <1>2 DEF Load, FileInv, TypeOK, Loaded
  <2> QED
    BY <1>2, <2>1 DEF Load, Unlocked, FileInv, NoPartialFile, WriteCurrent
<1>3. ASSUME NEW c \in Clients, NEW s \in Sessions, NEW v \in Values, Save(c, s, v)
      PROVE  FileInv'
  <2>1. PICK r \in Rec : /\ r = NextRec(s, v, file[PathFor[s]])
                         /\ r.id = s /\ r.version = Version(file[PathFor[s]]) + 1
    BY <1>0, <1>3, NextRecType DEF Save
  <2>2. write' = [client |-> c, cas |-> FALSE, rec |-> r, at |-> "temp"]
    BY <1>0, <1>3, <2>1 DEF Save
  <2>3. TypeOK'
    BY <1>3, <2>2 DEF Save, FileInv, TypeOK, Write
  <2>4. WriteCurrent'
    BY <1>0, <1>3, <2>1, <2>2 DEF Save, WriteCurrent
  <2> QED
    BY <1>3, <2>3, <2>4 DEF Save, FileInv, NoPartialFile
<1>4. ASSUME NEW c \in Clients, NEW v \in Values, SaveIf(c, v)
      PROVE  FileInv'
  <2>0. held[c].sess \in Sessions
    BY <1>4 DEF SaveIf, FileInv, TypeOK, Loaded
  <2> DEFINE s == held[c].sess
  <2>1. CASE UNCHANGED write
    BY <1>4, <2>1
       DEF SaveIf, Unlocked, FileInv, TypeOK, NoPartialFile, WriteCurrent, Results
  <2>2. CASE /\ VersionMatches(Read(PathFor[s]), Version(held[c].rec))
             /\ Version(Read(PathFor[s])) < MaxVersion
             /\ write' = [client |-> c, cas |-> TRUE,
                          rec |-> NextRec(s, v, Read(PathFor[s])), at |-> "temp"]
             /\ UNCHANGED outcome
    <3>1. PICK r \in Rec : /\ r = NextRec(s, v, file[PathFor[s]])
                           /\ r.id = s /\ r.version = Version(file[PathFor[s]]) + 1
      BY <1>0, <2>0, <2>2, NextRecType
    <3>2. write' = [client |-> c, cas |-> TRUE, rec |-> r, at |-> "temp"]
      BY <1>0, <2>0, <2>2, <3>1
    <3>3. TypeOK'
      BY <1>4, <2>2, <3>2 DEF SaveIf, FileInv, TypeOK, Write
    <3>4. WriteCurrent'
      <4>1. held' = held /\ file' = file /\ held[c] # None
        BY <1>4 DEF SaveIf
      <4>2. /\ Version(file[PathFor[s]]) < MaxVersion
            /\ Version(held[c].rec) = Version(file[PathFor[s]])
        BY <1>0, <2>0, <2>2 DEF VersionMatches
      <4>3. /\ write'.client = c /\ write'.rec = r /\ write'.at = "temp"
            /\ held[write'.client].sess = write'.rec.id
        BY <3>1, <3>2
      <4> QED
        BY <3>1, <4>1, <4>2, <4>3 DEF WriteCurrent
    <3> QED
      BY <1>4, <3>3, <3>4 DEF SaveIf, FileInv, NoPartialFile
  <2> QED
    BY <1>4, <2>1, <2>2 DEF SaveIf
<1>5. CASE WriteTemp
  <2>1. /\ tmp' = [tmp EXCEPT ![PathFor[write.rec.id]] = write.rec]
        /\ write' = [client |-> write.client, cas |-> write.cas, rec |-> write.rec,
                     at |-> "rename"]
        /\ write # None /\ UNCHANGED <<file, held, outcome, removed>>
    BY <1>5 DEF WriteTemp
  <2>2. TypeOK'
    BY <1>w, <2>1 DEF FileInv, TypeOK, Write, Content
  <2>3. WriteCurrent'
    BY <1>w, <2>1 DEF FileInv, TypeOK, WriteCurrent
  <2> QED
    BY <2>1, <2>2, <2>3 DEF FileInv, NoPartialFile
<1>6. CASE Rename
  <2>1. tmp[PathFor[write.rec.id]] = write.rec
    BY <1>6 DEF Rename, FileInv, WriteCurrent
  <2>2. TypeOK'
    BY <1>6, <1>w DEF Rename, FileInv, TypeOK, Write, Content, Results
  <2>3. NoPartialFile'
    BY <1>6, <1>w, <2>1 DEF Rename, FileInv, TypeOK, NoPartialFile, Write
  <2> QED
    BY <1>6, <2>2, <2>3 DEF Rename, FileInv, WriteCurrent
<1>7. CASE WriteFails
  <2>1. TypeOK'
    BY <1>7, <1>w DEF WriteFails, FileInv, TypeOK, Write, Content, Results
  <2> QED
    BY <1>7, <2>1 DEF WriteFails, FileInv, NoPartialFile, WriteCurrent
<1>8. ASSUME NEW c \in Clients, NEW s \in Sessions, RemoveFile(c, s)
      PROVE  FileInv'
  <2>1. TypeOK'
    BY <1>8 DEF RemoveFile, FileInv, TypeOK, Content
  <2>2. NoPartialFile'
    BY <1>8 DEF RemoveFile, FileInv, TypeOK, NoPartialFile
  <2> QED
    BY <1>8, <2>1, <2>2 DEF RemoveFile, Unlocked, FileInv, WriteCurrent
<1>9. CASE Crash
  <2>1. TypeOK' /\ file' = file
    BY <1>9, <1>w DEF Crash, HalfWritten, FileInv, TypeOK, Content, Loaded, Results
  <2> QED
    BY <1>9, <2>1 DEF Crash, FileInv, NoPartialFile, WriteCurrent
<1> QED
  BY <1>1, <1>2, <1>3, <1>4, <1>5, <1>6, <1>7, <1>8, <1>9 DEF Next

\* Every step of the file store is a step of the abstract store, or none.
LEMMA StepRefines ==
    ASSUME Injective, ~DiskMayFill, FileInv, FileInv', [Next]_vars
    PROVE  [Store!Next]_(Store!vars)
<1> USE FileAssumption, ContentAssumption
<1>a. /\ Abstract = [s \in Sessions |-> file[PathFor[s]]]
      /\ \A p \in Paths : Read(p) = file[p] /\ file[p] \in Rec \cup {None}
  BY WholeFiles DEF FileInv
<1>b. Abstract' = [s \in Sessions |-> file'[PathFor[s]]]
  BY DEF FileInv, TypeOK, NoPartialFile, Read, Content, Abstract
<1>w. write # None => /\ write.rec.id \in Sessions /\ write.rec.value \in Values
                      /\ write.client \in Clients /\ write.rec \in Rec
  BY DEF FileInv, TypeOK, Write, Rec
<1>1. ASSUME UNCHANGED <<file, held, outcome, removed>> PROVE UNCHANGED Store!vars
  BY <1>1, <1>a, <1>b DEF Store!vars
<1>2. ASSUME NEW c \in Clients, NEW s \in Sessions, Load(c, s)
      PROVE  Store!Next
  <2>1. Abstract' = Abstract
    BY <1>2, <1>a, <1>b DEF Load
  <2>2. Store!Load(c, s)
    BY <1>2, <1>a, <2>1 DEF Load, Store!Load
  <2> QED  BY <2>2 DEF Store!Next
<1>3. ASSUME NEW c \in Clients, NEW v \in Values, SaveIf(c, v), ~UNCHANGED outcome
      PROVE  Store!Next
  <2>0. held[c].sess \in Sessions
    BY <1>3 DEF SaveIf, FileInv, TypeOK, Loaded
  <2>1. Abstract' = Abstract
    BY <1>3, <1>a, <1>b DEF SaveIf
  <2>2. Store!SaveIf(c, v)
    BY <1>3, <1>a, <2>0, <2>1
       DEF SaveIf, VersionMatches, Version, Store!SaveIf, Store!Matches, Store!Version
  <2> QED  BY <2>2 DEF Store!Next
<1>4. CASE Rename
  <2>1. PICK c \in Clients, s \in Sessions, v \in Values :
          c = write.client /\ s = write.rec.id /\ v = write.rec.value
    BY <1>4, <1>w DEF Rename
  <2>2. /\ Version(file[PathFor[s]]) < MaxVersion
        /\ write.rec.version = Version(file[PathFor[s]]) + 1
        /\ tmp[PathFor[s]] = write.rec
        /\ write.cas => /\ held[c] # None /\ held[c].sess = s
                        /\ Version(held[c].rec) = Version(file[PathFor[s]])
    BY <1>4, <2>1 DEF Rename, FileInv, WriteCurrent
  <2>3. Abstract[s] = file[PathFor[s]]
    BY <1>a
  <2>4. write.rec = Store!Stored(s, v, Abstract[s])
    BY <1>4, <1>w, <2>1, <2>2, <2>3
       DEF Rename, Rec, Version, Store!Stored, Store!NextVersion, Store!Version
  <2>5. Abstract' = [Abstract EXCEPT ![s] = write.rec]
    <3>1. file' = [file EXCEPT ![PathFor[s]] = write.rec]
      BY <1>4, <2>1, <2>2 DEF Rename
    <3>2. \A r \in Sessions : r # s => PathFor[r] # PathFor[s]
      BY DEF Injective
    <3>3. \A r \in Sessions :
            file'[PathFor[r]] = IF r = s THEN write.rec ELSE file[PathFor[r]]
      BY <3>1, <3>2 DEF FileInv, TypeOK
    <3> QED  BY <1>a, <1>b, <3>3
  <2>6. CASE ~write.cas
    <3>1. Store!Save(c, s, v)
      BY <1>4, <2>1, <2>2, <2>3, <2>4, <2>5, <2>6
         DEF Rename, Version, Store!Save, Store!Version
    <3> QED  BY <3>1 DEF Store!Next
  <2>7. CASE write.cas
    <3>1. Store!SaveIf(c, v)
      BY <1>4, <2>1, <2>2, <2>3, <2>4, <2>5, <2>7
         DEF Rename, Version, Store!SaveIf, Store!Version, Store!Matches
    <3> QED  BY <3>1 DEF Store!Next
  <2> QED  BY <2>6, <2>7
<1>5. CASE WriteFails
  <2>1. Abstract' = Abstract
    BY <1>5, <1>a, <1>b DEF WriteFails
  <2>2. Store!Fail(write.client)
    BY <1>5, <2>1 DEF WriteFails, Store!Fail
  <2> QED  BY <1>5, <1>w, <2>2 DEF WriteFails, Store!Next
<1>6. ASSUME NEW c \in Clients, NEW s \in Sessions, RemoveFile(c, s)
      PROVE  Store!Next
  <2>1. \A r \in Sessions : r # s => PathFor[r] # PathFor[s]
    BY DEF Injective
  <2>2. \A r \in Sessions : file'[PathFor[r]] = IF r = s THEN None ELSE file[PathFor[r]]
    BY <1>6, <2>1 DEF RemoveFile, FileInv, TypeOK
  <2>3. Abstract' = [Abstract EXCEPT ![s] = None]
    BY <1>a, <1>b, <2>2
  <2>4. Store!Remove(c, s)
    BY <1>6, <2>3 DEF RemoveFile, Store!Remove
  <2> QED  BY <2>4 DEF Store!Next
<1>7. CASE Crash
  <2>1. Abstract' = Abstract
    BY <1>7, <1>a, <1>b DEF Crash, HalfWritten
  <2>2. Store!Restart
    BY <1>7, <2>1 DEF Crash, Store!Restart
  <2> QED  BY <2>2 DEF Store!Next
<1>8. ASSUME NEW c \in Clients, NEW s \in Sessions, NEW v \in Values, Save(c, s, v)
      PROVE  UNCHANGED Store!vars
  BY <1>1, <1>8 DEF Save
<1>9. ASSUME NEW c \in Clients, NEW v \in Values, SaveIf(c, v), UNCHANGED outcome
      PROVE  UNCHANGED Store!vars
  BY <1>1, <1>9 DEF SaveIf
<1>10. CASE WriteTemp \/ UNCHANGED vars
  BY <1>1, <1>10 DEF WriteTemp, vars
<1> QED
  BY <1>2, <1>3, <1>4, <1>5, <1>6, <1>7, <1>8, <1>9, <1>10 DEF Next

\* If pathFor keeps the session ids apart and no write is cut short, then the
\* file store behaves as the atomic versioned map of IStateStore: through
\* failing opens and renames and through a crash at any point of a write.
THEOREM FileStoreRefines ==
    ASSUME Injective, ~DiskMayFill
    PROVE  Spec => ImplementsStore
<1>1. Init => Store!Init
  BY FileAssumption, ContentAssumption DEF Init, Store!Init, Abstract, Read
<1>2. FileInv /\ FileInv' /\ [Next]_vars => [Store!Next]_(Store!vars)
  BY StepRefines
<1>3. FileInv /\ [Next]_vars => FileInv'
  BY NextFile
<1> QED
  BY InitFile, <1>1, <1>2, <1>3, PTL DEF Spec, ImplementsStore, Store!Spec

\* Under the same condition on writes a reader never observes a partial file:
\* a crash leaves at most a temporary file behind.
THEOREM FilesAreWhole == ASSUME ~DiskMayFill PROVE Spec => []NoPartialFile
<1>1. FileInv => NoPartialFile
  BY DEF FileInv
<1>2. FileInv /\ [Next]_vars => FileInv'
  BY NextFile
<1> QED
  BY InitFile, <1>1, <1>2, PTL DEF Spec
\* A copy is the file's checkpoint or an older one, until the session is removed.
CopyBehind ==
    \A c \in Clients :
        held[c] # None /\ held[c].sess \notin removed =>
            LET now == file[PathFor[held[c].sess]]
            IN  held[c].rec = now \/ Version(held[c].rec) < Version(now)

LEMMA NextCopy ==
    ASSUME Injective, ~DiskMayFill, FileInv, CopyBehind, [Next]_vars
    PROVE  CopyBehind'
<1> USE FileAssumption, ContentAssumption
<1>0. \A p \in Paths : Read(p) = file[p] /\ file[p] \in Rec \cup {None}
  BY WholeFiles DEF FileInv
<1>v. \A r \in Rec \cup {None} : Version(r) \in Nat
  BY DEF Version, Rec
<1>1. ASSUME UNCHANGED <<file, held, removed>> PROVE CopyBehind'
  BY <1>1 DEF CopyBehind
<1>2. ASSUME NEW c \in Clients, NEW s \in Sessions, Load(c, s)
      PROVE  CopyBehind'
  BY <1>0, <1>2 DEF Load, CopyBehind, FileInv, TypeOK
<1>3. CASE Rename
  <2>1. /\ write.rec \in Rec /\ write.rec.id \in Sessions
        /\ tmp[PathFor[write.rec.id]] = write.rec
        /\ write.rec.version = Version(file[PathFor[write.rec.id]]) + 1
    BY <1>3 DEF Rename, FileInv, WriteCurrent, TypeOK, Write, Rec
  <2>2. file' = [file EXCEPT ![PathFor[write.rec.id]] = write.rec]
    BY <1>3, <2>1 DEF Rename
  <2>3. Version(write.rec) = Version(file[PathFor[write.rec.id]]) + 1
    BY <2>1 DEF Version
  <2> SUFFICES ASSUME NEW c \in Clients, held[c] # None, held[c].sess \notin removed
               PROVE  \/ held[c].rec = file'[PathFor[held[c].sess]]
                      \/ Version(held[c].rec) < Version(file'[PathFor[held[c].sess]])
    BY <1>3 DEF Rename, CopyBehind
  <2>4. held[c].sess \in Sessions /\ held[c].rec \in Rec \cup {None}
    BY DEF FileInv, TypeOK, Loaded
  <2>5. \/ held[c].rec = file[PathFor[held[c].sess]]
        \/ Version(held[c].rec) < Version(file[PathFor[held[c].sess]])
    BY DEF CopyBehind
  <2>6. CASE PathFor[held[c].sess] = PathFor[write.rec.id]
    <3>1. file'[PathFor[held[c].sess]] = write.rec
      BY <2>2, <2>4, <2>6 DEF FileInv, TypeOK
    <3>2. Version(held[c].rec) < Version(write.rec)
      BY <1>0, <1>v, <2>1, <2>3, <2>4, <2>5, <2>6
    <3> QED  BY <3>1, <3>2
  <2>7. CASE PathFor[held[c].sess] # PathFor[write.rec.id]
    BY <2>2, <2>4, <2>5, <2>7 DEF FileInv, TypeOK
  <2> QED  BY <2>6, <2>7
<1>4. ASSUME NEW c \in Clients, NEW s \in Sessions, RemoveFile(c, s)
      PROVE  CopyBehind'
  <2> SUFFICES ASSUME NEW d \in Clients, held[d] # None, held[d].sess \notin removed,
                      held[d].sess # s
               PROVE  \/ held[d].rec = file'[PathFor[held[d].sess]]
                      \/ Version(held[d].rec) < Version(file'[PathFor[held[d].sess]])
    BY <1>4 DEF RemoveFile, CopyBehind
  <2>1. held[d].sess \in Sessions
    BY DEF FileInv, TypeOK, Loaded
  <2>2. file'[PathFor[held[d].sess]] = file[PathFor[held[d].sess]]
    BY <1>4, <2>1 DEF RemoveFile, Injective, FileInv, TypeOK
  <2> QED
    BY <2>2 DEF CopyBehind
<1>5. CASE Crash
  BY <1>5 DEF Crash, CopyBehind
<1> QED
  BY <1>1, <1>2, <1>3, <1>4, <1>5 DEF Next, Save, SaveIf, WriteTemp, WriteFails, vars

\* Under both conditions saveIf has one winner: its rename replaces the very
\* checkpoint its caller loaded, for any number of clients and sessions.
THEOREM FilesOneWinner ==
    ASSUME Injective, ~DiskMayFill
    PROVE  Spec => CasReplacesWhatWasRead
<1> DEFINE Winner == \A c \in Clients :
        Rename /\ write.cas /\ write.client = c /\ held[c].sess \notin removed =>
            Read(PathFor[held[c].sess]) = held[c].rec
<1>1. Init => CopyBehind
  BY DEF Init, CopyBehind
<1>2. FileInv /\ [Next]_vars => FileInv'
  BY NextFile
<1>3. FileInv /\ CopyBehind /\ [Next]_vars => CopyBehind'
  BY NextCopy
<1>4. FileInv /\ CopyBehind => Winner
  <2> SUFFICES ASSUME FileInv, CopyBehind, NEW c \in Clients, Rename, write.cas,
                      write.client = c, held[c].sess \notin removed
               PROVE  Read(PathFor[held[c].sess]) = held[c].rec
    OBVIOUS
  <2>1. /\ held[c] # None /\ held[c].sess = write.rec.id
        /\ Version(held[c].rec) = Version(file[PathFor[held[c].sess]])
    BY DEF Rename, FileInv, WriteCurrent
  <2>2. PathFor[held[c].sess] \in Paths /\ held[c].rec \in Rec \cup {None}
    BY <2>1, FileAssumption DEF FileInv, TypeOK, Loaded
  <2>3. /\ Read(PathFor[held[c].sess]) = file[PathFor[held[c].sess]]
        /\ file[PathFor[held[c].sess]] \in Rec \cup {None}
    BY <2>2, WholeFiles DEF FileInv
  <2>4. ~(Version(held[c].rec) < Version(held[c].rec))
    BY <2>2, FileAssumption DEF Version, Rec
  <2> QED
    BY <2>1, <2>3, <2>4 DEF CopyBehind
<1> QED
  BY InitFile, <1>1, <1>2, <1>3, <1>4, PTL DEF Spec, CasReplacesWhatWasRead
----------------------------------------------------------------------------
(***************************************************************************)
(* The scheduler: its types and its inductive invariant                    *)
(***************************************************************************)
Readable == {s \in Schedules : Parses(TextOf[s])}
Jobs == [id : JobIds, schedule : Readable, enabled : BOOLEAN, limit : CatchUps, next : Nat, reg : Nat]
Timers == [id : TimerIds, session : Owners, due : Dues, reg : Nat]
Occasions == [reg : Nat, at : Nat]
Deliveries ==
    {d \in [at : {"deliver"}, jobs : Seq(Occasions), timers : Seq(Timers)] :
        d.jobs # <<>> \/ d.timers # <<>>}

Typed ==
    /\ clock \in Readings
    /\ jobs \in Seq(Jobs) /\ timers \in Seq(Timers)
    /\ adding \in {NoJob} \cup Jobs
    /\ tick \in [Tickers -> {Idle} \cup Deliveries]
    /\ saved \in [state : {"absent", "cut", "whole"}, jobs : Seq(Jobs), timers : Seq(Timers)]
    /\ regs \in Nat /\ timersAdded \in Nat /\ crashes \in Nat
    /\ fired \subseteq Occasions /\ expired \subseteq Nat /\ again \in BOOLEAN

\* What a thread has still to deliver.
JobsOf(k) == IF tick[k] = Idle THEN <<>> ELSE tick[k].jobs
TimersOf(k) == IF tick[k] = Idle THEN <<>> ELSE tick[k].timers

\* A registry has one entry per id, timers in their order, and no enabled job
\* without an instant.
OneEach(seq) == \A i, j \in DOMAIN seq : seq[i].id = seq[j].id => i = j
InOrder(seq) == \A i, j \in DOMAIN seq : i < j => seq[i].due <= seq[j].due
Timely(job) == job.enabled => job.next > 0
Kempt(js, ts) ==
    /\ OneEach(js) /\ OneEach(ts) /\ InOrder(ts)
    /\ \A i \in DOMAIN js : Timely(js[i])

Registries ==
    /\ Kempt(jobs, timers) /\ Kempt(saved.jobs, saved.timers)
    /\ adding # NoJob => Timely(adding)

\* Registrations are numbered, and no two entries come from one.
RegsApart(seq, last) ==
    /\ \A i \in DOMAIN seq : seq[i].reg <= last
    /\ \A i, j \in DOMAIN seq : seq[i].reg = seq[j].reg => i = j
Numbered ==
    /\ RegsApart(jobs, regs) /\ RegsApart(timers, timersAdded)
    /\ adding # NoJob => adding.reg <= regs /\ \A i \in DOMAIN jobs : jobs[i].reg # adding.reg

\* An occurrence handed out is one of the past, and an enabled job of the same
\* registration fires later.
OfThePast(x) ==
    /\ x.reg <= regs /\ x.at <= clock
    /\ adding # NoJob => adding.reg # x.reg
    /\ \A i \in DOMAIN jobs : jobs[i].reg = x.reg /\ jobs[i].enabled => x.at < jobs[i].next
Behind ==
    /\ \A x \in fired : OfThePast(x)
    /\ \A k \in Tickers : \A i \in DOMAIN JobsOf(k) : OfThePast(JobsOf(k)[i])

\* What is still to be delivered was not, and only one thread will.
JobsApart ==
    \A k \in Tickers : \A i \in DOMAIN JobsOf(k) :
        /\ JobsOf(k)[i] \notin fired
        /\ \A l \in Tickers : \A j \in DOMAIN JobsOf(l) :
              JobsOf(k)[i] = JobsOf(l)[j] => k = l /\ i = j

TimersApart ==
    /\ \A r \in expired : r <= timersAdded /\ \A i \in DOMAIN timers : timers[i].reg # r
    /\ \A k \in Tickers : \A i \in DOMAIN TimersOf(k) :
          /\ TimersOf(k)[i].reg <= timersAdded /\ TimersOf(k)[i].reg \notin expired
          /\ \A j \in DOMAIN timers : timers[j].reg # TimersOf(k)[i].reg
          /\ \A l \in Tickers : \A j \in DOMAIN TimersOf(l) :
                TimersOf(k)[i].reg = TimersOf(l)[j].reg => k = l /\ i = j

SchedInv ==
    Typed /\ Registries /\ Numbered /\ Behind /\ JobsApart /\ TimersApart /\ ~again
----------------------------------------------------------------------------
(***************************************************************************)
(* Natural numbers                                                         *)
(***************************************************************************)
LEMMA LeastOf ==
    ASSUME NEW S, S \subseteq Nat, S # {}
    PROVE  \E x \in S : \A y \in S : x <= y
<1> DEFINE R == {p \in Nat \X Nat : p[1] < p[2]}
<1>1. IsWellFoundedOn(R, Nat)
  BY NatLessThanWellFounded DEF OpToRel
<1>2. PICK x \in S : \A y \in S : ~(<<y, x>> \in R)
  <2> HIDE DEF R
  <2> QED
    BY <1>1, WFMin
<1>3. ASSUME NEW y \in S PROVE x <= y
  <2>1. x \in Nat /\ y \in Nat /\ ~(<<y, x>> \in R)
    BY <1>2
  <2> QED
    BY <2>1
<1> QED
  BY <1>3

LEMMA MinFacts ==
    ASSUME NEW S, S \subseteq Nat, S # {}
    PROVE  Min(S) \in S /\ \A y \in S : Min(S) <= y
BY LeastOf DEF Min

LEMMA SetInduction ==
    ASSUME NEW S, 0 \in S, \A n \in Nat : n \in S => n + 1 \in S
    PROVE  Nat \subseteq S
<1> DEFINE T == {n \in Nat : n \notin S}
<1>1. SUFFICES ASSUME T # {} PROVE FALSE
  OBVIOUS
<1>2. PICK x \in T : \A y \in T : x <= y
  <2>1. T \subseteq Nat
    OBVIOUS
  <2> HIDE DEF T
  <2> QED
    BY <1>1, <2>1, LeastOf
<1>3. x \in Nat /\ x # 0
  BY <1>2
<1>4. x - 1 \in Nat /\ x - 1 \notin T
  BY <1>2, <1>3
<1> QED
  BY <1>2, <1>3, <1>4
----------------------------------------------------------------------------
(***************************************************************************)
(* The next instant of a schedule                                          *)
(***************************************************************************)
LEMMA FieldRange ==
    ASSUME NEW field \in Seq(Items), NEW lo \in Int, NEW hi \in Int,
           FieldOk(field, lo, hi, FALSE)
    PROVE  /\ FieldValues(field, lo, hi, FALSE) \subseteq lo..hi
           /\ lo <= hi => FieldValues(field, lo, hi, FALSE) # {}
<1>1. CASE Unrestricted(field)
  <2>1. FieldValues(field, lo, hi, FALSE) = lo..hi
    BY <1>1 DEF FieldValues
  <2>2. lo <= hi => lo \in lo..hi
    OBVIOUS
  <2> QED
    BY <2>1, <2>2
<1>2. ASSUME ~Unrestricted(field) PROVE FieldValues(field, lo, hi, FALSE) \subseteq lo..hi
  <2> SUFFICES ASSUME NEW i \in DOMAIN field, NEW v \in ItemValues(field[i], lo, hi, FALSE)
               PROVE  v \in lo..hi
    BY <1>2 DEF FieldValues
  <2>1. field[i] \in Items
    OBVIOUS
  <2>2. ItemOk(field[i], lo, hi, FALSE)
    BY <1>2 DEF FieldOk
  <2>3. LastOf(field[i], hi, FALSE) \in Int
    BY <2>1 DEF LastOf, Items
  <2>4. PICK b \in Int, l \in Int : lo <= b /\ l <= hi /\ v \in b..l
    <3> DEFINE b == IF field[i].form = "star" THEN lo ELSE field[i].a
    <3>1. b \in Int /\ v \in b..LastOf(field[i], hi, FALSE)
      BY <2>1 DEF ItemValues, Items
    <3>2. lo <= b /\ LastOf(field[i], hi, FALSE) <= hi
      BY <2>2 DEF ItemOk
    <3> QED
      BY <2>3, <3>1, <3>2
  <2> QED
    BY <2>4
<1>3. ASSUME ~Unrestricted(field) PROVE FieldValues(field, lo, hi, FALSE) # {}
  <2>0. 1 \in DOMAIN field
    <3>1. field # <<>> /\ Len(field) \in Nat /\ DOMAIN field = 1..Len(field)
      BY DEF FieldOk
    <3> QED
      BY <3>1
  <2>1. 1 \in DOMAIN field /\ ItemOk(field[1], lo, hi, FALSE)
    BY <1>3, <2>0 DEF FieldOk
  <2> DEFINE item == field[1]
             begin == IF item.form = "star" THEN lo ELSE item.a
  <2>2. item \in Items
    BY <2>1
  <2>3. begin \in Int /\ LastOf(item, hi, FALSE) \in Int /\ begin <= LastOf(item, hi, FALSE)
    BY <2>1, <2>2 DEF ItemOk, LastOf, Items
  <2>4. item.step # <<>> => item.step[1] \in Int /\ item.step[1] > 0
    <3>1. item.step \in Seq(Int)
      BY <2>2 DEF Items
    <3> QED
      BY <2>1, <3>1 DEF ItemOk
  <2>5. begin \in ItemValues(item, lo, hi, FALSE)
    <3>1. \A b, l \in Int : b <= l => b - b = 0 /\ b \in b..l
      OBVIOUS
    <3>2. item.step = <<>> \/ (item.step[1] \in Int /\ item.step[1] > 0)
      BY <2>4
    <3>3. 0 % (IF item.step = <<>> THEN 1 ELSE item.step[1]) = 0
      BY <3>2
    <3> QED
      BY <2>3, <3>1, <3>3 DEF ItemValues
  <2> QED
    BY <1>3, <2>1, <2>5 DEF FieldValues
<1> QED
  BY <1>1, <1>2, <1>3

LEMMA FieldsParse ==
    ASSUME NEW text, Parses(text), text.form # "relative", text.form # "macro"
    PROVE  /\ Len(text.fields) \in {5, 6}
           /\ FieldOk(text.fields[1], 0, 59, FALSE) /\ FieldOk(text.fields[2], 0, 23, FALSE)
BY ZenonT(60) DEF Parses

LEMMA FieldsMean ==
    ASSUME NEW text, text.form # "relative", text.form # "macro", NEW f, f = text.fields
    PROVE  /\ Parse(text).kind = "cron"
           /\ Parse(text).minute = FieldValues(f[1], 0, 59, FALSE)
           /\ Parse(text).hour = FieldValues(f[2], 0, 23, FALSE)
<1>1. Parse(text) = OfFields(f)
  BY ZenonT(60) DEF Parse
<1> QED
  BY <1>1 DEF OfFields, Calendar

\* Parsing bounds the hours and the minutes of a calendar schedule.
LEMMA ParsedTimes ==
    ASSUME NEW text, Written(text), Parses(text), text.form # "relative"
    PROVE  /\ Parse(text).kind = "cron"
           /\ Parse(text).hour \subseteq 0..23 /\ Parse(text).minute \subseteq 0..59
           /\ Parse(text).hour # {} /\ Parse(text).minute # {}
<1>1. CASE text.form = "macro"
  <2>1. text.name \in Macros /\ Parse(text) = Macro(text.name)
    BY <1>1 DEF Parses, Parse
  <2>2. \A n \in Macros : /\ Macro(n).kind = "cron"
                           /\ Macro(n).hour \in {{0}, 0..23} /\ Macro(n).minute \in {{0}, 0..59}
    BY DEF Macros, Macro, Calendar
  <2>3. \A S \in {{0}, 0..23} : S \subseteq 0..23 /\ 0 \in S
    OBVIOUS
  <2>4. \A S \in {{0}, 0..59} : S \subseteq 0..59 /\ 0 \in S
    OBVIOUS
  <2> QED
    BY <2>1, <2>2, <2>3, <2>4
<1>2. CASE text.form = "fields"
  <2> DEFINE f == text.fields
  <2>0. text.form # "relative" /\ text.form # "macro"
    BY <1>2
  <2>1. f \in Seq(Seq(Items))
    BY <1>2 DEF Written
  <2>2. Len(f) \in {5, 6} /\ FieldOk(f[1], 0, 59, FALSE) /\ FieldOk(f[2], 0, 23, FALSE)
    BY <2>0, FieldsParse
  <2>3. f[1] \in Seq(Items) /\ f[2] \in Seq(Items)
    <3>1. 1 \in 1..Len(f) /\ 2 \in 1..Len(f)
      BY <2>2
    <3> HIDE DEF f
    <3> QED
      BY <2>1, <3>1, ElementOfSeq
  <2>4. /\ Parse(text).kind = "cron"
        /\ Parse(text).minute = FieldValues(f[1], 0, 59, FALSE)
        /\ Parse(text).hour = FieldValues(f[2], 0, 23, FALSE)
    BY <2>0, FieldsMean
  <2> HIDE DEF f
  <2>5. FieldValues(f[1], 0, 59, FALSE) \subseteq 0..59 /\ FieldValues(f[1], 0, 59, FALSE) # {}
    <3>1. FieldOk(f[1], 0, 59, FALSE)
      BY <2>2
    <3>2. 0 \in Int /\ 59 \in Int /\ 0 <= 59
      OBVIOUS
    <3> QED
      BY <2>3, <3>1, <3>2, FieldRange
  <2>6. FieldValues(f[2], 0, 23, FALSE) \subseteq 0..23 /\ FieldValues(f[2], 0, 23, FALSE) # {}
    <3>1. FieldOk(f[2], 0, 23, FALSE)
      BY <2>2
    <3>2. 0 \in Int /\ 23 \in Int /\ 0 <= 23
      OBVIOUS
    <3> QED
      BY <2>3, <3>1, <3>2, FieldRange
  <2> QED
    BY <2>4, <2>5, <2>6
<1> QED
  BY <1>1, <1>2 DEF Written

LEMMA DayAndTime ==
    ASSUME NEW t \in Int, NEW offset \in Int
    PROVE  /\ LocalDay(t, offset) \in Int /\ TimeOfDay(t, offset) \in 0..(Day - 1)
           /\ t = Midnight(LocalDay(t, offset), offset) + TimeOfDay(t, offset)
BY DEF LocalDay, TimeOfDay, Midnight, Day, Minute

\* The minutes of the day, and those of a schedule.
Minutes == 0..1439
Times(c) == {h * 60 + m : h \in c.hour, m \in c.minute}

\* What nextAfter needs of a calendar schedule.
Usable(c) == c.kind = "cron" /\ Times(c) \subseteq Minutes /\ Times(c) # {}

LEMMA ParsedUsable ==
    ASSUME NEW text, Written(text), Parses(text), text.form # "relative"
    PROVE  Usable(Parse(text))
<1> DEFINE c == Parse(text)
<1>1. c.kind = "cron" /\ c.hour \subseteq 0..23 /\ c.minute \subseteq 0..59
  BY ParsedTimes
<1>2. PICK h \in c.hour, m \in c.minute : TRUE
  BY ParsedTimes
<1> HIDE DEF c
<1>3. h * 60 + m \in Times(c)
  BY <1>2 DEF Times
<1>4. Times(c) \subseteq 0..1439
  BY <1>1 DEF Times
<1> QED
  BY <1>1, <1>3, <1>4 DEF Usable, Minutes, c

\* The minute of the day at which the search starts, and a minute of a day
\* that is after t.
MinuteOf(t, offset) == TimeOfDay(t, offset) \div Minute
At60(d, x, offset) == Midnight(d, offset) + Minute * x
Later(d, x, t, offset) == At60(d, x, offset) > t

LEMMA LaterThan ==
    ASSUME NEW t \in Int, NEW offset \in Int, NEW d \in Int, NEW x \in Minutes
    PROVE  /\ LocalDay(t, offset) \in Int /\ MinuteOf(t, offset) \in Int /\ At60(d, x, offset) \in Int
           /\ Later(d, x, t, offset) <=>
                d > LocalDay(t, offset) \/ (d = LocalDay(t, offset) /\ x > MinuteOf(t, offset))
<1>1. PICK time, today, now : /\ time = TimeOfDay(t, offset) /\ today = LocalDay(t, offset)
                             /\ now = MinuteOf(t, offset)
  OBVIOUS
<1>2. today \in Int /\ time \in 0..(Day - 1) /\ t = Midnight(today, offset) + time
  BY <1>1, DayAndTime
<1>3. today \in Int /\ time \in 0..2879 /\ t = today * 2880 - offset + time
  BY <1>2 DEF Day, Minute, Midnight
<1>4. now = time \div 2
  BY <1>1 DEF MinuteOf, Minute
<1>0. x \in 0..1439
  BY DEF Minutes
<1>5. now \in Int /\ 2 * now <= time /\ time < 2 * now + 2
  BY <1>3, <1>4
<1>6. At60(d, x, offset) = d * 2880 - offset + 2 * x
  BY <1>0 DEF At60, Midnight, Day, Minute
<1>7. PICK m \in Int, n \in Int : m = d * 2880 /\ n = today * 2880
  BY <1>3
<1>8. PICK u \in Int : u = At60(d, x, offset)
  <2>1. d * 2880 - offset + 2 * x \in Int
    BY <1>0
  <2> QED
    BY <1>6, <2>1
<1>9. u = m - offset + 2 * x /\ t = n - offset + time /\ time \in 0..2879 /\ today \in Int
      /\ x \in 0..1439
  BY <1>0, <1>3, <1>6, <1>7, <1>8
<1> DEFINE Goal == Later(d, x, t, offset) <=> d > today \/ (d = today /\ x > now)
<1>10. ASSUME d > today PROVE Goal
  <2>1. m >= n + 2880
    BY <1>3, <1>7, <1>10
  <2>2. u > t
    BY <1>9, <2>1
  <2> QED
    BY <1>1, <1>8, <1>10, <2>2 DEF Later
<1>11. ASSUME d < today PROVE Goal
  <2>1. n >= m + 2880
    BY <1>3, <1>7, <1>11
  <2>2. ~(u > t)
    BY <1>9, <2>1
  <2> QED
    BY <1>8, <1>9, <1>11, <2>2 DEF Later
<1>12. ASSUME d = today PROVE Goal
  <2>1. m = n
    BY <1>7, <1>12
  <2>2. u > t <=> 2 * x > time
    BY <1>9, <2>1
  <2>3. u > t <=> x > now
    BY <1>5, <1>9, <2>2
  <2> QED
    BY <1>8, <1>12, <1>9, <2>3 DEF Later
<1>13. Goal
  BY <1>9, <1>10, <1>11, <1>12
<1> QED
  BY <1>1, <1>5, <1>8, <1>9, <1>13

\* The search from an instant on.
LEMMA SearchFacts ==
    ASSUME SearchDays \in Nat, NEW c, Usable(c), NEW t \in Int, NEW offset \in Int,
           NEW today, today = LocalDay(t, offset), NEW now, now = MinuteOf(t, offset)
    PROVE  /\ NextAfter(c, t, offset) = SearchFrom(c, today, now, offset, FiringDays(c, today, now))
           /\ today \in Int /\ now \in Int /\ FiringDays(c, today, now) \subseteq 0..SearchDays
           /\ \A k \in FiringDays(c, today, now) :
                 /\ DayMatches(c, Civil(today + k))
                 /\ TimesOn(c, k = 0, now) = {x \in Times(c) : k = 0 => x > now}
                 /\ TimesOn(c, k = 0, now) # {} /\ TimesOn(c, k = 0, now) \subseteq Nat
           /\ \A k \in 0..SearchDays :
                 (DayMatches(c, Civil(today + k)) /\ \E x \in Times(c) : k = 0 => x > now)
                     => k \in FiringDays(c, today, now)
<1>1. NextAfter(c, t, offset) = SearchFrom(c, today, now, offset, FiringDays(c, today, now))
  BY DEF NextAfter, Usable, MinuteOf
<1>2. today \in Int /\ now \in Int
  <2>1. 0 \in Int /\ 0 \in Minutes
    BY DEF Minutes
  <2> QED
    BY <2>1, LaterThan
<1>5. \A f \in BOOLEAN : TimesOn(c, f, now) = {x \in Times(c) : f => x > now}
  BY DEF TimesOn, Times
<1>6. ASSUME NEW k \in FiringDays(c, today, now)
      PROVE  /\ DayMatches(c, Civil(today + k))
             /\ TimesOn(c, k = 0, now) = {x \in Times(c) : k = 0 => x > now}
             /\ TimesOn(c, k = 0, now) # {} /\ TimesOn(c, k = 0, now) \subseteq Nat
  <2>1. DayMatches(c, Civil(today + k)) /\ (k = 0 => TimesOn(c, TRUE, now) # {})
    BY DEF FiringDays
  <2>2. TimesOn(c, k = 0, now) = {x \in Times(c) : k = 0 => x > now}
    BY <1>5
  <2>3. TimesOn(c, k = 0, now) # {}
    <3>1. CASE k = 0
      BY <2>1, <3>1
    <3>2. CASE k # 0
      BY <2>2, <3>2 DEF Usable
    <3> QED
      BY <3>1, <3>2
  <2>4. TimesOn(c, k = 0, now) \subseteq Nat
    <3>1. Times(c) \subseteq Minutes /\ Minutes \subseteq Nat
      <4>1. Minutes \subseteq Nat
        BY DEF Minutes
      <4> QED
        BY <4>1 DEF Usable
    <3>2. TimesOn(c, k = 0, now) \subseteq Times(c)
      BY <2>2
    <3> QED
      BY <3>1, <3>2
  <2> QED
    BY <2>1, <2>2, <2>3, <2>4
<1>7. ASSUME NEW k \in 0..SearchDays, DayMatches(c, Civil(today + k)),
             NEW x \in Times(c), k = 0 => x > now
      PROVE  k \in FiringDays(c, today, now)
  <2>1. k = 0 => x \in TimesOn(c, TRUE, now)
    BY <1>5, <1>7
  <2> QED
    BY <1>7, <2>1 DEF FiringDays
<1>8. FiringDays(c, today, now) \subseteq 0..SearchDays
  BY DEF FiringDays
<1> QED
  BY <1>1, <1>2, <1>6, <1>7, <1>8

\* SearchFrom answers an instant after t at which the schedule fires.
LEMMA NextFires ==
    ASSUME SearchDays \in Nat, NEW c, Usable(c), NEW t \in Int, NEW offset \in Int,
           NextAfter(c, t, offset) # Never
    PROVE  /\ NextAfter(c, t, offset) \in Int /\ NextAfter(c, t, offset) > t
           /\ \E d \in Int, x \in Times(c) :
                 /\ NextAfter(c, t, offset) = At60(d, x, offset) /\ DayMatches(c, Civil(d))
                 /\ d <= LocalDay(t, offset) + SearchDays
<1>1. PICK today, now : today = LocalDay(t, offset) /\ now = MinuteOf(t, offset)
  OBVIOUS
<1>2. PICK days : days = FiringDays(c, today, now)
  OBVIOUS
<1>3. days # {} /\ NextAfter(c, t, offset) = FirstOn(c, Min(days), today, now, offset)
  BY <1>1, <1>2, SearchFacts DEF SearchFrom
<1>4. days \subseteq Nat /\ days \subseteq 0..SearchDays /\ today \in Int /\ now \in Int
  <2>1. days \subseteq 0..SearchDays /\ today \in Int /\ now \in Int
    BY <1>1, <1>2, SearchFacts
  <2>2. 0..SearchDays \subseteq Nat
    OBVIOUS
  <2> QED
    BY <2>1, <2>2
<1>5. PICK k : k = Min(days)
  OBVIOUS
<1>6. k \in days /\ k \in Nat
  BY <1>3, <1>4, <1>5, MinFacts
<1>7. /\ DayMatches(c, Civil(today + k))
      /\ TimesOn(c, k = 0, now) = {x \in Times(c) : k = 0 => x > now}
      /\ TimesOn(c, k = 0, now) # {} /\ TimesOn(c, k = 0, now) \subseteq Nat
  BY <1>1, <1>2, <1>6, SearchFacts
<1>8. PICK x : x = Min(TimesOn(c, k = 0, now))
  OBVIOUS
<1>9. x \in Times(c) /\ (k = 0 => x > now)
  <2>1. x \in TimesOn(c, k = 0, now)
    BY <1>7, <1>8, MinFacts
  <2> QED
    BY <1>7, <2>1
<1>10. NextAfter(c, t, offset) = At60(today + k, x, offset)
  BY <1>3, <1>5, <1>8 DEF FirstOn, At60
<1>11. today + k \in Int /\ (today + k > today \/ (today + k = today /\ x > now))
  BY <1>4, <1>6, <1>9
<1>12. NextAfter(c, t, offset) > t
  <2>1. Later(today + k, x, t, offset)
        <=> today + k > today \/ (today + k = today /\ x > now)
    <3>1. x \in Minutes
      BY <1>9 DEF Usable
    <3> QED
      BY <1>1, <1>11, <3>1, LaterThan
  <2> QED
    BY <1>10, <1>11, <2>1 DEF Later
<1>13. NextAfter(c, t, offset) \in Int
  <2>1. x \in 0..1439
    BY <1>9 DEF Usable, Minutes
  <2> QED
    BY <1>10, <1>11, <2>1 DEF At60, Midnight, Day, Minute
<1>14. today + k <= LocalDay(t, offset) + SearchDays
  BY <1>1, <1>4, <1>6
<1> QED
  BY <1>7, <1>9, <1>10, <1>11, <1>12, <1>13, <1>14

\* ... and none is earlier; within the days searched there is an answer.
LEMMA NextIsFirst ==
    ASSUME SearchDays \in Nat, Never \notin Int, NEW c, Usable(c), NEW t \in Int, NEW offset \in Int,
           NEW d \in Int, NEW x \in Times(c), DayMatches(c, Civil(d)),
           Later(d, x, t, offset), d <= LocalDay(t, offset) + SearchDays
    PROVE  /\ NextAfter(c, t, offset) # Never
           /\ NextAfter(c, t, offset) <= At60(d, x, offset)
<1>1. PICK today, now : today = LocalDay(t, offset) /\ now = MinuteOf(t, offset)
  OBVIOUS
<1>2. PICK days : days = FiringDays(c, today, now)
  OBVIOUS
<1>3. today \in Int /\ now \in Int /\ days \subseteq Nat
  <2>1. days \subseteq 0..SearchDays /\ today \in Int /\ now \in Int
    BY <1>1, <1>2, SearchFacts
  <2>2. 0..SearchDays \subseteq Nat
    OBVIOUS
  <2> QED
    BY <2>1, <2>2
<1>4. d > today \/ (d = today /\ x > now)
  <2>1. Later(d, x, t, offset) <=> d > today \/ (d = today /\ x > now)
    <3>1. x \in Minutes
      BY DEF Usable
    <3> QED
      BY <1>1, <3>1, LaterThan
  <2> QED
    BY <2>1
<1>5. PICK k : k = d - today
  OBVIOUS
<1>6. k \in 0..SearchDays /\ today + k = d /\ (k = 0 => x > now)
  BY <1>1, <1>3, <1>4, <1>5
<1>7. k \in days
  BY <1>1, <1>2, <1>6, SearchFacts
<1>8. PICK first : first = Min(days)
  OBVIOUS
<1>9. first \in days /\ first <= k /\ first \in Nat
  BY <1>3, <1>7, <1>8, MinFacts
<1>10. NextAfter(c, t, offset) = FirstOn(c, first, today, now, offset)
  BY <1>1, <1>2, <1>7, <1>8, SearchFacts DEF SearchFrom
<1>11. /\ TimesOn(c, first = 0, now) = {y \in Times(c) : first = 0 => y > now}
       /\ TimesOn(c, first = 0, now) # {} /\ TimesOn(c, first = 0, now) \subseteq Nat
  BY <1>1, <1>2, <1>9, SearchFacts
<1>12. PICK y : y = Min(TimesOn(c, first = 0, now))
  OBVIOUS
<1>13. y \in TimesOn(c, first = 0, now) /\ \A z \in TimesOn(c, first = 0, now) : y <= z
  BY <1>11, <1>12, MinFacts
<1>14. NextAfter(c, t, offset) = At60(today + first, y, offset)
  BY <1>10, <1>12 DEF FirstOn, At60
<1>15. y \in 0..1439 /\ x \in 0..1439
  BY <1>11, <1>13 DEF Usable, Minutes
<1>16. first = k => y <= x
  BY <1>6, <1>11, <1>13
<1>17. NextAfter(c, t, offset) = (today + first) * 2880 - offset + 2 * y
  BY <1>14 DEF At60, Midnight, Day, Minute
<1>18. At60(d, x, offset) = (today + k) * 2880 - offset + 2 * x
  BY <1>6 DEF At60, Midnight, Day, Minute
<1>19. NextAfter(c, t, offset) \in Int
  BY <1>3, <1>9, <1>15, <1>17
<1> QED
  BY <1>3, <1>6, <1>9, <1>15, <1>16, <1>17, <1>18, <1>19

\* Whatever the text, an answer is later.
LEMMA NextIsLater ==
    ASSUME SearchDays \in Nat, NEW text, Written(text), Parses(text), NEW t \in Int, NEW offset \in Int,
           NextAfter(Parse(text), t, offset) # Never
    PROVE  NextAfter(Parse(text), t, offset) \in Int /\ NextAfter(Parse(text), t, offset) > t
<1>1. CASE text.form = "relative"
  <2>1. text.delay \in Int /\ text.delay > 0
    BY <1>1 DEF Written, Parses
  <2>2. NextAfter(Parse(text), t, offset) = t + text.delay
    BY <1>1 DEF NextAfter, Parse
  <2> QED
    BY <2>1, <2>2
<1>2. CASE text.form # "relative"
  BY <1>2, ParsedUsable, NextFires
<1> QED
  BY <1>1, <1>2
----------------------------------------------------------------------------
(***************************************************************************)
(* The calendar                                                            *)
(***************************************************************************)
CalendarInv ==
    /\ given \in Texts /\ Parses(given) /\ zone \in Zones
    /\ since \in Int /\ upcoming \in Int \cup {Never} /\ asked \in Nat
    /\ asked > 0 => upcoming = NextAfter(Parse(given), since, zone)

HoursOfDay == 0..23
MinutesOfHour == 0..59

LEMMA HourAndMinute ==
    ASSUME NEW d \in Int, NEW offset \in Int, NEW h \in HoursOfDay, NEW m \in MinutesOfHour,
           NEW x, x = h * 60 + m, NEW u, u = At60(d, x, offset)
    PROVE  /\ LocalDay(u, offset) = d /\ TimeOfDay(u, offset) % Minute = 0
           /\ TimeOfDay(u, offset) \div (60 * Minute) = h
           /\ (TimeOfDay(u, offset) \div Minute) % 60 = m
<1>0. h \in 0..23 /\ m \in 0..59
  BY DEF HoursOfDay, MinutesOfHour
<1>a. PICK y : y = 2 * (60 * h + m)
  OBVIOUS
<1>1. y \in 0..2878 /\ y % 2 = 0 /\ y \div 120 = h /\ (y \div 2) % 60 = m
  <2>1. 2 * (60 * h + m) \in 0..2878 /\ (2 * (60 * h + m)) % 2 = 0
    BY <1>0
  <2>2. (2 * (60 * h + m)) \div 120 = h
    BY <1>0
  <2>3. (2 * (60 * h + m)) \div 2 = 60 * h + m
    BY <1>0
  <2>4. (60 * h + m) % 60 = m
    BY <1>0
  <2> QED
    BY <1>a, <2>1, <2>2, <2>3, <2>4
<1>2. u = Midnight(d, offset) + y /\ y \in 0..(Day - 1)
  BY <1>0, <1>1, <1>a DEF At60, Minute, Day
<1>3. LocalDay(u, offset) = d /\ TimeOfDay(u, offset) = y
  <2>1. LocalDay(Midnight(d, offset) + y, offset) = d /\ TimeOfDay(Midnight(d, offset) + y, offset) = y
    BY <1>2 DEF LocalDay, TimeOfDay, Midnight, Day, Minute
  <2> QED
    BY <1>2, <2>1
<1>4. Minute = 2 /\ 60 * Minute = 120
  BY DEF Minute
<1> QED
  BY <1>1, <1>3, <1>4

LEMMA EarliestNext ==
    ASSUME CalendarAssumption, CalendarInv
    PROVE  NextIsEarliest
<1> SUFFICES ASSUME asked > 0, given.form \in {"fields", "macro"}
             PROVE  NextIsEarliest
  BY DEF NextIsEarliest
<1> DEFINE c == Parse(given)
<1>1. /\ since \in Int /\ zone \in Int /\ SearchDays \in Nat /\ Never \notin Int
      /\ Written(given) /\ Parses(given) /\ upcoming = NextAfter(c, since, zone)
  BY DEF CalendarInv, CalendarAssumption
<1>2. Usable(c) /\ c.hour \subseteq 0..23 /\ c.minute \subseteq 0..59
  BY <1>1, ParsedUsable, ParsedTimes
<1>3. LocalDay(since, zone) \in Int
  BY <1>1, DayAndTime
<1> HIDE DEF c
<1>4. ASSUME upcoming # Never
      PROVE  /\ upcoming > since /\ TimeOfDay(upcoming, zone) % Minute = 0
             /\ LocalDay(upcoming, zone) \in Int
             /\ LocalDay(upcoming, zone) <= LocalDay(since, zone) + SearchDays
             /\ Matches(c, Civil(LocalDay(upcoming, zone)), TimeOfDay(upcoming, zone) \div (60 * Minute),
                        (TimeOfDay(upcoming, zone) \div Minute) % 60)
  <2>1. PICK d \in Int, x \in Times(c) :
            /\ upcoming = At60(d, x, zone) /\ DayMatches(c, Civil(d))
            /\ d <= LocalDay(since, zone) + SearchDays /\ upcoming > since
    BY <1>1, <1>2, <1>4, NextFires
  <2>2. PICK h \in c.hour, m \in c.minute : x = h * 60 + m
    BY DEF Times
  <2>3. /\ LocalDay(upcoming, zone) = d /\ TimeOfDay(upcoming, zone) % Minute = 0
        /\ TimeOfDay(upcoming, zone) \div (60 * Minute) = h
        /\ (TimeOfDay(upcoming, zone) \div Minute) % 60 = m
    <3>1. d \in Int /\ h \in HoursOfDay /\ m \in MinutesOfHour
      BY <1>2, <2>1, <2>2 DEF HoursOfDay, MinutesOfHour
    <3>2. x = h * 60 + m /\ upcoming = At60(d, x, zone) /\ zone \in Int
      BY <1>1, <2>1, <2>2
    <3> QED
      BY <3>1, <3>2, HourAndMinute
  <2>4. Matches(c, Civil(d), h, m)
    BY <2>1, <2>2 DEF Matches, DayMatches
  <2> QED
    BY <2>1, <2>3, <2>4
<1>5. ASSUME NEW d \in Int, d <= LocalDay(since, zone) + SearchDays, NEW h \in c.hour, NEW m \in c.minute,
             Midnight(d, zone) + Minute * (60 * h + m) > since, Matches(c, Civil(d), h, m)
      PROVE  upcoming # Never /\ Midnight(d, zone) + Minute * (60 * h + m) >= upcoming
  <2>1. DayMatches(c, Civil(d))
    BY <1>5 DEF Matches, DayMatches
  <2>2. 60 * h + m = h * 60 + m /\ h * 60 + m \in Times(c)
    BY <1>2 DEF Times
  <2>3. PICK x \in Times(c) : x = 60 * h + m
    BY <2>2
  <2>4. Later(d, x, since, zone) /\ At60(d, x, zone) = Midnight(d, zone) + Minute * (60 * h + m)
    BY <1>5, <2>3 DEF Later, At60
  <2>5. upcoming # Never /\ upcoming <= At60(d, x, zone)
    BY <1>1, <1>2, <1>5, <2>1, <2>3, <2>4, NextIsFirst
  <2>6. upcoming \in Int /\ At60(d, x, zone) \in Int
    <3>1. x \in Minutes
      BY <1>2, <2>3 DEF Usable
    <3> QED
      BY <1>1, <1>2, <2>5, <3>1, NextFires, LaterThan
  <2> QED
    BY <2>4, <2>5, <2>6
<1>6. ASSUME NEW last, last = IF upcoming = Never THEN LocalDay(since, zone) + SearchDays ELSE LocalDay(upcoming, zone),
             NEW d \in LocalDay(since, zone)..last, NEW h \in c.hour, NEW m \in c.minute,
             Midnight(d, zone) + Minute * (60 * h + m) > since, Matches(c, Civil(d), h, m)
      PROVE  upcoming # Never /\ Midnight(d, zone) + Minute * (60 * h + m) >= upcoming
  <2>1. last \in Int /\ last <= LocalDay(since, zone) + SearchDays
    BY <1>1, <1>3, <1>4, <1>6
  <2>2. d \in Int /\ d <= LocalDay(since, zone) + SearchDays
    BY <1>1, <1>3, <2>1
  <2> QED
    BY <1>5, <1>6, <2>2
<1> QED
  BY <1>4, <1>6 DEF NextIsEarliest, c

\* CronExpression::nextAfter: for any schedule of five or six fields or a
\* macro, any time zone and any instant, the answer is the earliest later
\* minute that the schedule matches.
THEOREM EarliestAnswer == CalendarSpec => []NextIsEarliest
<1>1. CalendarInit => CalendarInv
  BY CalendarAssumption DEF CalendarInit, CalendarInv
<1>2. CalendarInv /\ [Ask]_calendarVars => CalendarInv'
  <2> SUFFICES ASSUME CalendarInv, [Ask]_calendarVars PROVE CalendarInv'
    OBVIOUS
  <2>1. CASE Ask
    <3>1. /\ upcoming \in Int /\ zone \in Int /\ Written(given) /\ Parses(given) /\ SearchDays \in Nat
      BY <2>1, CalendarAssumption DEF Ask, CalendarInv
    <3>2. upcoming' = NextAfter(Parse(given), upcoming, zone)
      BY <2>1 DEF Ask
    <3>3. upcoming' \in Int \cup {Never}
      BY <3>1, <3>2, NextIsLater
    <3> QED
      BY <2>1, <3>1, <3>2, <3>3 DEF Ask, CalendarInv
  <2>2. CASE UNCHANGED calendarVars
    BY <2>2 DEF calendarVars, CalendarInv
  <2> QED
    BY <2>1, <2>2
<1>3. CalendarInv => NextIsEarliest
  BY EarliestNext, CalendarAssumption
<1> QED
  BY <1>1, <1>2, <1>3, PTL DEF CalendarSpec

----------------------------------------------------------------------------
(***************************************************************************)
(* Recursive functions on sequences                                        *)
(***************************************************************************)
Iterates(f, lo, hi, base, g) ==
    f = [n \in lo..hi |-> IF n = lo THEN base ELSE g[<<n, f[n - 1]>>]]

LEMMA Recursion ==
    ASSUME NEW lo \in Int, NEW X, NEW base \in X, NEW g \in [Int \X X -> X], NEW m \in Nat
    PROVE  \E f \in [lo..(lo + m) -> X] : Iterates(f, lo, lo + m, base, g)
<1> DEFINE T == {k \in Nat : \E f \in [lo..(lo + k) -> X] : Iterates(f, lo, lo + k, base, g)}
<1>1. 0 \in T
  <2> DEFINE f == [n \in lo..(lo + 0) |-> base]
  <2>1. lo..(lo + 0) = {lo}
    OBVIOUS
  <2>2. f = [n \in lo..(lo + 0) |-> IF n = lo THEN base ELSE g[<<n, f[n - 1]>>]]
    BY <2>1
  <2>3. f \in [lo..(lo + 0) -> X]
    OBVIOUS
  <2> HIDE DEF f
  <2> QED
    BY <2>2, <2>3 DEF Iterates
<1>2. ASSUME NEW k \in Nat, k \in T
      PROVE  k + 1 \in T
  <2>1. PICK old \in [lo..(lo + k) -> X] : Iterates(old, lo, lo + k, base, g)
    BY <1>2
  <2>2. PICK e : e = lo + k + 1
    OBVIOUS
  <2> DEFINE f == [n \in lo..e |-> IF n = e THEN g[<<e, old[e - 1]>>] ELSE old[n]]
  <2>3. e \in Int /\ e - 1 \in lo..(lo + k) /\ e = lo + (k + 1) /\ e > lo
        /\ \A n \in lo..e : n # e => n \in lo..(lo + k) /\ n # e - 1 + 1
    BY <2>2
  <2>4. \A n \in lo..(lo + k) : old[n] = IF n = lo THEN base ELSE g[<<n, old[n - 1]>>]
    BY <2>1, Zenon DEF Iterates
  <2>5. f \in [lo..e -> X]
    <3>1. old[e - 1] \in X
      BY <2>3
    <3>2. g[<<e, old[e - 1]>>] \in X
      BY <2>3, <3>1
    <3> QED
      BY <2>3, <3>2
  <2>6. ASSUME NEW n \in lo..e
        PROVE  f[n] = IF n = lo THEN base ELSE g[<<n, f[n - 1]>>]
    <3>1. CASE n = e
      <4>1. n # lo /\ n - 1 \in lo..e /\ n - 1 # e
        BY <2>3, <3>1
      <4>2. f[n] = g[<<e, old[e - 1]>>] /\ f[n - 1] = old[n - 1]
        BY <3>1, <4>1
      <4> QED
        BY <3>1, <4>1, <4>2
    <3>2. CASE n # e
      <4>1. n \in lo..(lo + k) /\ f[n] = old[n]
        BY <2>3, <3>2
      <4>2. n # lo => f[n - 1] = old[n - 1]
        <5>1. n # lo => n - 1 \in lo..e /\ n - 1 # e
          BY <2>2, <4>1
        <5> QED
          BY <5>1
      <4> HIDE DEF f
      <4> QED
        BY <2>4, <4>1, <4>2
    <3> QED
      BY <3>1, <3>2
  <2>7. f = [n \in lo..e |-> IF n = lo THEN base ELSE g[<<n, f[n - 1]>>]]
    <3>1. f = [n \in lo..e |-> f[n]]
      OBVIOUS
    <3> HIDE DEF f
    <3> QED
      BY <2>6, <3>1
  <2> HIDE DEF f
  <2>8. Iterates(f, lo, lo + (k + 1), base, g)
    BY <2>3, <2>7 DEF Iterates
  <2> QED
    BY <2>3, <2>5, <2>8
<1> HIDE DEF T
<1>3. m \in T
  BY <1>1, <1>2, SetInduction
<1> QED
  BY <1>3 DEF T

KeptTo(seq, S, kept) ==
    kept = [n \in 0..Len(seq) |->
               IF n = 0 THEN <<>>
               ELSE IF seq[n] \in S THEN Append(kept[n - 1], seq[n]) ELSE kept[n - 1]]

LEMMA KeptExists ==
    ASSUME NEW T, NEW seq \in Seq(T), NEW S
    PROVE  \E kept \in [0..Len(seq) -> Seq(T)] : KeptTo(seq, S, kept)
<1> DEFINE g == [p \in Int \X Seq(T) |->
                   IF p[1] \in 1..Len(seq) /\ seq[p[1]] \in S THEN Append(p[2], seq[p[1]]) ELSE p[2]]
<1>1. g \in [Int \X Seq(T) -> Seq(T)]
  OBVIOUS
<1>2. \A n \in 1..Len(seq), v \in Seq(T) :
         g[<<n, v>>] = IF seq[n] \in S THEN Append(v, seq[n]) ELSE v
  OBVIOUS
<1> HIDE DEF g
<1>3. <<>> \in Seq(T) /\ 0 \in Int /\ Len(seq) \in Nat /\ 0 + Len(seq) = Len(seq)
  OBVIOUS
<1>4. PICK f \in [0..Len(seq) -> Seq(T)] : Iterates(f, 0, Len(seq), <<>>, g)
  <2>1. \E f \in [0..(0 + Len(seq)) -> Seq(T)] : Iterates(f, 0, 0 + Len(seq), <<>>, g)
    BY <1>1, <1>3, Recursion
  <2> QED
    BY <1>3, <2>1
<1>5. \A n \in 0..Len(seq) : f[n] = IF n = 0 THEN <<>> ELSE g[<<n, f[n - 1]>>]
  BY <1>4, Zenon DEF Iterates
<1>6. ASSUME NEW n \in 0..Len(seq)
      PROVE  f[n] = IF n = 0 THEN <<>>
                    ELSE IF seq[n] \in S THEN Append(f[n - 1], seq[n]) ELSE f[n - 1]
  <2>1. n # 0 => n \in 1..Len(seq) /\ n - 1 \in 0..Len(seq)
    BY <1>3
  <2>2. n # 0 => f[n - 1] \in Seq(T)
    BY <2>1
  <2> QED
    BY <1>2, <1>5, <2>1, <2>2
<1>7. KeptTo(seq, S, f)
  BY <1>6 DEF KeptTo
<1> QED
  BY <1>7

\* The places in seq of what is kept of its first n.
Places(seq, S, n, k, ix) ==
    /\ ix \in [1..Len(k) -> 1..n]
    /\ \A i \in 1..Len(k) : k[i] = seq[ix[i]] /\ k[i] \in S
    /\ \A i, j \in 1..Len(k) : i < j => ix[i] < ix[j]
    /\ \A j \in 1..n : seq[j] \in S => \E i \in 1..Len(k) : ix[i] = j

LEMMA PlacesGrow ==
    ASSUME NEW T, NEW seq \in Seq(T), NEW S, NEW n \in Nat, n + 1 <= Len(seq), NEW k \in Seq(T),
           \E ix : Places(seq, S, n, k, ix),
           NEW l, l = IF seq[n + 1] \in S THEN Append(k, seq[n + 1]) ELSE k
    PROVE  \E ix : Places(seq, S, n + 1, l, ix)
<1>1. PICK ix : Places(seq, S, n, k, ix)
  OBVIOUS
<1>2. PICK e \in Int : e = n + 1
  OBVIOUS
<1>3. ix \in [1..Len(k) -> 1..n] /\ Len(k) \in Nat /\ e \in 1..Len(seq)
  BY <1>1, <1>2 DEF Places
<1>4. CASE seq[e] \notin S
  <2>1. l = k
    BY <1>2, <1>4
  <2>2. ix \in [1..Len(k) -> 1..e]
    BY <1>2, <1>3
  <2>3. ASSUME NEW j \in 1..e, seq[j] \in S PROVE \E i \in 1..Len(k) : ix[i] = j
    <3>1. j \in 1..n
      BY <1>2, <1>4, <2>3
    <3> QED
      BY <1>1, <2>3, <3>1 DEF Places
  <2>4. Places(seq, S, e, k, ix)
    BY <1>1, <2>2, <2>3 DEF Places
  <2> QED
    BY <1>2, <2>1, <2>4
<1>5. CASE seq[e] \in S
  <2>1. PICK m \in Nat : m = Len(k)
    BY <1>3
  <2>2. l = Append(k, seq[e]) /\ Len(l) = m + 1 /\ l[m + 1] = seq[e]
        /\ \A i \in 1..m : l[i] = k[i]
    BY <1>2, <1>3, <1>5, <2>1
  <2> DEFINE iy == [i \in 1..(m + 1) |-> IF i = m + 1 THEN e ELSE ix[i]]
  <2>3. /\ iy \in [1..(m + 1) -> 1..e] /\ iy[m + 1] = e
        /\ \A i \in 1..m : iy[i] = ix[i] /\ ix[i] \in 1..n
    <3>1. ix \in [1..m -> 1..n] /\ e = n + 1 /\ m \in Nat
      BY <1>2, <1>3, <2>1
    <3>2. m + 1 \in 1..(m + 1) /\ e \in 1..e /\ \A i \in 1..m : i \in 1..(m + 1) /\ i # m + 1
      BY <3>1
    <3>3. \A i \in 1..(m + 1) : i = m + 1 \/ i \in 1..m
      BY <3>1
    <3>4. \A i \in 1..m : ix[i] \in 1..n /\ ix[i] \in 1..e
      BY <3>1
    <3>5. iy[m + 1] = e /\ \A i \in 1..m : iy[i] = ix[i]
      BY <3>2
    <3>6. \A i \in 1..(m + 1) : iy[i] \in 1..e
      BY <3>2, <3>3, <3>4
    <3> QED
      BY <3>4, <3>5, <3>6
  <2> HIDE DEF iy
  <2>4. ASSUME NEW i \in 1..(m + 1)
        PROVE  l[i] = seq[iy[i]] /\ l[i] \in S
    <3>1. CASE i = m + 1
      BY <1>5, <2>2, <2>3, <3>1
    <3>2. CASE i # m + 1
      <4>1. i \in 1..m
        BY <3>2
      <4> QED
        BY <1>1, <2>1, <2>2, <2>3, <4>1 DEF Places
    <3> QED
      BY <3>1, <3>2
  <2>5. ASSUME NEW i \in 1..(m + 1), NEW j \in 1..(m + 1), i < j
        PROVE  iy[i] < iy[j]
    <3>1. i \in 1..m
      BY <2>5
    <3>2. CASE j = m + 1
      <4>1. iy[i] = ix[i] /\ ix[i] \in 1..n
        BY <2>3, <3>1
      <4>2. iy[j] = e
        BY <2>3, <3>2
      <4> QED
        BY <1>2, <4>1, <4>2
    <3>3. CASE j # m + 1
      <4>1. j \in 1..m
        BY <3>3
      <4> QED
        BY <1>1, <2>1, <2>3, <2>5, <3>1, <4>1 DEF Places
    <3> QED
      BY <3>2, <3>3
  <2>6. ASSUME NEW j \in 1..e, seq[j] \in S
        PROVE  \E i \in 1..(m + 1) : iy[i] = j
    <3>1. CASE j = e
      <4>1. m + 1 \in 1..(m + 1)
        OBVIOUS
      <4> QED
        BY <2>3, <3>1, <4>1
    <3>2. CASE j # e
      <4>1. j \in 1..n
        BY <1>2, <3>2
      <4>2. PICK i \in 1..m : ix[i] = j
        BY <1>1, <2>1, <2>6, <4>1 DEF Places
      <4>3. i \in 1..(m + 1)
        OBVIOUS
      <4> QED
        BY <2>3, <4>2, <4>3
    <3> QED
      BY <3>1, <3>2
  <2>7. Places(seq, S, e, l, iy)
    BY <2>2, <2>3, <2>4, <2>5, <2>6 DEF Places
  <2> QED
    BY <1>2, <2>7
<1> QED
  BY <1>4, <1>5

LEMMA KeptPlaces ==
    ASSUME NEW T, NEW seq \in Seq(T), NEW S
    PROVE  Kept(seq, S) \in Seq(T) /\ \E ix : Places(seq, S, Len(seq), Kept(seq, S), ix)
<1> DEFINE kept == CHOOSE kept : KeptTo(seq, S, kept)
<1>1. Kept(seq, S) = kept[Len(seq)]
  BY DEF Kept, KeptTo
<1>2. KeptTo(seq, S, kept)
  BY KeptExists
<1> HIDE DEF kept
<1>3. \A n \in 0..Len(seq) : kept[n] = IF n = 0 THEN <<>>
                    ELSE IF seq[n] \in S THEN Append(kept[n - 1], seq[n]) ELSE kept[n - 1]
  BY <1>2, Zenon DEF KeptTo
<1>4. Len(seq) \in Nat /\ \A n \in 1..Len(seq) : seq[n] \in T
  OBVIOUS
<1> DEFINE Good(n) == kept[n] \in Seq(T) /\ \E ix : Places(seq, S, n, kept[n], ix)
           I == {n \in Nat : n <= Len(seq) => Good(n)}
<1>5. 0 \in I
  <2>1. kept[0] = <<>> /\ kept[0] \in Seq(T)
    <3>1. 0 \in 0..Len(seq)
      BY <1>4
    <3>2. kept[0] = <<>>
      BY <1>3, <3>1
    <3> QED
      BY <3>2
  <2>2. Len(<<>>) = 0 /\ 1..0 = {}
    OBVIOUS
  <2>3. PICK ix : ix = [i \in 1..0 |-> 0]
    OBVIOUS
  <2>4. ix \in [1..0 -> 1..0]
    BY <2>2, <2>3
  <2>5. Places(seq, S, 0, <<>>, ix)
    BY <2>2, <2>4 DEF Places
  <2> QED
    BY <2>1, <2>5
<1>6. ASSUME NEW n \in Nat, n \in I PROVE n + 1 \in I
  <2>1. SUFFICES ASSUME n + 1 <= Len(seq) PROVE Good(n + 1)
    OBVIOUS
  <2>2. Good(n)
    BY <1>4, <1>6, <2>1
  <2>3. n + 1 \in 0..Len(seq) /\ n + 1 # 0 /\ n + 1 - 1 = n /\ n + 1 \in 1..Len(seq)
    BY <1>4, <2>1
  <2>4. kept[n + 1] = IF seq[n + 1] \in S THEN Append(kept[n], seq[n + 1]) ELSE kept[n]
    BY <1>3, <2>3
  <2>5. PICK k, l : k = kept[n] /\ l = kept[n + 1]
    OBVIOUS
  <2>6. k \in Seq(T) /\ (\E ix : Places(seq, S, n, k, ix))
        /\ l = IF seq[n + 1] \in S THEN Append(k, seq[n + 1]) ELSE k
    BY <2>2, <2>4, <2>5
  <2>7. l \in Seq(T)
    BY <1>4, <2>3, <2>6
  <2>8. \E ix : Places(seq, S, n + 1, l, ix)
    BY <2>1, <2>6, PlacesGrow
  <2> QED
    BY <2>5, <2>7, <2>8
<1> HIDE DEF I
<1>7. Len(seq) \in I
  BY <1>4, <1>5, <1>6, SetInduction
<1>8. Good(Len(seq))
  BY <1>4, <1>7 DEF I
<1> QED
  BY <1>1, <1>8

\* What dropping entries leaves as it was.
LEMMA KeptFacts ==
    ASSUME NEW T, NEW seq \in Seq(T), NEW S, NEW k, k = Kept(seq, S)
    PROVE  /\ k \in Seq(T)
           /\ \A i \in DOMAIN k : k[i] \in S /\ \E j \in DOMAIN seq : k[i] = seq[j]
           /\ \A j \in DOMAIN seq : seq[j] \in S => \E i \in DOMAIN k : k[i] = seq[j]
           /\ OneEach(seq) => OneEach(k)
           /\ InOrder(seq) => InOrder(k)
           /\ \A r : RegsApart(seq, r) => RegsApart(k, r)
<1>1. k \in Seq(T)
  BY KeptPlaces
<1>2. PICK ix : Places(seq, S, Len(seq), k, ix)
  BY KeptPlaces
<1>3. DOMAIN k = 1..Len(k) /\ DOMAIN seq = 1..Len(seq) /\ Len(k) \in Nat
  BY <1>1
<1>4. /\ \A i \in DOMAIN k : ix[i] \in DOMAIN seq /\ k[i] = seq[ix[i]] /\ k[i] \in S
      /\ \A j \in DOMAIN seq : seq[j] \in S => \E i \in DOMAIN k : ix[i] = j
      /\ \A i, j \in DOMAIN k : i < j => ix[i] < ix[j]
  BY <1>2, <1>3 DEF Places
<1>5. \A i, j \in DOMAIN k : ix[i] = ix[j] => i = j
  <2>1. \A i \in DOMAIN k : i \in Int /\ ix[i] \in Int
    BY <1>3, <1>4
  <2>2. \A i, j \in Int : i < j \/ j < i \/ i = j
    OBVIOUS
  <2>3. \A i \in Int : ~(i < i)
    OBVIOUS
  <2> QED
    BY <1>4, <2>1, <2>2, <2>3
<1>6. OneEach(seq) => OneEach(k)
  BY <1>4, <1>5 DEF OneEach
<1>7. InOrder(seq) => InOrder(k)
  BY <1>4 DEF InOrder
<1>8. \A r : RegsApart(seq, r) => RegsApart(k, r)
  BY <1>4, <1>5 DEF RegsApart
<1>9. \A i \in DOMAIN k : k[i] \in S /\ \E j \in DOMAIN seq : k[i] = seq[j]
  BY <1>4
<1>10. \A j \in DOMAIN seq : seq[j] \in S => \E i \in DOMAIN k : k[i] = seq[j]
  BY <1>4
<1> QED
  BY <1>1, <1>6, <1>7, <1>8, <1>9, <1>10

\* A registration in the place of the one with its id.
LEMMA ReplacingFacts ==
    ASSUME NEW T, NEW seq \in Seq(T), NEW x \in T, NEW l, l = Replacing(seq, x)
    PROVE  /\ l \in Seq(T)
           /\ \A i \in DOMAIN l : l[i] = x \/ \E j \in DOMAIN seq : l[i] = seq[j]
           /\ OneEach(seq) => OneEach(l)
           /\ \A r : /\ RegsApart(seq, r) /\ x.reg <= r
                     /\ \A j \in DOMAIN seq : seq[j].reg # x.reg
                     => RegsApart(l, r)
<1> DEFINE S == {y \in ToSet(seq) : y.id # x.id}
<1>1. PICK k : k = Kept(seq, S)
  OBVIOUS
<1>2. l = Append(k, x)
  BY <1>1 DEF Replacing
<1>3. /\ k \in Seq(T)
      /\ \A i \in DOMAIN k : k[i] \in S /\ \E j \in DOMAIN seq : k[i] = seq[j]
      /\ OneEach(seq) => OneEach(k)
      /\ \A r : RegsApart(seq, r) => RegsApart(k, r)
  <2> HIDE DEF S
  <2> QED
    BY <1>1, KeptFacts
<1>4. \A i \in DOMAIN k : k[i].id # x.id
  BY <1>3
<1> HIDE DEF S
<1>5. PICK m \in Nat : m = Len(k) /\ DOMAIN k = 1..m
  BY <1>3
<1>6. /\ l \in Seq(T) /\ DOMAIN l = 1..(m + 1) /\ l[m + 1] = x
      /\ \A i \in 1..m : l[i] = k[i]
  BY <1>2, <1>3, <1>5
<1>7. \A i \in DOMAIN l : i = m + 1 \/ i \in DOMAIN k
  BY <1>5, <1>6
<1>8. \A i \in DOMAIN l : l[i] = x \/ \E j \in DOMAIN seq : l[i] = seq[j]
  BY <1>3, <1>5, <1>6, <1>7
<1>9. OneEach(seq) => OneEach(l)
  BY <1>3, <1>4, <1>5, <1>6, <1>7 DEF OneEach
<1>10. ASSUME NEW r, RegsApart(seq, r), x.reg <= r, \A j \in DOMAIN seq : seq[j].reg # x.reg
       PROVE  RegsApart(l, r)
  <2>1. RegsApart(k, r) /\ \A i \in DOMAIN k : k[i].reg # x.reg
    BY <1>3, <1>10
  <2> QED
    BY <1>5, <1>6, <1>7, <1>10, <2>1 DEF RegsApart
<1> QED
  BY <1>6, <1>8, <1>9, <1>10
----------------------------------------------------------------------------
(***************************************************************************)
(* Sorting                                                                 *)
(***************************************************************************)
LEMMA SortedFacts ==
    ASSUME NEW T, NEW seq \in Seq(T), NEW l \in Sorted(seq)
    PROVE  /\ l \in Seq(T) /\ InOrder(l)
           /\ \A i \in DOMAIN l : \E j \in DOMAIN seq : l[i] = seq[j]
           /\ OneEach(seq) => OneEach(l)
           /\ \A r : RegsApart(seq, r) => RegsApart(l, r)
<1>1. DOMAIN seq = 1..Len(seq) /\ Len(seq) \in Nat
  OBVIOUS
<1>2. PICK p \in Bijection(DOMAIN seq, DOMAIN seq) :
          /\ l = [i \in DOMAIN seq |-> seq[p[i]]]
          /\ \A i, j \in DOMAIN seq : i < j => l[i].due <= l[j].due
  BY DEF Sorted
<1>3. p \in [DOMAIN seq -> DOMAIN seq] /\ \A i, j \in DOMAIN seq : p[i] = p[j] => i = j
  BY <1>2 DEF Bijection, Injection, IsInjective
<1>4. DOMAIN l = DOMAIN seq /\ \A i \in DOMAIN l : p[i] \in DOMAIN seq /\ l[i] = seq[p[i]]
  BY <1>2, <1>3
<1>5. l \in Seq(T)
  <2>1. l \in [1..Len(seq) -> T]
    BY <1>1, <1>2, <1>3
  <2> QED
    BY <1>1, <2>1
<1>6. InOrder(l)
  BY <1>2, <1>4 DEF InOrder
<1>7. OneEach(seq) => OneEach(l)
  BY <1>3, <1>4 DEF OneEach
<1>8. \A r : RegsApart(seq, r) => RegsApart(l, r)
  BY <1>3, <1>4 DEF RegsApart
<1> QED
  BY <1>4, <1>5, <1>6, <1>7, <1>8
----------------------------------------------------------------------------
(***************************************************************************)
(* The next instants of a job                                              *)
(***************************************************************************)
LEMMA NextOfFacts ==
    ASSUME SchedulerAssumption, NEW s \in Readable, NEW t \in 0..MaxTime
    PROVE  /\ NextOf[s][t] = NextAfter(Parse(TextOf[s]), t, OffsetOf[s])
           /\ NextOf[s][t] # Never => NextOf[s][t] \in Nat /\ NextOf[s][t] > t
<1>1. s \in Schedules /\ Parses(TextOf[s]) /\ Written(TextOf[s]) /\ OffsetOf[s] \in Int
      /\ SearchDays \in Nat /\ MaxTime \in Nat
  BY DEF Readable, SchedulerAssumption
<1>2. NextOf[s][t] = NextAfter(Parse(TextOf[s]), t, OffsetOf[s])
  <2>1. NextOf[s] = [u \in 0..MaxTime |-> NextAfter(Parse(TextOf[s]), u, OffsetOf[s])]
    BY <1>1 DEF NextOf
  <2> QED
    BY <2>1
<1>3. t \in Int /\ t >= 0
  BY <1>1
<1>4. NextOf[s][t] # Never => NextOf[s][t] \in Int /\ NextOf[s][t] > t
  BY <1>1, <1>2, <1>3, NextIsLater
<1> QED
  BY <1>2, <1>3, <1>4

LEMMA RescheduledFacts ==
    ASSUME SchedulerAssumption, NEW job \in Jobs, NEW from \in 0..MaxTime,
           NEW r, r = Rescheduled(job, from)
    PROVE  /\ r \in Jobs /\ r.id = job.id /\ r.reg = job.reg /\ Timely(r)
           /\ r.enabled => job.enabled /\ r.next > from
<1>1. job.schedule \in Readable
  BY DEF Jobs
<1>2. PICK next : next = NextOf[job.schedule][from]
  OBVIOUS
<1>3. next # Never => next \in Nat /\ next > from
  BY <1>1, <1>2, NextOfFacts
<1>4. from \in Nat
  BY DEF SchedulerAssumption
<1>5. CASE next = Never
  <2>1. r = [job EXCEPT !.enabled = FALSE, !.next = 0]
    BY <1>2, <1>5 DEF Rescheduled
  <2>2. /\ job.id \in JobIds /\ job.schedule \in Readable /\ job.limit \in CatchUps /\ job.reg \in Nat
        /\ r = [id |-> job.id, schedule |-> job.schedule, enabled |-> FALSE, limit |-> job.limit,
                next |-> 0, reg |-> job.reg]
    BY <2>1 DEF Jobs
  <2>3. r \in Jobs
    BY <2>2 DEF Jobs
  <2>4. r.id = job.id /\ r.reg = job.reg /\ r.enabled = FALSE
    BY <2>2
  <2> QED
    BY <2>3, <2>4 DEF Timely
<1>6. CASE next # Never
  <2>1. r = [job EXCEPT !.next = next]
    BY <1>2, <1>6 DEF Rescheduled
  <2>2. r \in Jobs /\ r.id = job.id /\ r.reg = job.reg /\ r.enabled = job.enabled /\ r.next = next
    BY <1>3, <1>6, <2>1 DEF Jobs
  <2> QED
    BY <1>3, <1>4, <1>6, <2>2 DEF Timely
<1> QED
  BY <1>5, <1>6

----------------------------------------------------------------------------
(***************************************************************************)
(* The instants a due job fires for                                        *)
(***************************************************************************)
Due(job, now) == job \in Jobs /\ now \in 0..MaxTime /\ IsDue(job, now)

\* Nothing more is due after t.
Over(job, now, t) == NextOf[job.schedule][t] = Never \/ NextOf[job.schedule][t] > now

Step(job, now, n, due) ==
    LET next == NextOf[job.schedule][due[Len(due)]]
    IN  IF n = Limit(job) \/ Len(due) < n \/ next = Never THEN due
        ELSE IF next > now THEN due
        ELSE Append(due, next)

MissedTo(job, now, due) ==
    due = [n \in 0..Limit(job) |-> IF n = 0 THEN <<job.next>> ELSE Step(job, now, n, due[n - 1])]

Runs(now) == {d \in Seq(0..now) : Len(d) > 0}

LEMMA StepFacts ==
    ASSUME SchedulerAssumption, NEW job, NEW now, Due(job, now), NEW n \in Int, NEW d \in Runs(now),
           NEW e, e = Step(job, now, n, d)
    PROVE  /\ e \in Runs(now)
           /\ \/ e = d /\ (n = Limit(job) \/ Len(d) < n \/ Over(job, now, d[Len(d)]))
              \/ /\ n # Limit(job) /\ ~(Len(d) < n)
                 /\ Len(e) = Len(d) + 1 /\ \A i \in 1..Len(d) : e[i] = d[i]
                 /\ e[Len(d) + 1] = NextOf[job.schedule][d[Len(d)]]
                 /\ e[Len(d) + 1] \in Nat /\ e[Len(d) + 1] > d[Len(d)]
<1>1. PICK m \in Nat : m = Len(d) /\ m > 0 /\ m \in 1..m /\ d \in Seq(0..now)
  <2>1. d \in Seq(0..now) /\ Len(d) > 0 /\ Len(d) \in Nat
    BY DEF Runs
  <2> QED
    BY <2>1
<1>2. PICK last : last = d[m]
  OBVIOUS
<1>3. now \in Nat /\ now <= MaxTime /\ MaxTime \in Nat /\ job.schedule \in Readable
  BY DEF Due, SchedulerAssumption, Jobs
<1>4. last \in 0..now /\ last \in 0..MaxTime
  <2>1. last \in 0..now
    <3>1. m \in 1..Len(d)
      BY <1>1
    <3> QED
      BY <1>1, <1>2, <3>1, ElementOfSeq
  <2> QED
    BY <1>3, <2>1
<1>5. PICK next : next = NextOf[job.schedule][last]
  OBVIOUS
<1>6. next # Never => next \in Nat /\ next > last
  BY <1>3, <1>4, <1>5, NextOfFacts
<1>7. e = IF n = Limit(job) \/ m < n \/ next = Never THEN d
          ELSE IF next > now THEN d ELSE Append(d, next)
  BY <1>1, <1>2, <1>5 DEF Step
<1>8. CASE n = Limit(job) \/ m < n \/ next = Never \/ next > now
  BY <1>1, <1>2, <1>5, <1>7, <1>8 DEF Over
<1>9. CASE ~(n = Limit(job) \/ m < n \/ next = Never \/ next > now)
  <2>1. e = Append(d, next) /\ next \in 0..now
    BY <1>3, <1>6, <1>7, <1>9
  <2>2. /\ e \in Seq(0..now) /\ Len(e) = m + 1 /\ e[m + 1] = next
        /\ \A i \in 1..m : e[i] = d[i]
    BY <1>1, <2>1
  <2>3. e \in Runs(now)
    BY <2>2 DEF Runs
  <2> QED
    BY <1>1, <1>2, <1>5, <1>6, <1>9, <2>2, <2>3
<1> QED
  BY <1>8, <1>9

LEMMA LimitIsPositive ==
    ASSUME SchedulerAssumption, NEW job \in Jobs
    PROVE  Limit(job) \in Nat /\ Limit(job) > 0
<1>1. job.limit \in Nat
  BY DEF Jobs, SchedulerAssumption
<1> QED
  BY <1>1 DEF Limit

LEMMA FirstRun ==
    ASSUME SchedulerAssumption, NEW job, NEW now, Due(job, now)
    PROVE  /\ <<job.next>> \in Runs(now) /\ Limit(job) \in Nat /\ Limit(job) > 0
           /\ now \in Nat /\ job \in Jobs
<1>1. job \in Jobs /\ now \in Nat /\ job.next \in 0..now
  BY DEF Due, IsDue, Jobs, SchedulerAssumption
<1>2. <<job.next>> \in Seq(0..now) /\ Len(<<job.next>>) = 1
  BY <1>1
<1> QED
  BY <1>1, <1>2, LimitIsPositive DEF Runs

LEMMA MissedExists ==
    ASSUME SchedulerAssumption, NEW job, NEW now, Due(job, now)
    PROVE  \E due : MissedTo(job, now, due)
<1> DEFINE X == Runs(now)
           g == [p \in Int \X X |-> Step(job, now, p[1], p[2])]
           lim == Limit(job)
<1>1. <<job.next>> \in X /\ lim \in Nat
  BY FirstRun
<1>2. \A n \in Int, d \in X : g[<<n, d>>] = Step(job, now, n, d)
  OBVIOUS
<1>3. g \in [Int \X X -> X]
  <2>1. \A n \in Int, d \in X : Step(job, now, n, d) \in X
    BY StepFacts
  <2>2. \A p \in Int \X X : p[1] \in Int /\ p[2] \in X
    OBVIOUS
  <2>3. \A p \in Int \X X : Step(job, now, p[1], p[2]) \in X
    BY <2>1, <2>2
  <2> HIDE DEF X
  <2> QED
    BY <2>3
<1> HIDE DEF g, X, lim
<1>4. 0 \in Int /\ 0 + lim = lim
  BY <1>1
<1>5. PICK f \in [0..lim -> X] : Iterates(f, 0, lim, <<job.next>>, g)
  <2>1. \E f \in [0..(0 + lim) -> X] : Iterates(f, 0, 0 + lim, <<job.next>>, g)
    BY <1>1, <1>3, <1>4, Recursion
  <2> QED
    BY <1>4, <2>1
<1>6. \A n \in 0..lim : f[n] = IF n = 0 THEN <<job.next>> ELSE g[<<n, f[n - 1]>>]
  BY <1>5, Zenon DEF Iterates
<1>7. ASSUME NEW n \in 0..lim
      PROVE  f[n] = IF n = 0 THEN <<job.next>> ELSE Step(job, now, n, f[n - 1])
  <2>1. n # 0 => f[n - 1] \in X /\ n \in Int
    BY <1>1
  <2> QED
    BY <1>2, <1>6, <2>1
<1>8. MissedTo(job, now, f)
  BY <1>7 DEF MissedTo, lim
<1> QED
  BY <1>8

\* The instants found in the first n steps.
RunTo(job, now, n, d) ==
    /\ d \in Runs(now) /\ d[1] = job.next
    /\ \A i, j \in 1..Len(d) : j = i + 1 => d[j] = NextOf[job.schedule][d[i]]
    /\ \A i, j \in 1..Len(d) : i < j => d[i] < d[j]
    /\ Len(d) <= n + 1 /\ Len(d) <= Limit(job)
    /\ Len(d) = n + 1 \/ Len(d) = Limit(job) \/ Over(job, now, d[Len(d)])

LEMMA RunGrows ==
    ASSUME SchedulerAssumption, NEW job, NEW now, Due(job, now), NEW n \in Nat, n + 1 <= Limit(job),
           NEW d, RunTo(job, now, n, d), NEW e, e = Step(job, now, n + 1, d)
    PROVE  RunTo(job, now, n + 1, e)
<1>1. PICK m \in Nat : m = Len(d) /\ m > 0 /\ d \in Seq(0..now)
  <2>1. d \in Seq(0..now) /\ Len(d) > 0 /\ Len(d) \in Nat
    BY DEF Runs, RunTo
  <2> QED
    BY <2>1
<1>2. PICK lim \in Nat : lim = Limit(job)
  BY FirstRun
<1>3. d \in Runs(now) /\ m <= n + 1 /\ m <= lim
  BY <1>1, <1>2 DEF RunTo
<1>4. e \in Runs(now)
  BY <1>3, StepFacts
<1>5. CASE e = d /\ (n + 1 = lim \/ m < n + 1 \/ Over(job, now, d[m]))
  <2>1. m = n + 1 + 1 \/ m = lim \/ Over(job, now, d[m])
    BY <1>1, <1>2, <1>3, <1>5 DEF RunTo
  <2>2. m <= n + 1 + 1
    BY <1>3
  <2> QED
    BY <1>1, <1>2, <1>3, <1>5, <2>1, <2>2 DEF RunTo
<1>6. CASE /\ n + 1 # lim /\ ~(m < n + 1)
           /\ Len(e) = m + 1 /\ \A i \in 1..m : e[i] = d[i]
           /\ e[m + 1] = NextOf[job.schedule][d[m]]
           /\ e[m + 1] \in Nat /\ e[m + 1] > d[m]
  <2>1. m = n + 1 /\ m + 1 <= lim /\ m + 1 <= n + 1 + 1
    BY <1>2, <1>3, <1>6
  <2>2. 1 \in 1..m /\ m \in 1..m /\ e[1] = job.next
    <3>1. 1 \in 1..m /\ m \in 1..m
      BY <1>1
    <3>2. d[1] = job.next
      BY DEF RunTo
    <3> QED
      BY <1>6, <3>1, <3>2
  <2>3. ASSUME NEW i \in 1..(m + 1), NEW j \in 1..(m + 1), j = i + 1
        PROVE  e[j] = NextOf[job.schedule][e[i]]
    <3>1. i \in 1..m
      BY <2>3
    <3>2. CASE j = m + 1
      <4>1. i = m
        BY <2>3, <3>2
      <4> QED
        BY <1>6, <2>2, <3>2, <4>1
    <3>3. CASE j # m + 1
      <4>1. j \in 1..m
        BY <3>3
      <4> QED
        BY <1>1, <1>6, <2>3, <3>1, <4>1 DEF RunTo
    <3> QED
      BY <3>2, <3>3
  <2>4. ASSUME NEW i \in 1..m PROVE d[i] \in Nat
    <3>1. i \in 1..Len(d)
      BY <1>1
    <3>2. d[i] \in 0..now
      BY <1>1, <3>1, ElementOfSeq
    <3>3. now \in Nat
      BY FirstRun
    <3> QED
      BY <3>2, <3>3
  <2>5. ASSUME NEW i \in 1..(m + 1), NEW j \in 1..(m + 1), i < j
        PROVE  e[i] < e[j]
    <3>1. i \in 1..m /\ d[i] \in Nat /\ e[i] = d[i]
      BY <1>6, <2>4, <2>5
    <3>2. CASE j = m + 1
      <4>1. i = m \/ i < m
        BY <3>1
      <4>2. d[m] \in Nat /\ (i < m => d[i] < d[m])
        BY <1>1, <2>2, <2>4, <3>1 DEF RunTo
      <4> QED
        BY <1>6, <3>1, <3>2, <4>1, <4>2
    <3>3. CASE j # m + 1
      <4>1. j \in 1..m
        BY <3>3
      <4> QED
        BY <1>1, <1>6, <2>5, <3>1, <4>1 DEF RunTo
    <3> QED
      BY <3>2, <3>3
  <2>6. Len(e) = n + 1 + 1 /\ Len(e) <= Limit(job) /\ Len(e) = m + 1
    BY <1>2, <1>6, <2>1
  <2>7. Len(e) <= n + 1 + 1
    BY <2>6
  <2> QED
    BY <1>4, <2>2, <2>3, <2>5, <2>6, <2>7 DEF RunTo
<1>7. n + 1 \in Int
  OBVIOUS
<1> QED
  BY <1>1, <1>2, <1>3, <1>5, <1>6, <1>7, StepFacts

\* The instants of a tick: from the first on, each the next of the one before,
\* until the limit or the tick's.
LEMMA MissedFacts ==
    ASSUME SchedulerAssumption, NEW job, NEW now, Due(job, now), NEW d, d = Missed(job, now)
    PROVE  RunTo(job, now, Limit(job), d)
<1> DEFINE due == CHOOSE due : MissedTo(job, now, due)
<1>1. Missed(job, now) = due[Limit(job)]
  BY DEF Missed, MissedTo, Step
<1>2. MissedTo(job, now, due)
  BY MissedExists
<1> HIDE DEF due
<1>3. \A n \in 0..Limit(job) : due[n] = IF n = 0 THEN <<job.next>> ELSE Step(job, now, n, due[n - 1])
  BY <1>2, Zenon DEF MissedTo
<1>4. /\ <<job.next>> \in Runs(now) /\ Limit(job) \in Nat /\ Limit(job) > 0
  BY FirstRun
<1> DEFINE I == {n \in Nat : n <= Limit(job) => RunTo(job, now, n, due[n])}
<1>5. 0 \in I
  <2>1. 0 \in 0..Limit(job)
    BY <1>4
  <2>2. due[0] = <<job.next>>
    BY <1>3, <2>1
  <2>3. Len(<<job.next>>) = 1 /\ <<job.next>>[1] = job.next /\ 1 <= Limit(job) /\ 1 <= 0 + 1 /\ 1 = 0 + 1
    BY <1>4
  <2>4. \A i, j \in 1..1 : i = 1 /\ j = 1 /\ ~(i < j) /\ ~(j = i + 1)
    OBVIOUS
  <2>5. RunTo(job, now, 0, <<job.next>>)
    BY <1>4, <2>3, <2>4 DEF RunTo
  <2> QED
    BY <2>2, <2>5
<1>6. ASSUME NEW n \in Nat, n \in I PROVE n + 1 \in I
  <2>1. SUFFICES ASSUME n + 1 <= Limit(job) PROVE RunTo(job, now, n + 1, due[n + 1])
    OBVIOUS
  <2>2. RunTo(job, now, n, due[n])
    BY <1>4, <1>6, <2>1
  <2>3. n + 1 \in 0..Limit(job) /\ n + 1 # 0 /\ n + 1 - 1 = n
    BY <1>4, <2>1
  <2>4. due[n + 1] = Step(job, now, n + 1, due[n])
    BY <1>3, <2>3
  <2> QED
    BY <2>1, <2>2, <2>4, RunGrows
<1> HIDE DEF I
<1>7. Limit(job) \in I
  BY <1>4, <1>5, <1>6, SetInduction
<1> QED
  BY <1>1, <1>4, <1>7 DEF I

----------------------------------------------------------------------------
(***************************************************************************)
(* A sequence of sequences, one after the other                            *)
(***************************************************************************)
FlatTo(ss, f) == f = [i \in 1..Len(ss) |-> IF i = 1 THEN ss[i] ELSE f[i - 1] \o ss[i]]

LEMMA FlatExists ==
    ASSUME NEW T, NEW ss \in Seq(Seq(T)), Len(ss) # 0
    PROVE  \E f : FlatTo(ss, f)
<1> DEFINE X == Seq(T)
           n == Len(ss)
           g == [p \in Int \X X |-> IF p[1] \in 1..n THEN p[2] \o ss[p[1]] ELSE p[2]]
<1>1. n \in Nat /\ n > 0 /\ \A i \in 1..n : ss[i] \in X
  OBVIOUS
<1>2. g \in [Int \X X -> X]
  <2>1. \A p \in Int \X X : p[2] \in X
    OBVIOUS
  <2>2. \A a, b \in X : a \o b \in X
    OBVIOUS
  <2> HIDE DEF X, n
  <2>3. \A p \in Int \X X : (IF p[1] \in 1..n THEN p[2] \o ss[p[1]] ELSE p[2]) \in X
    BY <1>1, <2>1, <2>2
  <2> QED
    BY <2>3
<1>3. \A i \in 1..n, v \in X : g[<<i, v>>] = v \o ss[i]
  <2>1. \A i \in 1..n, v \in X : <<i, v>> \in Int \X X
    OBVIOUS
  <2>2. \A q \in Int \X X : g[q] = IF q[1] \in 1..n THEN q[2] \o ss[q[1]] ELSE q[2]
    OBVIOUS
  <2> HIDE DEF g, X, n
  <2>3. \A i \in 1..n, v \in X : g[<<i, v>>] = IF i \in 1..n THEN v \o ss[i] ELSE v
    BY <2>1, <2>2
  <2> QED
    BY <2>3
<1> HIDE DEF g, X, n
<1>4. PICK m \in Nat : 1 + m = n
  <2>1. n - 1 \in Nat /\ 1 + (n - 1) = n
    BY <1>1
  <2> QED
    BY <2>1
<1>5. PICK f \in [1..n -> X] : Iterates(f, 1, n, ss[1], g)
  <2>1. ss[1] \in X /\ 1 \in Int
    BY <1>1
  <2>2. \E f \in [1..(1 + m) -> X] : Iterates(f, 1, 1 + m, ss[1], g)
    BY <1>2, <2>1, Recursion
  <2> QED
    BY <1>4, <2>2
<1>6. \A i \in 1..n : f[i] = IF i = 1 THEN ss[1] ELSE g[<<i, f[i - 1]>>]
  BY <1>5, Zenon DEF Iterates
<1>7. ASSUME NEW i \in 1..n
      PROVE  f[i] = IF i = 1 THEN ss[i] ELSE f[i - 1] \o ss[i]
  <2>1. i # 1 => i - 1 \in 1..n
    BY <1>1
  <2>2. i # 1 => f[i - 1] \in X
    BY <2>1
  <2> QED
    BY <1>3, <1>6, <2>2
<1>8. FlatTo(ss, f)
  BY <1>7 DEF FlatTo, n
<1> QED
  BY <1>8

\* Where the elements of the first n sequences are in flat: each once.
Spread(ss, n, flat, p) ==
    /\ \A m \in 1..Len(flat) : /\ p[m][1] \in 1..n /\ p[m][2] \in 1..Len(ss[p[m][1]])
                               /\ flat[m] = ss[p[m][1]][p[m][2]]
    /\ \A l, m \in 1..Len(flat) : p[l][1] = p[m][1] /\ p[l][2] = p[m][2] => l = m
    /\ \A i \in 1..n : \A j \in 1..Len(ss[i]) : \E m \in 1..Len(flat) : p[m] = <<i, j>>

LEMMA SpreadGrows ==
    ASSUME NEW T, NEW ss \in Seq(Seq(T)), NEW n \in Nat, n + 1 <= Len(ss),
           NEW flat \in Seq(T), \E p : Spread(ss, n, flat, p), NEW more, more = flat \o ss[n + 1]
    PROVE  \E p : Spread(ss, n + 1, more, p)
<1>1. PICK p : Spread(ss, n, flat, p)
  OBVIOUS
<1>2. PICK e \in Int : e = n + 1
  OBVIOUS
<1>3. PICK s : s = ss[e]
  OBVIOUS
<1>4. PICK a \in Nat, b \in Nat : a = Len(flat) /\ b = Len(s) /\ s \in Seq(T)
  <2>1. e \in 1..Len(ss)
    BY <1>2
  <2>2. s \in Seq(T)
    BY <1>3, <2>1, ElementOfSeq
  <2> QED
    BY <2>2
<1>5. /\ Len(more) = a + b
      /\ \A i \in 1..(a + b) : more[i] = IF i <= a THEN flat[i] ELSE s[i - a]
  BY <1>2, <1>3, <1>4, ConcatProperties
<1> DEFINE D == 1..(a + b)
<1>a. \A m \in D : /\ m \in Int
                   /\ m <= a => m \in 1..a /\ more[m] = flat[m]
                   /\ ~(m <= a) => m - a \in 1..b /\ more[m] = s[m - a]
  BY <1>4, <1>5
<1>b. (\A m \in 1..a : m \in D /\ m <= a)
      /\ \A j \in 1..b : \E m \in D : ~(m <= a) /\ m - a = j
  <2>1. \A m \in 1..a : m \in D /\ m <= a
    BY <1>4
  <2>2. ASSUME NEW j \in 1..b PROVE \E m \in D : ~(m <= a) /\ m - a = j
    <3>1. a + j \in D /\ ~(a + j <= a) /\ (a + j) - a = j
      BY <1>4
    <3> QED
      BY <3>1
  <2> QED
    BY <2>1, <2>2
<1> DEFINE q == [m \in D |-> IF m <= a THEN p[m] ELSE <<e, m - a>>]
<1>6. \A m \in D : /\ m <= a => q[m] = p[m]
                   /\ ~(m <= a) => q[m][1] = e /\ q[m][2] = m - a /\ q[m] = <<e, m - a>>
  OBVIOUS
<1>7. \A m \in 1..a : p[m][1] \in 1..n /\ p[m][1] # e
  BY <1>1, <1>2, <1>4 DEF Spread
<1> HIDE DEF q, D
<1>8. ASSUME NEW m \in D
      PROVE  /\ q[m][1] \in 1..e /\ q[m][2] \in 1..Len(ss[q[m][1]])
             /\ more[m] = ss[q[m][1]][q[m][2]]
  <2>1. CASE m <= a
    <3>1. m \in 1..a /\ q[m] = p[m] /\ more[m] = flat[m]
      BY <1>a, <1>6, <2>1
    <3>2. p[m][1] \in 1..n /\ p[m][2] \in 1..Len(ss[p[m][1]]) /\ flat[m] = ss[p[m][1]][p[m][2]]
      BY <1>1, <1>4, <3>1 DEF Spread
    <3>3. p[m][1] \in 1..e
      BY <1>2, <3>2
    <3> QED
      BY <3>1, <3>2, <3>3
  <2>2. CASE ~(m <= a)
    <3>1. q[m][1] = e /\ q[m][2] = m - a /\ m - a \in 1..b /\ more[m] = s[m - a]
      BY <1>a, <1>6, <2>2
    <3>2. e \in 1..e
      BY <1>2
    <3> QED
      BY <1>3, <1>4, <3>1, <3>2
  <2> QED
    BY <2>1, <2>2
<1>9. ASSUME NEW l \in D, NEW m \in D, q[l][1] = q[m][1], q[l][2] = q[m][2]
      PROVE  l = m
  <2>1. CASE l <= a /\ m <= a
    <3>1. l \in 1..a /\ m \in 1..a /\ p[l][1] = p[m][1] /\ p[l][2] = p[m][2]
      BY <1>a, <1>6, <1>9, <2>1
    <3> QED
      BY <1>1, <1>4, <3>1 DEF Spread
  <2>2. CASE ~(l <= a) /\ ~(m <= a)
    <3>1. l - a = m - a /\ l \in Int /\ m \in Int
      BY <1>a, <1>6, <1>9, <2>2
    <3> QED
      BY <1>4, <3>1
  <2>3. CASE l <= a /\ ~(m <= a)
    BY <1>a, <1>6, <1>7, <1>9, <2>3
  <2>4. CASE ~(l <= a) /\ m <= a
    BY <1>a, <1>6, <1>7, <1>9, <2>4
  <2> QED
    BY <2>1, <2>2, <2>3, <2>4
<1>10. ASSUME NEW i \in 1..e, NEW j \in 1..Len(ss[i])
       PROVE  \E m \in D : q[m] = <<i, j>>
  <2>1. CASE i = e
    <3>1. j \in 1..b
      BY <1>3, <1>4, <1>10, <2>1
    <3>2. PICK m \in D : ~(m <= a) /\ m - a = j
      BY <1>b, <3>1
    <3> QED
      BY <1>6, <2>1, <3>2
  <2>2. CASE i # e
    <3>1. i \in 1..n
      BY <1>2, <2>2
    <3>2. PICK m \in 1..a : p[m] = <<i, j>>
      BY <1>1, <1>4, <3>1 DEF Spread
    <3>3. m \in D /\ m <= a
      BY <1>b
    <3> QED
      BY <1>6, <3>2, <3>3
  <2> QED
    BY <2>1, <2>2
<1>11. Spread(ss, e, more, q)
  <2>1. 1..Len(more) = D
    BY <1>5 DEF D
  <2> QED
    BY <1>8, <1>9, <1>10, <2>1 DEF Spread
<1> QED
  BY <1>2, <1>11

LEMMA FlattenFacts ==
    ASSUME NEW T, NEW ss \in Seq(Seq(T)), NEW flat, flat = FlattenSeq(ss)
    PROVE  flat \in Seq(T) /\ \E p : Spread(ss, Len(ss), flat, p)
<1>1. CASE Len(ss) = 0
  <2>1. flat = <<>> /\ Len(flat) = 0 /\ flat \in Seq(T)
    BY <1>1 DEF FlattenSeq
  <2>2. 1..0 = {}
    OBVIOUS
  <2>3. Spread(ss, Len(ss), flat, <<>>)
    BY <1>1, <2>1, <2>2 DEF Spread
  <2> QED
    BY <2>1, <2>3
<1>2. CASE Len(ss) # 0
  <2> DEFINE f == CHOOSE f : FlatTo(ss, f)
  <2>1. flat = f[Len(ss)]
    BY <1>2 DEF FlattenSeq, FlatTo
  <2>2. FlatTo(ss, f)
    BY <1>2, FlatExists
  <2> HIDE DEF f
  <2>3. \A i \in 1..Len(ss) : f[i] = IF i = 1 THEN ss[i] ELSE f[i - 1] \o ss[i]
    BY <2>2, Zenon DEF FlatTo
  <2>4. Len(ss) \in Nat /\ Len(ss) >= 1 /\ \A i \in 1..Len(ss) : ss[i] \in Seq(T)
    BY <1>2
  <2> DEFINE Good(n) == f[n] \in Seq(T) /\ \E p : Spread(ss, n, f[n], p)
             I == {n \in Nat : n > 0 /\ n <= Len(ss) => Good(n)}
  <2>5. 0 \in I
    OBVIOUS
  <2>6. ASSUME NEW n \in Nat, n \in I PROVE n + 1 \in I
    <3>1. SUFFICES ASSUME n + 1 <= Len(ss) PROVE Good(n + 1)
      OBVIOUS
    <3>2. PICK d : d = IF n = 0 THEN <<>> ELSE f[n]
      OBVIOUS
    <3>3. d \in Seq(T) /\ \E p : Spread(ss, n, d, p)
      <4>1. CASE n = 0
        <5>1. 1..0 = {} /\ d = <<>> /\ Len(<<>>) = 0 /\ d \in Seq(T)
          BY <3>2, <4>1
        <5>2. Spread(ss, n, d, <<>>)
          BY <4>1, <5>1 DEF Spread
        <5> QED
          BY <5>1, <5>2
      <4>2. CASE n # 0
        <5>1. n > 0 /\ n <= Len(ss)
          BY <2>4, <3>1, <4>2
        <5> QED
          BY <2>6, <3>2, <4>2, <5>1
      <4> QED
        BY <4>1, <4>2
    <3>4. f[n + 1] = d \o ss[n + 1]
      <4>1. n + 1 \in 1..Len(ss) /\ (n + 1 = 1 <=> n = 0) /\ n + 1 - 1 = n
        BY <2>4, <3>1
      <4>2. f[n + 1] = IF n = 0 THEN ss[n + 1] ELSE f[n] \o ss[n + 1]
        BY <2>3, <4>1
      <4>3. ss[n + 1] \in Seq(T)
        BY <2>4, <4>1
      <4>4. <<>> \o ss[n + 1] = ss[n + 1]
        BY <4>3, ConcatEmptySeq
      <4> QED
        BY <3>2, <4>2, <4>4
    <3>5. f[n + 1] \in Seq(T)
      <4>1. n + 1 \in 1..Len(ss)
        BY <2>4, <3>1
      <4>2. ss[n + 1] \in Seq(T)
        BY <2>4, <4>1
      <4> QED
        BY <3>3, <3>4, <4>2
    <3>6. \E p : Spread(ss, n + 1, f[n + 1], p)
      BY <3>1, <3>3, <3>4, SpreadGrows
    <3> QED
      BY <3>5, <3>6
  <2> HIDE DEF I
  <2>7. Len(ss) \in I
    BY <2>4, <2>5, <2>6, SetInduction
  <2> QED
    BY <2>1, <2>4, <2>7 DEF I
<1> QED
  BY <1>1, <1>2

----------------------------------------------------------------------------
(***************************************************************************)
(* What a tick takes                                                       *)
(***************************************************************************)
LEMMA RunFacts ==
    ASSUME SchedulerAssumption, NEW job, NEW now, Due(job, now), NEW d, d = Missed(job, now)
    PROVE  /\ d \in Seq(0..now) /\ Len(d) \in Nat /\ DOMAIN d = 1..Len(d) /\ Len(d) > 0 /\ now \in Nat
           /\ \A n \in DOMAIN d : d[n] \in Nat /\ d[n] <= now /\ job.next <= d[n]
           /\ \A n, m \in DOMAIN d : d[n] = d[m] => n = m
<1>1. RunTo(job, now, Limit(job), d)
  BY MissedFacts
<1>2. d \in Seq(0..now) /\ Len(d) \in Nat /\ DOMAIN d = 1..Len(d) /\ Len(d) > 0
      /\ now \in Nat
  BY <1>1, FirstRun DEF RunTo, Runs
<1>3. \A n \in DOMAIN d : n \in Int /\ n >= 1 /\ 1 \in DOMAIN d /\ d[n] \in Nat /\ d[n] <= now
  <2>1. \A n \in 1..Len(d) : d[n] \in 0..now
    BY <1>2, ElementOfSeq
  <2> QED
    BY <1>2, <2>1
<1>4. ASSUME NEW n \in DOMAIN d PROVE job.next <= d[n]
  <2>1. n = 1 \/ 1 < n
    BY <1>3
  <2>2. d[1] = job.next /\ d[1] \in Nat /\ d[n] \in Nat
    BY <1>1, <1>3 DEF RunTo
  <2>3. 1 < n => d[1] < d[n]
    BY <1>1, <1>2, <1>3 DEF RunTo
  <2> QED
    BY <2>1, <2>2, <2>3
<1>5. ASSUME NEW n \in DOMAIN d, NEW m \in DOMAIN d, d[n] = d[m]
      PROVE  n = m
  <2>1. n < m \/ m < n \/ n = m
    BY <1>3
  <2>2. (n < m => d[n] < d[m]) /\ (m < n => d[m] < d[n])
    BY <1>1, <1>2 DEF RunTo
  <2>3. d[n] \in Nat /\ d[m] \in Nat
    BY <1>3
  <2> QED
    BY <1>5, <2>1, <2>2, <2>3
<1> QED
  BY <1>2, <1>3, <1>4, <1>5

\* What one job has in it.
Share(job, now) ==
    IF ~IsDue(job, now) THEN <<>>
    ELSE LET times == Missed(job, now) IN [n \in DOMAIN times |-> [reg |-> job.reg, at |-> times[n]]]

LEMMA ShareFacts ==
    ASSUME SchedulerAssumption, NEW job \in Jobs, NEW now \in 0..MaxTime
    PROVE  /\ Share(job, now) \in Seq(Occasions)
           /\ \A n \in 1..Len(Share(job, now)) :
                 /\ Due(job, now) /\ n \in DOMAIN Missed(job, now)
                 /\ Share(job, now)[n] = [reg |-> job.reg, at |-> Missed(job, now)[n]]
           /\ IsDue(job, now) => 1..Len(Share(job, now)) = DOMAIN Missed(job, now)
<1>1. CASE ~IsDue(job, now)
  <2>1. Share(job, now) = <<>> /\ Len(<<>>) = 0 /\ 1..0 = {} /\ <<>> \in Seq(Occasions)
    BY <1>1 DEF Share
  <2> QED
    BY <1>1, <2>1
<1>2. CASE IsDue(job, now)
  <2>1. Due(job, now)
    BY <1>2 DEF Due
  <2>2. PICK d : d = Missed(job, now)
    OBVIOUS
  <2>3. Len(d) \in Nat /\ DOMAIN d = 1..Len(d) /\ \A n \in DOMAIN d : d[n] \in Nat
    BY <2>1, <2>2, RunFacts
  <2>4. Share(job, now) = [n \in 1..Len(d) |-> [reg |-> job.reg, at |-> d[n]]]
    BY <1>2, <2>2, <2>3 DEF Share
  <2>5. job.reg \in Nat
    BY DEF Jobs
  <2>6. \A n \in 1..Len(d) : [reg |-> job.reg, at |-> d[n]] \in Occasions
    BY <2>3, <2>5 DEF Occasions
  <2>7. PICK m \in Nat : m = Len(d)
    BY <2>3
  <2>8. Share(job, now) \in [1..m -> Occasions]
    BY <2>4, <2>6, <2>7
  <2>9. Share(job, now) \in Seq(Occasions) /\ Len(Share(job, now)) = m
    BY <2>8
  <2> QED
    BY <2>1, <2>2, <2>3, <2>4, <2>7, <2>9
<1> QED
  BY <1>1, <1>2

\* x is the n-th instant that the i-th job of the registry fires for.
Stems(now, x, i, n) ==
    /\ i \in DOMAIN jobs /\ Due(jobs[i], now) /\ n \in DOMAIN Missed(jobs[i], now)
    /\ x = [reg |-> jobs[i].reg, at |-> Missed(jobs[i], now)[n]]

LEMMA DueJobsFacts ==
    ASSUME SchedulerAssumption, jobs \in Seq(Jobs), RegsApart(jobs, regs), NEW now \in 0..MaxTime,
           NEW taken, taken = DueJobs(now)
    PROVE  /\ taken \in Seq(Occasions)
           /\ \A m \in DOMAIN taken : \E i, n : Stems(now, taken[m], i, n)
           /\ \A l, m \in DOMAIN taken : taken[l] = taken[m] => l = m
           /\ \A i \in DOMAIN jobs : IsDue(jobs[i], now) =>
                 \A n \in DOMAIN Missed(jobs[i], now) :
                    \E m \in DOMAIN taken : taken[m] = [reg |-> jobs[i].reg, at |-> Missed(jobs[i], now)[n]]
<1> DEFINE ss == [i \in DOMAIN jobs |-> Share(jobs[i], now)]
<1>1. taken = FlattenSeq(ss)
  BY DEF DueJobs, Share
<1>2. PICK len \in Nat : len = Len(jobs) /\ DOMAIN jobs = 1..len
  OBVIOUS
<1>3. \A i \in DOMAIN jobs : jobs[i] \in Jobs
  OBVIOUS
<1>4. ss \in Seq(Seq(Occasions)) /\ Len(ss) = len /\ \A i \in DOMAIN jobs : ss[i] = Share(jobs[i], now)
  <2>1. \A i \in 1..len : Share(jobs[i], now) \in Seq(Occasions)
    BY <1>2, <1>3, ShareFacts
  <2>2. ss \in [1..len -> Seq(Occasions)]
    BY <1>2, <2>1
  <2>3. \A i \in DOMAIN jobs : ss[i] = Share(jobs[i], now)
    OBVIOUS
  <2> HIDE DEF ss
  <2> QED
    BY <2>2, <2>3
<1> HIDE DEF ss
<1>5. taken \in Seq(Occasions) /\ DOMAIN taken = 1..Len(taken)
  BY <1>1, <1>4, FlattenFacts
<1>6. PICK p : Spread(ss, len, taken, p)
  BY <1>1, <1>4, FlattenFacts
<1>7. \A m \in DOMAIN taken : Stems(now, taken[m], p[m][1], p[m][2])
  <2> SUFFICES ASSUME NEW m \in DOMAIN taken PROVE Stems(now, taken[m], p[m][1], p[m][2])
    OBVIOUS
  <2>1. PICK i, n : i = p[m][1] /\ n = p[m][2]
    OBVIOUS
  <2>2. i \in 1..len /\ n \in 1..Len(ss[i]) /\ taken[m] = ss[i][n]
    BY <1>5, <1>6, <2>1 DEF Spread
  <2>3. i \in DOMAIN jobs /\ jobs[i] \in Jobs /\ ss[i] = Share(jobs[i], now)
    BY <1>2, <1>3, <1>4, <2>2
  <2>4. /\ Due(jobs[i], now) /\ n \in DOMAIN Missed(jobs[i], now)
        /\ taken[m] = [reg |-> jobs[i].reg, at |-> Missed(jobs[i], now)[n]]
    <3>1. PICK job \in Jobs : job = jobs[i]
      BY <2>3
    <3>2. n \in 1..Len(Share(job, now)) /\ taken[m] = Share(job, now)[n]
      BY <2>2, <2>3, <3>1
    <3>3. /\ Due(job, now) /\ n \in DOMAIN Missed(job, now)
          /\ Share(job, now)[n] = [reg |-> job.reg, at |-> Missed(job, now)[n]]
      BY <3>2, ShareFacts
    <3> QED
      BY <3>1, <3>2, <3>3
  <2> QED
    BY <2>1, <2>3, <2>4 DEF Stems
<1>8. ASSUME NEW l \in DOMAIN taken, NEW m \in DOMAIN taken, taken[l] = taken[m]
      PROVE  l = m
  <2>1. PICK i, n, j, o : i = p[l][1] /\ n = p[l][2] /\ j = p[m][1] /\ o = p[m][2]
    OBVIOUS
  <2>2. Stems(now, taken[l], i, n) /\ Stems(now, taken[m], j, o)
    BY <1>7, <2>1
  <2>3. jobs[i].reg = jobs[j].reg /\ Missed(jobs[i], now)[n] = Missed(jobs[j], now)[o]
    <3>1. \A x, a, b : Stems(now, x, a, b) => x.reg = jobs[a].reg /\ x.at = Missed(jobs[a], now)[b]
      BY DEF Stems
    <3> QED
      BY <1>8, <2>2, <3>1
  <2>4. i = j
    BY <2>2, <2>3 DEF RegsApart, Stems
  <2>5. n = o
    BY <2>2, <2>3, <2>4, RunFacts DEF Stems
  <2> QED
    BY <1>5, <1>6, <2>1, <2>4, <2>5 DEF Spread
<1>9. ASSUME NEW i \in DOMAIN jobs, IsDue(jobs[i], now), NEW n \in DOMAIN Missed(jobs[i], now)
      PROVE  \E m \in DOMAIN taken : taken[m] = [reg |-> jobs[i].reg, at |-> Missed(jobs[i], now)[n]]
  <2>1. i \in 1..len /\ jobs[i] \in Jobs /\ ss[i] = Share(jobs[i], now)
    BY <1>2, <1>3, <1>4
  <2>2. n \in 1..Len(ss[i])
    BY <1>9, <2>1, ShareFacts
  <2>3. PICK m \in 1..Len(taken) : p[m] = <<i, n>>
    BY <1>6, <2>1, <2>2 DEF Spread
  <2>4. m \in DOMAIN taken /\ Stems(now, taken[m], i, n)
    BY <1>5, <1>7, <2>3
  <2> QED
    BY <2>4 DEF Stems
<1> QED
  BY <1>5, <1>7, <1>8, <1>9

----------------------------------------------------------------------------
(***************************************************************************)
(* The invariant, action by action                                         *)
(***************************************************************************)
LEMMA TypedFacts ==
    ASSUME SchedulerAssumption, Typed
    PROVE  /\ clock \in Nat /\ clock \in 0..MaxTime
           /\ \A k \in Tickers : JobsOf(k) \in Seq(Occasions) /\ TimersOf(k) \in Seq(Timers)
           /\ DOMAIN jobs = 1..Len(jobs) /\ Len(jobs) \in Nat /\ \A i \in DOMAIN jobs : jobs[i] \in Jobs
           /\ DOMAIN timers = 1..Len(timers) /\ Len(timers) \in Nat /\ \A i \in DOMAIN timers : timers[i] \in Timers
<1>1. clock \in Nat /\ clock \in 0..MaxTime
  <2>1. clock \in 0..MaxTime /\ MaxTime \in Nat
    BY DEF Typed, SchedulerAssumption
  <2> QED
    BY <2>1
<1>2. ASSUME NEW k \in Tickers PROVE JobsOf(k) \in Seq(Occasions) /\ TimersOf(k) \in Seq(Timers)
  <2>1. tick[k] = Idle \/ tick[k] \in Deliveries
    BY DEF Typed
  <2>2. CASE tick[k] = Idle
    BY <2>2 DEF JobsOf, TimersOf
  <2>3. CASE tick[k] # Idle
    BY <2>1, <2>3 DEF JobsOf, TimersOf, Deliveries
  <2> QED
    BY <2>2, <2>3
<1>3. jobs \in Seq(Jobs) /\ timers \in Seq(Timers)
  BY DEF Typed
<1> QED
  BY <1>1, <1>2, <1>3

\* What the threads hold does not change with their jobs and timers alone.
LEMMA TickSame ==
    ASSUME tick' = tick
    PROVE  \A k : JobsOf(k)' = JobsOf(k) /\ TimersOf(k)' = TimersOf(k)
BY DEF JobsOf, TimersOf

\* A step that delivers nothing and takes nothing.
LEMMA JobsQuiet ==
    ASSUME SchedulerAssumption, Typed, Typed', Behind, JobsApart,
           UNCHANGED <<fired, tick>>, regs <= regs', clock <= clock',
           adding' = adding \/ adding' = NoJob \/ adding'.reg > regs,
           \A i \in DOMAIN jobs' : jobs'[i].enabled =>
              \/ jobs'[i].reg > regs
              \/ adding # NoJob /\ jobs'[i].reg = adding.reg
              \/ jobs'[i].next > clock
              \/ \E j \in DOMAIN jobs : jobs'[i] = jobs[j]
    PROVE  Behind' /\ JobsApart'
<1>1. /\ clock \in Nat /\ clock' \in Nat /\ regs \in Nat /\ regs' \in Nat
      /\ \A i \in DOMAIN jobs' : jobs'[i] \in Jobs
  <2>1. clock \in Nat
    BY TypedFacts
  <2>2. clock' \in Nat
    BY DEF Typed, SchedulerAssumption
  <2>3. \A i \in DOMAIN jobs' : jobs'[i] \in Jobs
    BY DEF Typed
  <2> QED
    BY <2>1, <2>2, <2>3 DEF Typed
<1>2. ASSUME NEW x \in Occasions, OfThePast(x) PROVE OfThePast(x)'
  <2>1. x.reg \in Nat /\ x.at \in Nat /\ x.reg <= regs /\ x.at <= clock
    BY <1>2 DEF Occasions, OfThePast
  <2>2. x.reg <= regs' /\ x.at <= clock'
    BY <1>1, <2>1
  <2>3. adding' # NoJob => adding'.reg # x.reg
    <3>1. CASE adding' = adding
      BY <1>2, <3>1 DEF OfThePast
    <3>2. CASE adding'.reg > regs
      BY <1>1, <2>1, <3>2
    <3> QED
      BY <3>1, <3>2
  <2>4. ASSUME NEW i \in DOMAIN jobs', jobs'[i].reg = x.reg, jobs'[i].enabled
        PROVE  x.at < jobs'[i].next
    <3>1. ~(jobs'[i].reg > regs)
      BY <1>1, <2>1, <2>4
    <3>2. ~(adding # NoJob /\ jobs'[i].reg = adding.reg)
      BY <1>2, <2>4 DEF OfThePast
    <3>3. CASE jobs'[i].next > clock
      <4>1. jobs'[i].next \in Nat
        BY <1>1 DEF Jobs
      <4> QED
        BY <1>1, <2>1, <3>3, <4>1
    <3>4. CASE \E j \in DOMAIN jobs : jobs'[i] = jobs[j]
      BY <1>2, <2>4, <3>4 DEF OfThePast
    <3> QED
      BY <2>4, <3>1, <3>2, <3>3, <3>4
  <2> QED
    BY <2>2, <2>3, <2>4 DEF OfThePast
<1>3. \A k \in Tickers : JobsOf(k)' = JobsOf(k) /\ JobsOf(k) \in Seq(Occasions)
  BY TickSame, TypedFacts
<1>4. \A k \in Tickers : \A i \in DOMAIN JobsOf(k) : JobsOf(k)[i] \in Occasions
  BY <1>3
<1>5. Behind'
  <2>1. \A x \in fired' : OfThePast(x)'
    BY <1>2 DEF Behind, Typed
  <2>2. ASSUME NEW k \in Tickers, NEW i \in DOMAIN JobsOf(k)' PROVE OfThePast(JobsOf(k)[i])'
    <3>1. i \in DOMAIN JobsOf(k) /\ JobsOf(k)' = JobsOf(k)
      BY <1>3, <2>2
    <3>2. PICK x \in Occasions : x = JobsOf(k)[i]
      BY <1>4, <3>1
    <3>3. OfThePast(x)
      BY <3>1, <3>2 DEF Behind
    <3>4. OfThePast(x)'
      BY <1>2, <3>3
    <3> QED
      BY <3>1, <3>2, <3>4 DEF OfThePast
  <2> QED
    BY <2>1, <2>2 DEF Behind
<1>6. JobsApart'
  BY <1>3 DEF JobsApart
<1> QED
  BY <1>5, <1>6

LEMMA TimersQuiet ==
    ASSUME SchedulerAssumption, Typed, Typed', TimersApart,
           UNCHANGED <<expired, tick>>, timersAdded <= timersAdded',
           \A i \in DOMAIN timers' :
              timers'[i].reg > timersAdded \/ \E j \in DOMAIN timers : timers'[i] = timers[j]
    PROVE  TimersApart'
<1>1. timersAdded \in Nat /\ timersAdded' \in Nat
  BY DEF Typed
<1>2. \A k \in Tickers : TimersOf(k)' = TimersOf(k) /\ TimersOf(k) \in Seq(Timers)
  BY TickSame, TypedFacts
<1>3. ASSUME NEW r \in Nat, r <= timersAdded, \A j \in DOMAIN timers : timers[j].reg # r
      PROVE  r <= timersAdded' /\ \A i \in DOMAIN timers' : timers'[i].reg # r
  <2>1. r <= timersAdded'
    BY <1>1, <1>3
  <2>2. ASSUME NEW i \in DOMAIN timers' PROVE timers'[i].reg # r
    <3>1. CASE timers'[i].reg > timersAdded
      BY <1>1, <1>3, <3>1
    <3>2. CASE \E j \in DOMAIN timers : timers'[i] = timers[j]
      BY <1>3, <3>2
    <3> QED
      BY <3>1, <3>2
  <2> QED
    BY <2>1, <2>2
<1>4. \A r \in expired' : r <= timersAdded' /\ \A i \in DOMAIN timers' : timers'[i].reg # r
  BY <1>3 DEF TimersApart, Typed
<1>5. ASSUME NEW k \in Tickers, NEW i \in DOMAIN TimersOf(k)
      PROVE  /\ TimersOf(k)[i].reg <= timersAdded' /\ TimersOf(k)[i].reg \notin expired'
             /\ \A j \in DOMAIN timers' : timers'[j].reg # TimersOf(k)[i].reg
             /\ \A l \in Tickers : \A j \in DOMAIN TimersOf(l) :
                    TimersOf(k)[i].reg = TimersOf(l)[j].reg => k = l /\ i = j
  <2>1. TimersOf(k)[i] \in Timers
    BY <1>2
  <2>2. TimersOf(k)[i].reg \in Nat
    BY <2>1 DEF Timers
  <2>3. /\ TimersOf(k)[i].reg <= timersAdded /\ TimersOf(k)[i].reg \notin expired
        /\ \A j \in DOMAIN timers : timers[j].reg # TimersOf(k)[i].reg
        /\ \A l \in Tickers : \A j \in DOMAIN TimersOf(l) :
                TimersOf(k)[i].reg = TimersOf(l)[j].reg => k = l /\ i = j
    BY DEF TimersApart
  <2> QED
    BY <1>3, <2>2, <2>3
<1> QED
  BY <1>2, <1>4, <1>5 DEF TimersApart

LEMMA InitSched ==
    ASSUME SchedulerAssumption, SchedulerInit
    PROVE  SchedInv
<1>1. Typed
  <2>1. <<>> \in Seq(Jobs) /\ <<>> \in Seq(Timers)
    OBVIOUS
  <2>2. NoFile \in [state : {"absent", "cut", "whole"}, jobs : Seq(Jobs), timers : Seq(Timers)]
    BY <2>1 DEF NoFile
  <2> QED
    BY <2>1, <2>2 DEF SchedulerInit, Typed, SchedulerAssumption
<1>2. DOMAIN <<>> = {}
  OBVIOUS
<1>3. jobs = <<>> /\ timers = <<>> /\ saved.jobs = <<>> /\ saved.timers = <<>> /\ adding = NoJob
  BY DEF SchedulerInit, NoFile
<1>4. Registries /\ Numbered
  BY <1>2, <1>3 DEF Registries, Kempt, OneEach, InOrder, Timely, Numbered, RegsApart
<1>5. \A k \in Tickers : JobsOf(k) = <<>> /\ TimersOf(k) = <<>>
  BY DEF SchedulerInit, JobsOf, TimersOf
<1>6. fired = {} /\ expired = {} /\ ~again
  BY DEF SchedulerInit
<1>7. Behind /\ JobsApart /\ TimersApart
  BY <1>2, <1>5, <1>6 DEF Behind, JobsApart, TimersApart
<1> QED
  BY <1>1, <1>4, <1>6, <1>7 DEF SchedInv

LEMMA PassKeeps ==
    ASSUME SchedulerAssumption, SchedInv, Pass
    PROVE  SchedInv'
<1>1. Typed'
  BY DEF Pass, history, SchedInv, Typed
<1>2. Registries' /\ Numbered'
  BY DEF Pass, SchedInv, Registries, Kempt, OneEach, InOrder, Timely, Numbered, RegsApart
<1>3. clock <= clock' /\ regs <= regs' /\ timersAdded <= timersAdded'
  <2>1. clock \in Nat /\ clock' \in Nat /\ clock' > clock
    <3>1. clock' \in 0..MaxTime /\ MaxTime \in Nat /\ clock' > clock
      BY <1>1 DEF Pass, Typed, SchedulerAssumption
    <3> QED
      BY <3>1, TypedFacts DEF SchedInv
  <2>2. regs' = regs /\ timersAdded' = timersAdded /\ regs \in Nat /\ timersAdded \in Nat
    BY DEF Pass, SchedInv, Typed
  <2> QED
    BY <2>1, <2>2
<1>4. Behind' /\ JobsApart' /\ TimersApart'
  BY <1>1, <1>3, JobsQuiet, TimersQuiet DEF Pass, history, SchedInv
<1> QED
  BY <1>1, <1>2, <1>4 DEF SchedInv, Pass, history

LEMMA AddJobKeeps ==
    ASSUME SchedulerAssumption, SchedInv,
           NEW id \in JobIds, NEW s \in Schedules, NEW enabled \in BOOLEAN, NEW n \in CatchUps,
           NEW next \in {0, MaxTime}, AddJob(id, s, enabled, n, next)
    PROVE  SchedInv'
<1> DEFINE job == [id |-> id, schedule |-> s, enabled |-> enabled, limit |-> n, next |-> next,
                   reg |-> regs + 1]
<1>1. Typed /\ clock \in Nat /\ clock \in 0..MaxTime /\ regs \in Nat /\ next \in Nat
  BY TypedFacts DEF SchedInv, Typed, SchedulerAssumption
<1>2. s \in Readable /\ regs' = regs + 1 /\ adding = NoJob
      /\ adding' = IF next <= clock THEN Rescheduled(job, clock) ELSE job
  BY DEF AddJob, Readable
<1>3. job \in Jobs /\ job.reg = regs + 1 /\ job.next = next
  BY <1>1, <1>2 DEF Jobs
<1> HIDE DEF job
<1>4. adding' \in Jobs /\ adding'.reg = regs + 1 /\ Timely(adding')
  <2>1. CASE next <= clock
    BY <1>1, <1>2, <1>3, <2>1, RescheduledFacts
  <2>2. CASE ~(next <= clock)
    <3>1. adding' = job /\ job.next > 0
      BY <1>1, <1>2, <1>3, <2>2
    <3> QED
      BY <1>3, <3>1 DEF Timely
  <2> QED
    BY <2>1, <2>2
<1>5. UNCHANGED <<clock, jobs, timers, tick, saved, timersAdded, crashes>> /\ UNCHANGED history
  BY DEF AddJob
<1>6. Typed'
  BY <1>1, <1>2, <1>4, <1>5 DEF history, Typed
<1>7. Registries'
  <2>1. Registries
    BY DEF SchedInv
  <2> QED
    BY <1>4, <1>5, <2>1 DEF Registries, Kempt, OneEach, InOrder, Timely
<1>8. Numbered'
  <2>1. Numbered /\ \A i \in DOMAIN jobs : jobs[i] \in Jobs /\ jobs[i].reg \in Nat
    BY TypedFacts DEF SchedInv, Jobs
  <2>2. \A i \in DOMAIN jobs : jobs[i].reg <= regs + 1 /\ jobs[i].reg # regs + 1
    BY <1>1, <2>1 DEF Numbered, RegsApart
  <2>3. adding'.reg <= regs'
    BY <1>1, <1>2, <1>4
  <2> QED
    BY <1>2, <1>4, <1>5, <2>1, <2>2, <2>3 DEF Numbered, RegsApart
<1>9. clock <= clock' /\ regs <= regs' /\ timersAdded <= timersAdded' /\ adding'.reg > regs
  BY <1>1, <1>2, <1>4, <1>5 DEF Typed
<1>10. Behind' /\ JobsApart' /\ TimersApart'
  BY <1>5, <1>6, <1>9, JobsQuiet, TimersQuiet DEF history, SchedInv
<1> QED
  BY <1>5, <1>6, <1>7, <1>8, <1>10 DEF SchedInv, history

LEMMA InsertJobKeeps ==
    ASSUME SchedulerAssumption, SchedInv, InsertJob
    PROVE  SchedInv'
<1>1. Typed /\ Registries /\ Numbered /\ jobs \in Seq(Jobs) /\ regs \in Nat /\ timersAdded \in Nat
      /\ clock \in Nat
  BY TypedFacts DEF SchedInv, Typed
<1>2. adding \in Jobs /\ adding # NoJob /\ jobs' = Replacing(jobs, adding) /\ adding' = NoJob
  BY <1>1 DEF InsertJob, Typed
<1>3. UNCHANGED <<clock, timers, tick, saved, regs, timersAdded, crashes>> /\ UNCHANGED history
  BY DEF InsertJob
<1>4. /\ jobs' \in Seq(Jobs)
      /\ \A i \in DOMAIN jobs' : jobs'[i] = adding \/ \E j \in DOMAIN jobs : jobs'[i] = jobs[j]
      /\ OneEach(jobs) => OneEach(jobs')
      /\ \A r : /\ RegsApart(jobs, r) /\ adding.reg <= r
                /\ \A j \in DOMAIN jobs : jobs[j].reg # adding.reg
                => RegsApart(jobs', r)
  BY <1>1, <1>2, ReplacingFacts
<1>5. Typed'
  BY <1>1, <1>2, <1>3, <1>4 DEF history, Typed
<1>6. Registries'
  <2>1. \A i \in DOMAIN jobs' : Timely(jobs'[i])
    BY <1>1, <1>2, <1>4 DEF Registries, Kempt
  <2> QED
    BY <1>1, <1>2, <1>3, <1>4, <2>1 DEF Registries, Kempt, OneEach, InOrder, Timely
<1>7. Numbered'
  <2>1. RegsApart(jobs', regs)
    BY <1>1, <1>2, <1>4 DEF Numbered
  <2> QED
    BY <1>1, <1>2, <1>3, <2>1 DEF Numbered, RegsApart
<1>8. clock <= clock' /\ regs <= regs' /\ timersAdded <= timersAdded'
  BY <1>1, <1>3
<1>9. Behind' /\ JobsApart'
  BY <1>2, <1>3, <1>4, <1>5, <1>8, JobsQuiet DEF history, SchedInv
<1>10. TimersApart'
  BY <1>3, <1>5, <1>8, TimersQuiet DEF history, SchedInv
<1> QED
  BY <1>3, <1>5, <1>6, <1>7, <1>9, <1>10 DEF SchedInv, history

LEMMA RemoveJobKeeps ==
    ASSUME SchedulerAssumption, SchedInv, NEW id \in JobIds, RemoveJob(id)
    PROVE  SchedInv'
<1> DEFINE S == {j \in ToSet(jobs) : j.id # id}
<1>1. Typed /\ Registries /\ Numbered /\ jobs \in Seq(Jobs) /\ regs \in Nat /\ timersAdded \in Nat
      /\ clock \in Nat
  BY TypedFacts DEF SchedInv, Typed
<1>2. jobs' = Kept(jobs, S)
      /\ UNCHANGED <<clock, timers, adding, tick, saved, regs, timersAdded, crashes>> /\ UNCHANGED history
  BY DEF RemoveJob
<1> HIDE DEF S
<1>3. /\ jobs' \in Seq(Jobs)
      /\ \A i \in DOMAIN jobs' : \E j \in DOMAIN jobs : jobs'[i] = jobs[j]
      /\ OneEach(jobs) => OneEach(jobs')
      /\ \A r : RegsApart(jobs, r) => RegsApart(jobs', r)
  BY <1>1, <1>2, KeptFacts
<1>4. Typed'
  BY <1>1, <1>2, <1>3 DEF history, Typed
<1>5. Registries'
  BY <1>1, <1>2, <1>3 DEF Registries, Kempt, OneEach, InOrder, Timely
<1>6. Numbered'
  <2>1. RegsApart(jobs', regs)
    BY <1>1, <1>3 DEF Numbered
  <2> QED
    BY <1>1, <1>2, <1>3, <2>1 DEF Numbered, RegsApart
<1>7. clock <= clock' /\ regs <= regs' /\ timersAdded <= timersAdded'
  BY <1>1, <1>2
<1>8. Behind' /\ JobsApart'
  BY <1>2, <1>3, <1>4, <1>7, JobsQuiet DEF history, SchedInv
<1>9. TimersApart'
  BY <1>2, <1>4, <1>7, TimersQuiet DEF history, SchedInv
<1> QED
  BY <1>2, <1>4, <1>5, <1>6, <1>8, <1>9 DEF SchedInv, history

LEMMA EnableJobKeeps ==
    ASSUME SchedulerAssumption, SchedInv, NEW id \in JobIds, NEW enabled \in BOOLEAN, EnableJob(id, enabled)
    PROVE  SchedInv'
<1>1. Typed /\ Registries /\ Numbered /\ jobs \in Seq(Jobs) /\ regs \in Nat /\ timersAdded \in Nat
      /\ clock \in Nat /\ clock \in 0..MaxTime
  BY TypedFacts DEF SchedInv, Typed
<1>2. UNCHANGED <<clock, timers, adding, tick, saved, regs, timersAdded, crashes>> /\ UNCHANGED history
  BY DEF EnableJob
<1>3. PICK e \in DOMAIN jobs : jobs' = [jobs EXCEPT ![e] =
                IF enabled THEN Rescheduled([@ EXCEPT !.enabled = TRUE], clock)
                ELSE [@ EXCEPT !.enabled = FALSE]]
  BY DEF EnableJob
<1>4. PICK job, done : /\ job = [jobs[e] EXCEPT !.enabled = enabled]
                       /\ done = IF enabled THEN Rescheduled(job, clock) ELSE job
  OBVIOUS
<1>5. jobs' = [jobs EXCEPT ![e] = done]
  BY <1>3, <1>4
<1>6. jobs[e] \in Jobs
  BY <1>1
<1>7. job \in Jobs /\ job.id = jobs[e].id /\ job.reg = jobs[e].reg /\ job.enabled = enabled
  BY <1>4, <1>6 DEF Jobs
<1>8. done \in Jobs /\ done.id = jobs[e].id /\ done.reg = jobs[e].reg /\ Timely(done)
      /\ (done.enabled => done.next > clock)
  <2>1. CASE enabled
    <3>1. done = Rescheduled(job, clock)
      BY <1>4, <2>1
    <3>2. /\ done \in Jobs /\ done.id = job.id /\ done.reg = job.reg /\ Timely(done)
          /\ done.enabled => done.next > clock
      <4>1. job \in Jobs /\ clock \in 0..MaxTime
        BY <1>1, <1>7
      <4> QED
        BY <3>1, <4>1, RescheduledFacts
    <3> QED
      BY <1>7, <3>2
  <2>2. CASE ~enabled
    <3>1. job.enabled = FALSE /\ done = job
      BY <1>4, <1>7, <2>2
    <3> QED
      BY <1>7, <3>1 DEF Timely
  <2> QED
    BY <2>1, <2>2
<1>9. /\ jobs' \in Seq(Jobs) /\ DOMAIN jobs' = DOMAIN jobs
      /\ \A i \in DOMAIN jobs : jobs'[i] = IF i = e THEN done ELSE jobs[i]
  BY <1>1, <1>5, <1>8
<1>10. \A i \in DOMAIN jobs : jobs'[i].id = jobs[i].id /\ jobs'[i].reg = jobs[i].reg
  BY <1>8, <1>9
<1>11. Typed'
  BY <1>1, <1>2, <1>9 DEF history, Typed
<1>12. Registries'
  <2>1. OneEach(jobs')
    BY <1>1, <1>9, <1>10 DEF Registries, Kempt, OneEach
  <2>2. \A i \in DOMAIN jobs' : Timely(jobs'[i])
    BY <1>1, <1>8, <1>9 DEF Registries, Kempt
  <2> QED
    BY <1>1, <1>2, <2>1, <2>2 DEF Registries, Kempt, InOrder, OneEach, Timely
<1>13. Numbered'
  <2>1. RegsApart(jobs', regs)
    BY <1>1, <1>9, <1>10 DEF Numbered, RegsApart
  <2> QED
    BY <1>1, <1>2, <1>9, <1>10, <2>1 DEF Numbered, RegsApart
<1>14. clock <= clock' /\ regs <= regs' /\ timersAdded <= timersAdded'
  BY <1>1, <1>2
<1>15. Behind' /\ JobsApart'
  BY <1>2, <1>8, <1>9, <1>11, <1>14, JobsQuiet DEF history, SchedInv
<1>16. TimersApart'
  BY <1>2, <1>11, <1>14, TimersQuiet DEF history, SchedInv
<1> QED
  BY <1>2, <1>11, <1>12, <1>13, <1>15, <1>16 DEF SchedInv, history

\* A step that changes the timers alone.
LEMMA TimersKeep ==
    ASSUME SchedulerAssumption, SchedInv,
           UNCHANGED <<clock, jobs, adding, tick, saved, regs, crashes>>, UNCHANGED history,
           timersAdded' \in Nat, timersAdded <= timersAdded',
           timers' \in Seq(Timers), OneEach(timers'), InOrder(timers'), RegsApart(timers', timersAdded'),
           \A i \in DOMAIN timers' :
              timers'[i].reg > timersAdded \/ \E j \in DOMAIN timers : timers'[i] = timers[j]
    PROVE  SchedInv'
<1>1. Typed /\ Registries /\ Numbered /\ regs \in Nat /\ clock \in Nat
  BY TypedFacts DEF SchedInv, Typed
<1>2. Typed'
  BY <1>1 DEF history, Typed
<1>3. Registries' /\ Numbered'
  BY <1>1 DEF Registries, Kempt, OneEach, InOrder, Timely, Numbered, RegsApart
<1>4. clock <= clock' /\ regs <= regs'
  BY <1>1
<1>5. Behind' /\ JobsApart' /\ TimersApart'
  BY <1>2, <1>4, JobsQuiet, TimersQuiet DEF history, SchedInv
<1> QED
  BY <1>2, <1>3, <1>5 DEF SchedInv, history

LEMMA AddTimerKeeps ==
    ASSUME SchedulerAssumption, SchedInv, NEW id \in TimerIds, NEW s \in Owners, NEW due \in Dues,
           AddTimer(id, s, due)
    PROVE  SchedInv'
<1>1. PICK x, l, r : /\ x = [id |-> id, session |-> s, due |-> due, reg |-> timersAdded + 1]
                     /\ l = Replacing(timers, x) /\ r = timersAdded + 1
  OBVIOUS
<1>2. timers' \in Sorted(l) /\ timersAdded' = r
      /\ UNCHANGED <<clock, jobs, adding, tick, saved, regs, crashes>> /\ UNCHANGED history
  BY <1>1 DEF AddTimer
<1>3. timers \in Seq(Timers) /\ timersAdded \in Nat /\ OneEach(timers) /\ RegsApart(timers, timersAdded)
  BY DEF SchedInv, Typed, Registries, Kempt, Numbered
<1>4. x \in Timers /\ x.reg = r /\ r \in Nat
  BY <1>1, <1>3 DEF Timers
<1>5. \A j \in DOMAIN timers : timers[j].reg \in Nat /\ timers[j].reg <= timersAdded
  <2>1. \A j \in DOMAIN timers : timers[j] \in Timers
    BY <1>3
  <2> QED
    BY <1>3, <2>1 DEF RegsApart, Timers
<1>6. RegsApart(timers, r) /\ \A j \in DOMAIN timers : timers[j].reg # x.reg
  BY <1>1, <1>3, <1>4, <1>5 DEF RegsApart
<1>7. x.reg <= r
  BY <1>3, <1>4
<1>8. /\ l \in Seq(Timers) /\ OneEach(l) /\ RegsApart(l, r)
      /\ \A i \in DOMAIN l : l[i] = x \/ \E j \in DOMAIN timers : l[i] = timers[j]
  <2>0. l = Replacing(timers, x)
    BY <1>1
  <2>1. l \in Seq(Timers) /\ \A i \in DOMAIN l : l[i] = x \/ \E j \in DOMAIN timers : l[i] = timers[j]
    BY <1>3, <1>4, <2>0, ReplacingFacts
  <2>2. OneEach(l)
    BY <1>3, <1>4, <2>0, ReplacingFacts
  <2>3. RegsApart(l, r)
    <3>1. ASSUME NEW m, RegsApart(timers, m), x.reg <= m, \A j \in DOMAIN timers : timers[j].reg # x.reg
          PROVE  RegsApart(l, m)
      <4>1. x \in Timers
        BY <1>4
      <4> QED
        BY <1>3, <2>0, <3>1, <4>1, ReplacingFacts
    <3> QED
      BY <1>6, <1>7, <3>1
  <2> QED
    BY <2>1, <2>2, <2>3
<1>9. /\ timers' \in Seq(Timers) /\ InOrder(timers') /\ OneEach(timers') /\ RegsApart(timers', r)
      /\ \A i \in DOMAIN timers' : \E j \in DOMAIN l : timers'[i] = l[j]
  BY <1>2, <1>8, SortedFacts
<1>10. \A i \in DOMAIN timers' : timers'[i].reg > timersAdded \/ \E j \in DOMAIN timers : timers'[i] = timers[j]
  <2>1. x.reg > timersAdded
    BY <1>1, <1>3, <1>4
  <2> QED
    BY <1>8, <1>9, <2>1
<1>11. timersAdded' \in Nat /\ timersAdded <= timersAdded'
  BY <1>1, <1>2, <1>3
<1> QED
  BY <1>2, <1>9, <1>10, <1>11, TimersKeep

LEMMA CancelTimersKeeps ==
    ASSUME SchedulerAssumption, SchedInv, NEW gone, CancelTimers(gone)
    PROVE  SchedInv'
<1>1. timers' = Kept(timers, ToSet(timers) \ gone) /\ timersAdded' = timersAdded
      /\ UNCHANGED <<clock, jobs, adding, tick, saved, regs, crashes>> /\ UNCHANGED history
  BY DEF CancelTimers
<1>2. timers \in Seq(Timers) /\ timersAdded \in Nat /\ Registries /\ Numbered
  BY DEF SchedInv, Typed
<1>3. /\ timers' \in Seq(Timers) /\ OneEach(timers') /\ InOrder(timers') /\ RegsApart(timers', timersAdded)
      /\ \A i \in DOMAIN timers' : \E j \in DOMAIN timers : timers'[i] = timers[j]
  <2>1. PICK S, k : S = ToSet(timers) \ gone /\ k = Kept(timers, S)
    OBVIOUS
  <2>2. OneEach(timers) /\ InOrder(timers) /\ RegsApart(timers, timersAdded)
    BY <1>2 DEF Registries, Kempt, Numbered
  <2>3. /\ k \in Seq(Timers) /\ OneEach(k) /\ InOrder(k) /\ RegsApart(k, timersAdded)
        /\ \A i \in DOMAIN k : \E j \in DOMAIN timers : k[i] = timers[j]
    <3>1. k \in Seq(Timers)
      BY <1>2, <2>1, KeptFacts
    <3>5. \A i \in DOMAIN k : \E j \in DOMAIN timers : k[i] = timers[j]
      BY <1>2, <2>1, KeptFacts
    <3>2. OneEach(k)
      BY <1>2, <2>1, <2>2, KeptFacts
    <3>3. InOrder(k)
      BY <1>2, <2>1, <2>2, KeptFacts
    <3>4. RegsApart(k, timersAdded)
      BY <1>2, <2>1, <2>2, KeptFacts
    <3> QED
      BY <3>1, <3>2, <3>3, <3>4, <3>5
  <2> QED
    BY <1>1, <2>1, <2>3
<1>4. timersAdded <= timersAdded'
  BY <1>1, <1>2
<1> QED
  BY <1>1, <1>2, <1>3, <1>4, TimersKeep

LEMMA SaveKeeps ==
    ASSUME SchedulerAssumption, SchedInv, SaveToFile
    PROVE  SchedInv'
<1>1. Typed /\ Registries /\ Numbered /\ regs \in Nat /\ clock \in Nat /\ timersAdded \in Nat
  BY TypedFacts DEF SchedInv, Typed
<1>2. saved' = [state |-> "whole", jobs |-> jobs, timers |-> timers]
      /\ UNCHANGED <<clock, jobs, timers, adding, tick, regs, timersAdded, crashes>> /\ UNCHANGED history
  BY DEF SaveToFile
<1>3. Typed'
  BY <1>1, <1>2 DEF history, Typed
<1>4. Registries' /\ Numbered'
  BY <1>1, <1>2 DEF Registries, Kempt, OneEach, InOrder, Timely, Numbered, RegsApart
<1>5. clock <= clock' /\ regs <= regs' /\ timersAdded <= timersAdded'
  BY <1>1, <1>2
<1>6. Behind' /\ JobsApart' /\ TimersApart'
  BY <1>2, <1>3, <1>5, JobsQuiet, TimersQuiet DEF history, SchedInv
<1> QED
  BY <1>2, <1>3, <1>4, <1>6 DEF SchedInv, history

LEMMA DiesKeeps ==
    ASSUME SchedulerAssumption, SchedInv, ProcessDies
    PROVE  SchedInv'
<1>1. Typed /\ Registries
  BY DEF SchedInv
<1>2. jobs' = <<>> /\ timers' = <<>> /\ adding' = NoJob /\ tick' = [k \in Tickers |-> Idle]
      /\ saved' \in {saved, [NoFile EXCEPT !.state = "cut"]} /\ crashes' = crashes + 1
      /\ UNCHANGED <<clock, regs, timersAdded>> /\ UNCHANGED history
  BY DEF ProcessDies
<1>3. DOMAIN <<>> = {} /\ <<>> \in Seq(Jobs) /\ <<>> \in Seq(Timers)
  OBVIOUS
<1>4. saved' = saved \/ saved' = [state |-> "cut", jobs |-> <<>>, timers |-> <<>>]
  BY <1>2 DEF NoFile
<1>5. Typed'
  <2>1. saved' \in [state : {"absent", "cut", "whole"}, jobs : Seq(Jobs), timers : Seq(Timers)]
    <3>1. CASE saved' = saved
      BY <1>1, <3>1 DEF Typed
    <3>2. CASE saved' = [state |-> "cut", jobs |-> <<>>, timers |-> <<>>]
      BY <1>3, <3>2
    <3> QED
      BY <1>4, <3>1, <3>2
  <2>2. clock' \in Readings /\ regs' \in Nat /\ timersAdded' \in Nat /\ crashes' \in Nat
    BY <1>1, <1>2 DEF Typed
  <2>3. fired' \subseteq Occasions /\ expired' \subseteq Nat /\ again' \in BOOLEAN
    BY <1>1, <1>2 DEF history, Typed
  <2>4. /\ jobs' \in Seq(Jobs) /\ timers' \in Seq(Timers) /\ adding' \in {NoJob} \cup Jobs
        /\ tick' \in [Tickers -> {Idle} \cup Deliveries]
    BY <1>2, <1>3
  <2> QED
    BY <2>1, <2>2, <2>3, <2>4 DEF Typed
<1>6. Kempt(<<>>, <<>>)
  BY <1>3 DEF Kempt, OneEach, InOrder
<1>7. Kempt(saved'.jobs, saved'.timers)
  BY <1>1, <1>4, <1>6 DEF Registries
<1>8. Registries' /\ Numbered'
  <2>1. Registries'
    BY <1>2, <1>6, <1>7 DEF Registries
  <2>2. Numbered'
    BY <1>2, <1>3 DEF Numbered, RegsApart
  <2> QED
    BY <2>1, <2>2
<1>9. \A k \in Tickers : JobsOf(k)' = <<>> /\ TimersOf(k)' = <<>>
  BY <1>2 DEF JobsOf, TimersOf
<1>10. Behind'
  <2>1. \A x : OfThePast(x) => OfThePast(x)'
    BY <1>2, <1>3 DEF OfThePast
  <2> QED
    BY <1>2, <1>3, <1>9, <2>1 DEF Behind, SchedInv, history
<1>11. JobsApart' /\ TimersApart'
  BY <1>2, <1>3, <1>9 DEF JobsApart, TimersApart, SchedInv, history
<1> QED
  BY <1>2, <1>5, <1>8, <1>10, <1>11 DEF SchedInv, history

LEMMA LoadKeeps ==
    ASSUME SchedulerAssumption, SchedInv, LoadFromFile
    PROVE  SchedInv'
<1>1. Typed /\ Registries /\ Numbered /\ regs \in Nat /\ clock \in Nat /\ clock \in 0..MaxTime
      /\ timersAdded \in Nat
  BY TypedFacts DEF SchedInv, Typed
<1>2. PICK js, ts : js = saved.jobs /\ ts = saved.timers
  OBVIOUS
<1>3. js \in Seq(Jobs) /\ ts \in Seq(Timers) /\ Kempt(js, ts)
  <2>1. saved \in [state : {"absent", "cut", "whole"}, jobs : Seq(Jobs), timers : Seq(Timers)]
    BY <1>1 DEF Typed
  <2>2. saved.jobs \in Seq(Jobs) /\ saved.timers \in Seq(Timers)
    BY <2>1
  <2> QED
    BY <1>1, <1>2, <2>2 DEF Registries
<1>4. /\ jobs' = [i \in DOMAIN js |-> Reloaded(js[i], clock, regs + i)]
      /\ timers' = [i \in DOMAIN ts |-> [ts[i] EXCEPT !.reg = timersAdded + i]]
      /\ regs' = regs + Len(js) /\ timersAdded' = timersAdded + Len(ts)
      /\ UNCHANGED <<clock, adding, tick, saved, crashes>> /\ UNCHANGED history
  BY <1>2 DEF LoadFromFile
<1>5. PICK m \in Nat, n \in Nat : m = Len(js) /\ n = Len(ts) /\ DOMAIN js = 1..m /\ DOMAIN ts = 1..n
  BY <1>3
<1>6. ASSUME NEW i \in 1..m
      PROVE  /\ jobs'[i] \in Jobs /\ jobs'[i].id = js[i].id /\ jobs'[i].reg = regs + i
             /\ Timely(jobs'[i]) /\ regs + i \in Nat /\ regs + i > regs /\ regs + i <= regs'
  <2>1. regs + i \in Nat /\ regs + i > regs /\ regs + i <= regs'
    BY <1>1, <1>4, <1>5
  <2>2. PICK j, r : r = regs + i /\ j = [js[i] EXCEPT !.reg = r]
    OBVIOUS
  <2>3. js[i] \in Jobs /\ Timely(js[i])
    BY <1>3, <1>5 DEF Kempt
  <2>4. j \in Jobs /\ j.id = js[i].id /\ j.reg = r /\ j.enabled = js[i].enabled /\ j.next = js[i].next
    BY <2>1, <2>2, <2>3 DEF Jobs
  <2>5. jobs'[i] = IF j.enabled /\ j.next <= 0 THEN Rescheduled(j, clock) ELSE j
    BY <1>4, <1>5, <2>2 DEF Reloaded
  <2>6. CASE j.enabled /\ j.next <= 0
    <3>1. jobs'[i] = Rescheduled(j, clock)
      BY <2>5, <2>6
    <3>2. jobs'[i] \in Jobs /\ jobs'[i].id = j.id /\ jobs'[i].reg = j.reg /\ Timely(jobs'[i])
      BY <1>1, <2>4, <3>1, RescheduledFacts
    <3> QED
      BY <2>1, <2>2, <2>4, <3>2
  <2>7. CASE ~(j.enabled /\ j.next <= 0)
    <3>1. jobs'[i] = j
      BY <2>5, <2>7
    <3>2. Timely(j)
      BY <2>3, <2>4 DEF Timely
    <3> QED
      BY <2>1, <2>2, <2>4, <3>1, <3>2
  <2> QED
    BY <2>6, <2>7
<1>7. ASSUME NEW i \in 1..n
      PROVE  /\ timers'[i] \in Timers /\ timers'[i].id = ts[i].id /\ timers'[i].reg = timersAdded + i
             /\ timers'[i].due = ts[i].due
             /\ timersAdded + i \in Nat /\ timersAdded + i > timersAdded /\ timersAdded + i <= timersAdded'
  <2>1. timersAdded + i \in Nat /\ timersAdded + i > timersAdded /\ timersAdded + i <= timersAdded'
    BY <1>1, <1>4, <1>5
  <2>2. PICK r : r = timersAdded + i
    OBVIOUS
  <2>3. ts[i] \in Timers
    BY <1>3, <1>5
  <2>4. timers'[i] = [ts[i] EXCEPT !.reg = r]
    BY <1>4, <1>5, <2>2
  <2>5. timers'[i] \in Timers /\ timers'[i].id = ts[i].id /\ timers'[i].reg = r /\ timers'[i].due = ts[i].due
    BY <2>1, <2>2, <2>3, <2>4 DEF Timers
  <2> QED
    BY <2>1, <2>2, <2>5
<1>8. DOMAIN jobs' = 1..m /\ DOMAIN timers' = 1..n
  BY <1>4, <1>5
<1>9. jobs' \in Seq(Jobs) /\ timers' \in Seq(Timers)
  <2>1. jobs' \in [1..m -> Jobs]
    BY <1>4, <1>5, <1>6
  <2>2. timers' \in [1..n -> Timers]
    BY <1>4, <1>5, <1>7
  <2> QED
    BY <2>1, <2>2
<1>10. regs' \in Nat /\ timersAdded' \in Nat /\ regs <= regs' /\ timersAdded <= timersAdded' /\ clock <= clock'
  BY <1>1, <1>4, <1>5
<1>11. Typed'
  BY <1>1, <1>4, <1>9, <1>10 DEF history, Typed
<1>12. Registries'
  <2>1. OneEach(jobs') /\ OneEach(timers') /\ InOrder(timers') /\ \A i \in DOMAIN jobs' : Timely(jobs'[i])
    BY <1>3, <1>5, <1>6, <1>7, <1>8 DEF Kempt, OneEach, InOrder
  <2> QED
    BY <1>1, <1>4, <2>1 DEF Registries, Kempt, OneEach, InOrder, Timely
<1>13. Numbered'
  <2>1. RegsApart(jobs', regs')
    <3>1. \A i, j \in 1..m : regs + i = regs + j => i = j
      BY <1>1
    <3> QED
      BY <1>6, <1>8, <3>1 DEF RegsApart
  <2>2. RegsApart(timers', timersAdded')
    <3>1. \A i, j \in 1..n : timersAdded + i = timersAdded + j => i = j
      BY <1>1
    <3> QED
      BY <1>7, <1>8, <3>1 DEF RegsApart
  <2>3. ASSUME adding # NoJob
        PROVE  adding.reg <= regs' /\ \A i \in DOMAIN jobs' : jobs'[i].reg # adding.reg
    <3>1. adding.reg \in Nat /\ adding.reg <= regs
      BY <1>1, <2>3 DEF Typed, Jobs, Numbered
    <3>2. adding.reg <= regs' /\ \A i \in 1..m : regs + i # adding.reg
      BY <1>1, <1>10, <3>1
    <3> QED
      BY <1>6, <1>8, <3>2
  <2> QED
    BY <1>4, <2>1, <2>2, <2>3 DEF Numbered, RegsApart
<1>14. Behind' /\ JobsApart'
  <2>1. \A i \in DOMAIN jobs' : jobs'[i].reg > regs
    BY <1>6, <1>8
  <2> QED
    BY <1>4, <1>10, <1>11, <2>1, JobsQuiet DEF history, SchedInv
<1>15. TimersApart'
  <2>1. \A i \in DOMAIN timers' : timers'[i].reg > timersAdded
    BY <1>7, <1>8
  <2> QED
    BY <1>4, <1>10, <1>11, <2>1, TimersQuiet DEF history, SchedInv
<1> QED
  BY <1>4, <1>11, <1>12, <1>13, <1>14, <1>15 DEF SchedInv, history

LEMMA TookFacts ==
    ASSUME Typed, NEW k \in Tickers, NEW j \in Seq(Occasions), NEW t \in Seq(Timers),
           tick' = [tick EXCEPT ![k] = Took(j, t)]
    PROVE  /\ tick' \in [Tickers -> {Idle} \cup Deliveries]
           /\ JobsOf(k)' = j /\ TimersOf(k)' = t
           /\ \A l \in Tickers : l # k => JobsOf(l)' = JobsOf(l) /\ TimersOf(l)' = TimersOf(l)
<1>1. tick \in [Tickers -> {Idle} \cup Deliveries]
  BY DEF Typed
<1>2. tick'[k] = Took(j, t) /\ \A l \in Tickers : l # k => tick'[l] = tick[l]
  BY <1>1
<1>3. CASE j = <<>> /\ t = <<>>
  <2>1. Took(j, t) = Idle
    BY <1>3 DEF Took
  <2> QED
    BY <1>1, <1>2, <1>3, <2>1 DEF JobsOf, TimersOf
<1>4. CASE ~(j = <<>> /\ t = <<>>)
  <2>1. Took(j, t) = [at |-> "deliver", jobs |-> j, timers |-> t]
    BY <1>4 DEF Took
  <2>2. PICK d : d = [at |-> "deliver", jobs |-> j, timers |-> t]
    OBVIOUS
  <2>3. d \in Deliveries /\ d.jobs = j /\ d.timers = t /\ d.at = "deliver"
    BY <1>4, <2>2 DEF Deliveries
  <2>4. d # Idle
    BY <2>3 DEF Idle
  <2>5. tick' \in [Tickers -> {Idle} \cup Deliveries]
    BY <1>1, <2>1, <2>2, <2>3
  <2> QED
    BY <1>2, <2>1, <2>2, <2>3, <2>4, <2>5 DEF JobsOf, TimersOf
<1> QED
  BY <1>3, <1>4

\* The jobs a tick leaves.
LEMMA JobsLeft ==
    ASSUME SchedulerAssumption, Typed, NEW k \in Tickers, NEW now \in Past, Take(k, now)
    PROVE  /\ now \in Nat /\ now \in 0..MaxTime /\ now <= clock
           /\ jobs' \in Seq(Jobs) /\ DOMAIN jobs' = DOMAIN jobs
           /\ \A i \in DOMAIN jobs :
                 /\ jobs'[i].id = jobs[i].id /\ jobs'[i].reg = jobs[i].reg
                 /\ ~IsDue(jobs[i], now) => jobs'[i] = jobs[i]
                 /\ IsDue(jobs[i], now) => Timely(jobs'[i])
                 /\ IsDue(jobs[i], now) /\ jobs'[i].enabled => jobs'[i].next > now
<1>1. now \in 0..MaxTime /\ now \in Nat /\ now <= clock
  <2>1. now \in 0..MaxTime /\ now <= clock /\ MaxTime \in Nat
    BY DEF Past, SchedulerAssumption
  <2> QED
    BY <2>1
<1>2. jobs \in Seq(Jobs) /\ DOMAIN jobs = 1..Len(jobs) /\ Len(jobs) \in Nat /\ \A i \in DOMAIN jobs : jobs[i] \in Jobs
  BY TypedFacts DEF Typed
<1>3. jobs' = [i \in DOMAIN jobs |-> IF IsDue(jobs[i], now) THEN Rescheduled(jobs[i], now) ELSE jobs[i]]
  BY DEF Take, AfterFiring
<1>4. ASSUME NEW i \in DOMAIN jobs
      PROVE  /\ jobs'[i] \in Jobs /\ jobs'[i].id = jobs[i].id /\ jobs'[i].reg = jobs[i].reg
             /\ ~IsDue(jobs[i], now) => jobs'[i] = jobs[i]
             /\ IsDue(jobs[i], now) => Timely(jobs'[i])
             /\ IsDue(jobs[i], now) /\ jobs'[i].enabled => jobs'[i].next > now
  <2>1. CASE IsDue(jobs[i], now)
    <3>1. jobs'[i] = Rescheduled(jobs[i], now) /\ jobs[i] \in Jobs
      BY <1>2, <1>3, <2>1
    <3> QED
      BY <1>1, <2>1, <3>1, RescheduledFacts
  <2>2. CASE ~IsDue(jobs[i], now)
    BY <1>2, <1>3, <2>2
  <2> QED
    BY <2>1, <2>2
<1>5. DOMAIN jobs' = DOMAIN jobs
  BY <1>3
<1>6. jobs' \in Seq(Jobs)
  <2>1. PICK m \in Nat : m = Len(jobs) /\ DOMAIN jobs = 1..m
    BY <1>2
  <2>2. jobs' \in [1..m -> Jobs]
    BY <1>3, <1>4, <2>1
  <2> QED
    BY <2>2
<1> QED
  BY <1>1, <1>4, <1>5, <1>6

\* What a tick takes of the jobs is new, and of the past.
LEMMA TakenJobs ==
    ASSUME SchedulerAssumption, SchedInv, NEW k \in Tickers, NEW now \in Past, Take(k, now),
           NEW m \in DOMAIN DueJobs(now), NEW x, x = DueJobs(now)[m]
    PROVE  OfThePast(x)' /\ \A y \in Occasions : OfThePast(y) => x # y
<1>1. Typed /\ Numbered /\ jobs \in Seq(Jobs) /\ RegsApart(jobs, regs) /\ regs \in Nat /\ clock \in Nat
  BY TypedFacts DEF SchedInv, Typed, Numbered
<1>2. now \in Nat /\ now \in 0..MaxTime /\ now <= clock
  BY <1>1, JobsLeft
<1>4. PICK i, n : Stems(now, x, i, n)
  BY <1>1, <1>2, DueJobsFacts
<1>5. i \in DOMAIN jobs /\ Due(jobs[i], now) /\ n \in DOMAIN Missed(jobs[i], now)
      /\ x.reg = jobs[i].reg /\ x.at = Missed(jobs[i], now)[n]
  BY <1>4 DEF Stems
<1>6. x.at \in Nat /\ x.at <= now /\ jobs[i].next <= x.at
  BY <1>5, RunFacts
<1>7. jobs[i] \in Jobs /\ IsDue(jobs[i], now) /\ jobs[i].enabled /\ jobs[i].next \in Nat
  <2>1. jobs[i] \in Jobs /\ IsDue(jobs[i], now)
    BY <1>5 DEF Due
  <2> QED
    BY <2>1 DEF IsDue, Jobs
<1>8. UNCHANGED <<clock, adding, saved, regs, timersAdded, crashes>>
  BY DEF Take
<1>9. OfThePast(x)'
  <2>1. x.reg <= regs'
    BY <1>1, <1>5, <1>8 DEF RegsApart
  <2>2. x.at <= clock'
    BY <1>1, <1>2, <1>6, <1>8
  <2>3. adding' # NoJob => adding'.reg # x.reg
    BY <1>1, <1>5, <1>8 DEF Numbered
  <2>4. ASSUME NEW j \in DOMAIN jobs', jobs'[j].reg = x.reg, jobs'[j].enabled
        PROVE  x.at < jobs'[j].next
    <3>1. j \in DOMAIN jobs /\ jobs'[j].reg = jobs[j].reg
      BY <1>1, <2>4, JobsLeft
    <3>2. j = i
      BY <1>1, <1>5, <2>4, <3>1 DEF RegsApart
    <3>3. jobs'[i].next > now /\ jobs'[i] \in Jobs
      BY <1>1, <1>5, <1>7, <2>4, <3>2, JobsLeft
    <3>4. jobs'[i].next \in Nat
      BY <3>3 DEF Jobs
    <3> QED
      BY <1>2, <1>6, <3>2, <3>3, <3>4
  <2> QED
    BY <2>1, <2>2, <2>3, <2>4 DEF OfThePast
<1>10. ASSUME NEW y \in Occasions, OfThePast(y) PROVE x # y
  <2>1. SUFFICES ASSUME x = y PROVE FALSE
    OBVIOUS
  <2>2. y.at < jobs[i].next /\ y.at \in Nat
    BY <1>5, <1>7, <1>10, <2>1 DEF OfThePast, Occasions
  <2> QED
    BY <1>6, <1>7, <2>1, <2>2
<1> QED
  BY <1>9, <1>10

LEMMA TakeBehind ==
    ASSUME SchedulerAssumption, SchedInv, NEW k \in Tickers, NEW now \in Past, Take(k, now),
           NEW x \in Occasions, OfThePast(x)
    PROVE  OfThePast(x)'
<1>1. Typed /\ clock \in Nat
  BY TypedFacts DEF SchedInv
<1>2. UNCHANGED <<clock, adding, saved, regs, timersAdded, crashes>>
  BY DEF Take
<1>3. ASSUME NEW i \in DOMAIN jobs', jobs'[i].reg = x.reg, jobs'[i].enabled
      PROVE  x.at < jobs'[i].next
  <2>1. i \in DOMAIN jobs /\ jobs'[i].reg = jobs[i].reg /\ jobs[i] \in Jobs /\ jobs'[i] \in Jobs
    BY <1>1, <1>3, JobsLeft, TypedFacts
  <2>2. CASE ~IsDue(jobs[i], now)
    <3>1. jobs'[i] = jobs[i]
      BY <1>1, <2>1, <2>2, JobsLeft
    <3> QED
      BY <1>3, <2>1, <3>1 DEF OfThePast
  <2>3. CASE IsDue(jobs[i], now)
    <3>1. x.at < jobs[i].next
      BY <1>3, <2>1, <2>3 DEF OfThePast, IsDue
    <3>2. jobs[i].next <= now /\ jobs[i].next \in Nat /\ jobs'[i].next \in Nat /\ x.at \in Nat
      BY <2>1, <2>3 DEF IsDue, Jobs, Occasions
    <3>3. jobs'[i].next > now /\ now \in Nat
      BY <1>1, <1>3, <2>1, <2>3, JobsLeft
    <3> QED
      BY <3>1, <3>2, <3>3
  <2> QED
    BY <2>2, <2>3
<1> QED
  BY <1>2, <1>3 DEF OfThePast

LEMMA TakeKeeps ==
    ASSUME SchedulerAssumption, SchedInv, NEW k \in Tickers, NEW now \in Past, Take(k, now)
    PROVE  SchedInv'
<1>1. Typed /\ Registries /\ Numbered /\ Behind /\ JobsApart /\ TimersApart /\ ~again
      /\ timers \in Seq(Timers) /\ jobs \in Seq(Jobs) /\ regs \in Nat /\ timersAdded \in Nat
  BY DEF SchedInv, Typed
<1>2. now \in Nat /\ now \in 0..MaxTime /\ now <= clock
  BY <1>1, JobsLeft
<1>3. PICK j, t : j = DueJobs(now) /\ t = DueTimers(now)
  OBVIOUS
<1>4. /\ tick[k] = Idle /\ tick' = [tick EXCEPT ![k] = Took(j, t)]
      /\ timers' = Remaining(now)
      /\ UNCHANGED <<clock, adding, saved, regs, timersAdded, crashes>> /\ UNCHANGED history
  BY <1>3 DEF Take
<1>5. j \in Seq(Occasions) /\ \A l, m \in DOMAIN j : j[l] = j[m] => l = m
  BY <1>1, <1>2, <1>3, DueJobsFacts DEF Numbered
<1>6. /\ t \in Seq(Timers) /\ RegsApart(t, timersAdded)
      /\ \A i \in DOMAIN t : t[i].due <= now /\ \E e \in DOMAIN timers : t[i] = timers[e]
  <2>1. PICK S : S = {y \in ToSet(timers) : y.due <= now} /\ t = Kept(timers, S)
    BY <1>3 DEF DueTimers
  <2>2. t \in Seq(Timers)
    BY <1>1, <2>1, KeptFacts
  <2>3. RegsApart(t, timersAdded)
    BY <1>1, <2>1, KeptFacts DEF Numbered
  <2>4. \A i \in DOMAIN t : t[i] \in S /\ \E e \in DOMAIN timers : t[i] = timers[e]
    <3>1. \A i \in DOMAIN t : t[i] \in S
      BY <1>1, <2>1, KeptFacts
    <3>2. \A i \in DOMAIN t : \E e \in DOMAIN timers : t[i] = timers[e]
      <4>1. t = Kept(timers, S) /\ timers \in Seq(Timers)
        BY <1>1, <2>1
      <4> QED
        BY <4>1, KeptFacts
    <3> QED
      BY <3>1, <3>2
  <2> QED
    BY <2>1, <2>2, <2>3, <2>4
<1>7. /\ timers' \in Seq(Timers) /\ RegsApart(timers', timersAdded) /\ OneEach(timers') /\ InOrder(timers')
      /\ \A i \in DOMAIN timers' : timers'[i].due > now /\ \E e \in DOMAIN timers : timers'[i] = timers[e]
  <2>1. PICK S, l : S = {y \in ToSet(timers) : y.due > now} /\ l = Kept(timers, S) /\ l = timers'
    BY <1>4 DEF Remaining
  <2>2. l \in Seq(Timers)
    BY <1>1, <2>1, KeptFacts
  <2>3. RegsApart(l, timersAdded)
    BY <1>1, <2>1, KeptFacts DEF Numbered
  <2>4. \A i \in DOMAIN l : l[i] \in S /\ \E e \in DOMAIN timers : l[i] = timers[e]
    <3>1. \A i \in DOMAIN l : l[i] \in S
      BY <1>1, <2>1, KeptFacts
    <3>2. \A i \in DOMAIN l : \E e \in DOMAIN timers : l[i] = timers[e]
      <4>1. l = Kept(timers, S) /\ timers \in Seq(Timers)
        BY <1>1, <2>1
      <4> QED
        BY <4>1, KeptFacts
    <3> QED
      BY <3>1, <3>2
  <2>5. OneEach(l)
    BY <1>1, <2>1, KeptFacts DEF Registries, Kempt
  <2>6. InOrder(l)
    BY <1>1, <2>1, KeptFacts DEF Registries, Kempt
  <2> QED
    BY <2>1, <2>2, <2>3, <2>4, <2>5, <2>6
<1>8. /\ tick' \in [Tickers -> {Idle} \cup Deliveries]
      /\ JobsOf(k)' = j /\ TimersOf(k)' = t
      /\ \A l \in Tickers : l # k => JobsOf(l)' = JobsOf(l) /\ TimersOf(l)' = TimersOf(l)
  BY <1>1, <1>4, <1>5, <1>6, TookFacts
<1>9. jobs' \in Seq(Jobs)
  BY <1>1, JobsLeft
<1>10. Typed'
  BY <1>1, <1>4, <1>7, <1>8, <1>9 DEF history, Typed
<1>11. Registries'
  <2>1. OneEach(jobs')
    BY <1>1, JobsLeft DEF Registries, Kempt, OneEach
  <2>2. ASSUME NEW i \in DOMAIN jobs' PROVE Timely(jobs'[i])
    <3>1. i \in DOMAIN jobs /\ Timely(jobs[i])
      BY <1>1, <2>2, JobsLeft DEF Registries, Kempt
    <3>2. jobs'[i] = jobs[i] \/ Timely(jobs'[i])
      BY <1>1, <3>1, JobsLeft
    <3> QED
      BY <3>1, <3>2
  <2> QED
    BY <1>1, <1>4, <1>7, <2>1, <2>2 DEF Registries, Kempt, OneEach, InOrder, Timely
<1>12. Numbered'
  <2>1. RegsApart(jobs', regs)
    BY <1>1, JobsLeft DEF Numbered, RegsApart
  <2>2. \A i \in DOMAIN jobs' : i \in DOMAIN jobs /\ jobs'[i].reg = jobs[i].reg
    BY <1>1, JobsLeft
  <2> QED
    BY <1>1, <1>4, <1>7, <2>1, <2>2 DEF Numbered, RegsApart
<1>13. \A m \in DOMAIN j : OfThePast(j[m])' /\ \A y \in Occasions : OfThePast(y) => j[m] # y
  <2> SUFFICES ASSUME NEW m \in DOMAIN j
               PROVE  OfThePast(j[m])' /\ \A y \in Occasions : OfThePast(y) => j[m] # y
    OBVIOUS
  <2>1. PICK x : x = j[m]
    OBVIOUS
  <2>2. m \in DOMAIN DueJobs(now) /\ x = DueJobs(now)[m]
    BY <1>3, <2>1
  <2>3. OfThePast(x)' /\ \A y \in Occasions : OfThePast(y) => x # y
    BY <2>2, TakenJobs
  <2> QED
    BY <2>1, <2>3
<1>14. \A l \in Tickers : JobsOf(l) \in Seq(Occasions) /\ \A i \in DOMAIN JobsOf(l) : JobsOf(l)[i] \in Occasions
  BY <1>1, TypedFacts
<1>15. \A l \in Tickers : \A i \in DOMAIN JobsOf(l) : OfThePast(JobsOf(l)[i])
  BY <1>1 DEF Behind
<1>16. fired \subseteq Occasions /\ fired' = fired /\ expired' = expired /\ again' = again
  BY <1>1, <1>4 DEF Typed, history
<1>17. Behind'
  <2>1. \A x \in fired' : OfThePast(x)'
    BY <1>1, <1>16, TakeBehind DEF Behind
  <2>2. ASSUME NEW l \in Tickers, NEW i \in DOMAIN JobsOf(l)' PROVE OfThePast(JobsOf(l)[i])'
    <3>1. CASE l = k
      BY <1>8, <1>13, <2>2, <3>1 DEF OfThePast
    <3>2. CASE l # k
      <4>1. i \in DOMAIN JobsOf(l) /\ JobsOf(l)' = JobsOf(l)
        BY <1>8, <2>2, <3>2
      <4>2. PICK x \in Occasions : x = JobsOf(l)[i] /\ OfThePast(x)
        BY <1>14, <1>15, <4>1
      <4>3. OfThePast(x)'
        BY <4>2, TakeBehind
      <4> QED
        BY <4>1, <4>2, <4>3 DEF OfThePast
    <3> QED
      BY <3>1, <3>2
  <2> QED
    BY <2>1, <2>2 DEF Behind
<1>18. JobsApart'
  <2>1. ASSUME NEW l \in Tickers, NEW i \in DOMAIN JobsOf(l)'
        PROVE  JobsOf(l)'[i] \notin fired
    <3>1. CASE l = k
      BY <1>1, <1>8, <1>13, <1>16, <2>1, <3>1 DEF Behind
    <3>2. CASE l # k
      BY <1>1, <1>8, <2>1, <3>2 DEF JobsApart
    <3> QED
      BY <3>1, <3>2
  <2>2. ASSUME NEW l \in Tickers, NEW i \in DOMAIN JobsOf(l)', NEW m \in Tickers, NEW e \in DOMAIN JobsOf(m)',
               JobsOf(l)'[i] = JobsOf(m)'[e]
        PROVE  l = m /\ i = e
    <3>1. CASE l = k /\ m = k
      BY <1>5, <1>8, <2>2, <3>1
    <3>2. CASE l = k /\ m # k
      <4>1. i \in DOMAIN j /\ j[i] = JobsOf(m)[e] /\ e \in DOMAIN JobsOf(m)
        BY <1>8, <2>2, <3>2
      <4> QED
        BY <1>13, <1>14, <1>15, <4>1
    <3>3. CASE l # k /\ m = k
      <4>1. e \in DOMAIN j /\ j[e] = JobsOf(l)[i] /\ i \in DOMAIN JobsOf(l)
        BY <1>8, <2>2, <3>3
      <4> QED
        BY <1>13, <1>14, <1>15, <4>1
    <3>4. CASE l # k /\ m # k
      BY <1>1, <1>8, <2>2, <3>4 DEF JobsApart
    <3> QED
      BY <3>1, <3>2, <3>3, <3>4
  <2> QED
    BY <1>16, <2>1, <2>2 DEF JobsApart
<1>19. TimersApart'
  <2>1. \A l \in Tickers : TimersOf(l) \in Seq(Timers) /\ \A i \in DOMAIN TimersOf(l) : TimersOf(l)[i] \in Timers
    BY <1>1, TypedFacts
  <2>2. \A r \in expired' : r <= timersAdded' /\ \A i \in DOMAIN timers' : timers'[i].reg # r
    BY <1>1, <1>4, <1>7, <1>16 DEF TimersApart
  <2>3. \A i \in DOMAIN t : \A r \in expired : t[i].reg # r
    BY <1>1, <1>6 DEF TimersApart
  <2>4. \A i \in DOMAIN t : \A l \in Tickers : \A e \in DOMAIN TimersOf(l) : t[i].reg # TimersOf(l)[e].reg
    BY <1>1, <1>6 DEF TimersApart
  <2>5. ASSUME NEW i \in DOMAIN t, NEW e \in DOMAIN timers' PROVE timers'[e].reg # t[i].reg
    <3>1. PICK a \in DOMAIN timers : t[i] = timers[a] /\ timers[a].due <= now
      BY <1>6
    <3>2. PICK b \in DOMAIN timers : timers'[e] = timers[b] /\ timers[b].due > now
      BY <1>7
    <3>3. timers[a] \in Timers /\ timers[b] \in Timers
      BY <1>1
    <3>4. timers[a].due \in Nat
      BY <3>3 DEF Timers, SchedulerAssumption
    <3>5. a # b
      BY <1>2, <3>1, <3>2, <3>4
    <3> QED
      BY <1>1, <3>1, <3>2, <3>5 DEF Numbered, RegsApart
  <2>6. ASSUME NEW l \in Tickers, NEW i \in DOMAIN TimersOf(l)'
        PROVE  /\ TimersOf(l)'[i].reg <= timersAdded /\ TimersOf(l)'[i].reg \notin expired
               /\ \A e \in DOMAIN timers' : timers'[e].reg # TimersOf(l)'[i].reg
    <3>1. CASE l = k
      BY <1>6, <1>8, <2>3, <2>5, <2>6, <3>1 DEF RegsApart
    <3>2. CASE l # k
      <4>1. i \in DOMAIN TimersOf(l) /\ TimersOf(l)' = TimersOf(l)
        BY <1>8, <2>6, <3>2
      <4>2. /\ TimersOf(l)[i].reg <= timersAdded /\ TimersOf(l)[i].reg \notin expired
            /\ \A e \in DOMAIN timers : timers[e].reg # TimersOf(l)[i].reg
        BY <1>1, <4>1 DEF TimersApart
      <4> QED
        BY <1>7, <4>1, <4>2
    <3> QED
      BY <3>1, <3>2
  <2>7. ASSUME NEW l \in Tickers, NEW i \in DOMAIN TimersOf(l)', NEW m \in Tickers, NEW e \in DOMAIN TimersOf(m)',
               TimersOf(l)'[i].reg = TimersOf(m)'[e].reg
        PROVE  l = m /\ i = e
    <3>1. CASE l = k /\ m = k
      BY <1>6, <1>8, <2>7, <3>1 DEF RegsApart
    <3>2. CASE l = k /\ m # k
      BY <1>8, <2>4, <2>7, <3>2
    <3>3. CASE l # k /\ m = k
      BY <1>8, <2>4, <2>7, <3>3
    <3>4. CASE l # k /\ m # k
      BY <1>1, <1>8, <2>7, <3>4 DEF TimersApart
    <3> QED
      BY <3>1, <3>2, <3>3, <3>4
  <2> QED
    BY <1>4, <1>16, <2>2, <2>6, <2>7 DEF TimersApart
<1> QED
  BY <1>1, <1>10, <1>11, <1>12, <1>16, <1>17, <1>18, <1>19 DEF SchedInv

LEMMA DeliverKeeps ==
    ASSUME SchedulerAssumption, SchedInv, NEW k \in Tickers, Deliver(k)
    PROVE  SchedInv'
<1>1. Typed /\ Registries /\ Numbered /\ Behind /\ JobsApart /\ TimersApart /\ ~again
      /\ timers \in Seq(Timers) /\ jobs \in Seq(Jobs) /\ regs \in Nat /\ timersAdded \in Nat
  BY DEF SchedInv, Typed
<1>2. tick[k] # Idle /\ tick[k] \in Deliveries
  BY <1>1 DEF Deliver, Typed
<1>3. PICK j, t : j = tick[k].jobs /\ t = tick[k].timers
  OBVIOUS
<1>4. j \in Seq(Occasions) /\ t \in Seq(Timers) /\ (j # <<>> \/ t # <<>>)
  BY <1>2, <1>3 DEF Deliveries
<1>5. JobsOf(k) = j /\ TimersOf(k) = t
  BY <1>2, <1>3 DEF JobsOf, TimersOf
<1>6. UNCHANGED <<clock, jobs, timers, adding, saved, regs, timersAdded, crashes>>
  BY DEF Deliver
<1>7. \A x : OfThePast(x) => OfThePast(x)'
  BY <1>6 DEF OfThePast
<1>8. Registries' /\ Numbered'
  BY <1>1, <1>6 DEF Registries, Kempt, OneEach, InOrder, Timely, Numbered, RegsApart
<1>9. CASE j # <<>>
  <2>1. /\ tick' = [tick EXCEPT ![k] = Took(Tail(j), t)]
        /\ fired' = fired \cup {Head(j)} /\ again' = (again \/ Head(j) \in fired) /\ expired' = expired
    BY <1>3, <1>9 DEF Deliver
  <2>2. PICK n \in Nat : n = Len(j) /\ n > 0 /\ DOMAIN j = 1..n
    BY <1>4, <1>9
  <2>3. /\ Head(j) = j[1] /\ Head(j) \in Occasions /\ Tail(j) \in Seq(Occasions) /\ DOMAIN Tail(j) = 1..(n - 1)
        /\ \A i \in 1..(n - 1) : Tail(j)[i] = j[i + 1]
    BY <1>4, <1>9, <2>2
  <2>4. /\ 1 \in DOMAIN j
        /\ \A i \in DOMAIN Tail(j) : i + 1 \in DOMAIN j /\ i + 1 # 1 /\ Tail(j)[i] = j[i + 1]
    BY <2>2, <2>3
  <2>5. \A i, e \in DOMAIN Tail(j) : i + 1 = e + 1 => i = e
    BY <2>3
  <2>6. /\ tick' \in [Tickers -> {Idle} \cup Deliveries]
        /\ JobsOf(k)' = Tail(j) /\ TimersOf(k)' = t
        /\ \A l \in Tickers : l # k => JobsOf(l)' = JobsOf(l) /\ TimersOf(l)' = TimersOf(l)
    BY <1>1, <1>4, <2>1, <2>3, TookFacts
  <2>7. Head(j) \notin fired /\ again' = FALSE
    <3>1. Head(j) \notin fired
      BY <1>1, <1>5, <2>3, <2>4 DEF JobsApart
    <3>2. (again \/ Head(j) \in fired) = FALSE
      BY <1>1, <3>1
    <3> QED
      BY <2>1, <3>1, <3>2
  <2>8. Typed'
    BY <1>1, <1>6, <2>1, <2>3, <2>6, <2>7 DEF Typed
  \* Where an occurrence still to be delivered was before.
  <2>9. PICK was : was = [l \in Tickers |-> [i \in DOMAIN JobsOf(l)' |-> IF l = k THEN i + 1 ELSE i]]
    OBVIOUS
  <2>10. ASSUME NEW l \in Tickers, NEW i \in DOMAIN JobsOf(l)'
         PROVE  /\ was[l][i] \in DOMAIN JobsOf(l) /\ JobsOf(l)'[i] = JobsOf(l)[was[l][i]]
                /\ l = k => was[l][i] # 1
                /\ \A e \in DOMAIN JobsOf(l)' : was[l][i] = was[l][e] => i = e
    <3>1. CASE l = k
      BY <1>5, <2>4, <2>5, <2>6, <2>9, <2>10, <3>1
    <3>2. CASE l # k
      BY <2>6, <2>9, <2>10, <3>2
    <3> QED
      BY <3>1, <3>2
  <2>11. Behind'
    <3>1. \A x \in fired' : OfThePast(x)'
      BY <1>1, <1>5, <1>7, <2>1, <2>3, <2>4 DEF Behind
    <3>2. ASSUME NEW l \in Tickers, NEW i \in DOMAIN JobsOf(l)' PROVE OfThePast(JobsOf(l)[i])'
      <4>1. PICK x : x = JobsOf(l)[was[l][i]] /\ x = JobsOf(l)'[i] /\ was[l][i] \in DOMAIN JobsOf(l)
        BY <2>10, <3>2
      <4>2. OfThePast(x)'
        BY <1>1, <1>7, <4>1 DEF Behind
      <4> QED
        BY <4>1, <4>2 DEF OfThePast
    <3> QED
      BY <3>1, <3>2 DEF Behind
  <2>12. JobsApart'
    <3>1. ASSUME NEW l \in Tickers, NEW i \in DOMAIN JobsOf(l)' PROVE JobsOf(l)'[i] \notin fired'
      <4>1. was[l][i] \in DOMAIN JobsOf(l) /\ JobsOf(l)'[i] = JobsOf(l)[was[l][i]] /\ (l = k => was[l][i] # 1)
        BY <2>10, <3>1
      <4>2. JobsOf(l)[was[l][i]] \notin fired
        BY <1>1, <4>1 DEF JobsApart
      <4>3. JobsOf(l)[was[l][i]] # JobsOf(k)[1] /\ Head(j) = JobsOf(k)[1]
        BY <1>1, <1>5, <2>3, <2>4, <4>1 DEF JobsApart
      <4> QED
        BY <2>1, <4>1, <4>2, <4>3
    <3>2. ASSUME NEW l \in Tickers, NEW i \in DOMAIN JobsOf(l)', NEW m \in Tickers, NEW e \in DOMAIN JobsOf(m)',
                 JobsOf(l)'[i] = JobsOf(m)'[e]
          PROVE  l = m /\ i = e
      <4>1. was[l][i] \in DOMAIN JobsOf(l) /\ JobsOf(l)'[i] = JobsOf(l)[was[l][i]]
        BY <2>10, <3>2
      <4>2. was[m][e] \in DOMAIN JobsOf(m) /\ JobsOf(m)'[e] = JobsOf(m)[was[m][e]]
        BY <2>10, <3>2
      <4>3. l = m /\ was[l][i] = was[m][e]
        <5>1. PICK a, b : a = was[l][i] /\ b = was[m][e]
          OBVIOUS
        <5>2. a \in DOMAIN JobsOf(l) /\ b \in DOMAIN JobsOf(m) /\ JobsOf(l)[a] = JobsOf(m)[b]
          BY <3>2, <4>1, <4>2, <5>1
        <5>3. l = m /\ a = b
          BY <1>1, <5>2 DEF JobsApart
        <5> QED
          BY <5>1, <5>3
      <4> QED
        BY <2>10, <3>2, <4>3
    <3> QED
      BY <3>1, <3>2 DEF JobsApart
  <2>13. TimersApart'
    <3>1. \A l \in Tickers : TimersOf(l)' = TimersOf(l)
      BY <1>5, <2>6
    <3> QED
      BY <1>1, <1>6, <2>1, <3>1 DEF TimersApart
  <2> QED
    BY <1>1, <1>8, <2>7, <2>8, <2>11, <2>12, <2>13 DEF SchedInv
<1>10. CASE j = <<>>
  <2>1. /\ tick' = [tick EXCEPT ![k] = Took(j, Tail(t))] /\ t # <<>>
        /\ expired' = expired \cup {Head(t).reg} /\ again' = (again \/ Head(t).reg \in expired) /\ fired' = fired
    BY <1>3, <1>4, <1>10 DEF Deliver
  <2>2. PICK n \in Nat : n = Len(t) /\ n > 0 /\ DOMAIN t = 1..n
    BY <1>4, <2>1
  <2>3. /\ Head(t) = t[1] /\ Head(t) \in Timers /\ Tail(t) \in Seq(Timers) /\ DOMAIN Tail(t) = 1..(n - 1)
        /\ \A i \in 1..(n - 1) : Tail(t)[i] = t[i + 1]
    BY <1>4, <2>1, <2>2
  <2>4. /\ 1 \in DOMAIN t
        /\ \A i \in DOMAIN Tail(t) : i + 1 \in DOMAIN t /\ i + 1 # 1 /\ Tail(t)[i] = t[i + 1]
    BY <2>2, <2>3
  <2>5. \A i, e \in DOMAIN Tail(t) : i + 1 = e + 1 => i = e
    BY <2>3
  <2>6. /\ tick' \in [Tickers -> {Idle} \cup Deliveries]
        /\ JobsOf(k)' = j /\ TimersOf(k)' = Tail(t)
        /\ \A l \in Tickers : l # k => JobsOf(l)' = JobsOf(l) /\ TimersOf(l)' = TimersOf(l)
    BY <1>1, <1>4, <2>1, <2>3, TookFacts
  <2>7. Head(t).reg \notin expired /\ again' = FALSE /\ Head(t).reg \in Nat
    <3>1. Head(t).reg \notin expired /\ Head(t).reg \in Nat
      BY <1>1, <1>5, <2>3, <2>4 DEF TimersApart, Timers
    <3>2. (again \/ Head(t).reg \in expired) = FALSE
      BY <1>1, <3>1
    <3> QED
      BY <2>1, <3>1, <3>2
  <2>8. Typed'
    BY <1>1, <1>6, <2>1, <2>6, <2>7 DEF Typed
  <2>9. PICK was : was = [l \in Tickers |-> [i \in DOMAIN TimersOf(l)' |-> IF l = k THEN i + 1 ELSE i]]
    OBVIOUS
  <2>10. ASSUME NEW l \in Tickers, NEW i \in DOMAIN TimersOf(l)'
         PROVE  /\ was[l][i] \in DOMAIN TimersOf(l) /\ TimersOf(l)'[i] = TimersOf(l)[was[l][i]]
                /\ l = k => was[l][i] # 1
                /\ \A e \in DOMAIN TimersOf(l)' : was[l][i] = was[l][e] => i = e
    <3>1. CASE l = k
      BY <1>5, <2>4, <2>5, <2>6, <2>9, <2>10, <3>1
    <3>2. CASE l # k
      BY <2>6, <2>9, <2>10, <3>2
    <3> QED
      BY <3>1, <3>2
  <2>11. Behind' /\ JobsApart'
    <3>1. \A l \in Tickers : JobsOf(l)' = JobsOf(l)
      BY <1>5, <2>6
    <3>2. JobsApart'
      BY <1>1, <2>1, <3>1 DEF JobsApart
    <3>3. \A x \in fired' : OfThePast(x)'
      BY <1>1, <1>7, <2>1 DEF Behind
    <3>4. ASSUME NEW l \in Tickers, NEW i \in DOMAIN JobsOf(l)' PROVE OfThePast(JobsOf(l)[i])'
      <4>1. PICK x : x = JobsOf(l)[i] /\ x = JobsOf(l)'[i] /\ i \in DOMAIN JobsOf(l)
        BY <3>1, <3>4
      <4>2. OfThePast(x)'
        BY <1>1, <1>7, <4>1 DEF Behind
      <4> QED
        BY <4>1, <4>2 DEF OfThePast
    <3> QED
      BY <3>2, <3>3, <3>4 DEF Behind
  <2>12. ASSUME NEW l \in Tickers, NEW i \in DOMAIN TimersOf(l)'
         PROVE  /\ TimersOf(l)'[i].reg <= timersAdded /\ TimersOf(l)'[i].reg \notin expired'
                /\ \A e \in DOMAIN timers : timers[e].reg # TimersOf(l)'[i].reg
    <3>1. was[l][i] \in DOMAIN TimersOf(l) /\ TimersOf(l)'[i] = TimersOf(l)[was[l][i]] /\ (l = k => was[l][i] # 1)
      BY <2>10, <2>12
    <3>2. /\ TimersOf(l)'[i].reg <= timersAdded /\ TimersOf(l)'[i].reg \notin expired
          /\ \A e \in DOMAIN timers : timers[e].reg # TimersOf(l)'[i].reg
      BY <1>1, <3>1 DEF TimersApart
    <3>3. TimersOf(l)[was[l][i]].reg # TimersOf(k)[1].reg /\ Head(t) = TimersOf(k)[1]
      BY <1>1, <1>5, <2>3, <2>4, <3>1 DEF TimersApart
    <3> QED
      BY <2>1, <3>1, <3>2, <3>3
  <2>13. ASSUME NEW l \in Tickers, NEW i \in DOMAIN TimersOf(l)', NEW m \in Tickers, NEW e \in DOMAIN TimersOf(m)',
                TimersOf(l)'[i].reg = TimersOf(m)'[e].reg
         PROVE  l = m /\ i = e
    <3>1. was[l][i] \in DOMAIN TimersOf(l) /\ TimersOf(l)'[i] = TimersOf(l)[was[l][i]]
      BY <2>10, <2>13
    <3>2. was[m][e] \in DOMAIN TimersOf(m) /\ TimersOf(m)'[e] = TimersOf(m)[was[m][e]]
      BY <2>10, <2>13
    <3>3. l = m /\ was[l][i] = was[m][e]
      BY <1>1, <2>13, <3>1, <3>2 DEF TimersApart
    <3> QED
      BY <2>10, <2>13, <3>3
  <2>14. \A r \in expired' : r <= timersAdded /\ \A i \in DOMAIN timers : timers[i].reg # r
    BY <1>1, <1>5, <2>1, <2>3, <2>4 DEF TimersApart
  <2>15. TimersApart'
    BY <1>6, <2>12, <2>13, <2>14 DEF TimersApart
  <2> QED
    BY <1>1, <1>8, <2>7, <2>8, <2>11, <2>15 DEF SchedInv
<1> QED
  BY <1>9, <1>10

LEMMA SchedStep ==
    ASSUME SchedulerAssumption, SchedInv, SchedulerNext
    PROVE  SchedInv'
<1>1. CASE Pass \/ InsertJob \/ SaveToFile \/ ProcessDies \/ LoadFromFile
  BY <1>1, PassKeeps, InsertJobKeeps, SaveKeeps, DiesKeeps, LoadKeeps
<1>2. ASSUME NEW id \in JobIds, NEW s \in Schedules, NEW enabled \in BOOLEAN, NEW n \in CatchUps,
             NEW next \in {0, MaxTime}, AddJob(id, s, enabled, n, next)
      PROVE  SchedInv'
  BY <1>2, AddJobKeeps
<1>3. ASSUME NEW id \in JobIds, RemoveJob(id) PROVE SchedInv'
  BY <1>3, RemoveJobKeeps
<1>4. ASSUME NEW id \in JobIds, NEW enabled \in BOOLEAN, EnableJob(id, enabled) PROVE SchedInv'
  BY <1>4, EnableJobKeeps
<1>5. ASSUME NEW id \in TimerIds, NEW s \in Owners, NEW due \in Dues, AddTimer(id, s, due)
      PROVE  SchedInv'
  BY <1>5, AddTimerKeeps
<1>6. ASSUME NEW gone, CancelTimers(gone) PROVE SchedInv'
  BY <1>6, CancelTimersKeeps
<1>7. ASSUME NEW k \in Tickers, Deliver(k) PROVE SchedInv'
  BY <1>7, DeliverKeeps
<1>8. ASSUME NEW k \in Tickers, NEW now \in Past, Take(k, now) PROVE SchedInv'
  BY <1>8, TakeKeeps
<1> QED
  BY <1>1, <1>2, <1>3, <1>4, <1>5, <1>6, <1>7, <1>8 DEF SchedulerNext

LEMMA SchedStutter ==
    ASSUME SchedInv, UNCHANGED schedulerVars
    PROVE  SchedInv'
<1>1. \A k \in Tickers : JobsOf(k)' = JobsOf(k) /\ TimersOf(k)' = TimersOf(k)
  BY DEF schedulerVars, JobsOf, TimersOf
<1>2. \A x : OfThePast(x)' <=> OfThePast(x)
  BY DEF schedulerVars, OfThePast
<1>3. Typed' /\ Registries' /\ Numbered'
  BY DEF schedulerVars, SchedInv, Typed, Registries, Kempt, OneEach, InOrder, Timely, Numbered, RegsApart
<1>4. Behind'
  <2>1. \A x \in fired' : OfThePast(x)'
    BY <1>2 DEF schedulerVars, SchedInv, Behind
  <2>2. ASSUME NEW l \in Tickers, NEW i \in DOMAIN JobsOf(l)' PROVE OfThePast(JobsOf(l)[i])'
    <3>1. PICK x : x = JobsOf(l)[i] /\ x = JobsOf(l)'[i] /\ i \in DOMAIN JobsOf(l)
      BY <1>1, <2>2
    <3>2. OfThePast(x)'
      BY <1>2, <3>1 DEF SchedInv, Behind
    <3> QED
      BY <3>1, <3>2 DEF OfThePast
  <2> QED
    BY <2>1, <2>2 DEF Behind
<1>5. JobsApart' /\ TimersApart'
  BY <1>1 DEF schedulerVars, SchedInv, JobsApart, TimersApart
<1> QED
  BY <1>3, <1>4, <1>5 DEF schedulerVars, SchedInv

\* Whatever a tick has taken and not yet delivered is new, belongs to that
\* thread alone, and lies before the next instant of the job it came from:
\* addJob, enableJob, tickUntil, loadFromFile and a crash all keep it so.
THEOREM SchedulerInvariant == SchedulerSpec => []SchedInv
<1>1. SchedulerInit => SchedInv
  BY InitSched, SchedulerAssumption
<1>2. SchedInv /\ [SchedulerNext]_schedulerVars => SchedInv'
  BY SchedStep, SchedStutter, SchedulerAssumption
<1> QED
  BY <1>1, <1>2, PTL DEF SchedulerSpec

\* No callback is handed the same occurrence or the same timer twice: tickUntil
\* takes what is due and moves the jobs on under one lock, whatever threads
\* tick and whatever is registered, replaced, enabled or loaded meanwhile.
THEOREM SchedulerDeliversOnce == SchedulerSpec => []DeliveredOnce
<1>1. SchedInv => DeliveredOnce
  BY DEF SchedInv, DeliveredOnce
<1> QED
  BY <1>1, SchedulerInvariant, PTL

\* m_jobs and m_timers keep one entry per id, timers in order, and no enabled
\* job without an instant.
THEOREM SchedulerTypes == SchedulerSpec => []SchedulerTypeOK
<1>1. SchedInv => SchedulerTypeOK
  <2> SUFFICES ASSUME SchedInv PROVE SchedulerTypeOK
    OBVIOUS
  <2>1. Typed /\ Registries
    BY DEF SchedInv
  <2>2. ASSUME NEW i \in DOMAIN jobs
        PROVE  jobs[i].next \in Nat /\ jobs[i].enabled \in BOOLEAN /\ (jobs[i].enabled => jobs[i].next > 0)
    <3>1. jobs[i] \in Jobs
      BY <2>1 DEF Typed
    <3>2. Timely(jobs[i])
      BY <2>1 DEF Registries, Kempt
    <3> QED
      BY <3>1, <3>2 DEF Jobs, Timely
  <2>3. OneEach(jobs) /\ OneEach(timers) /\ InOrder(timers)
    BY <2>1 DEF Registries, Kempt
  <2>4. IsInjective([i \in DOMAIN jobs |-> jobs[i].id]) /\ IsInjective([i \in DOMAIN timers |-> timers[i].id])
    BY <2>3 DEF IsInjective, OneEach
  <2>5. saved.state \in {"absent", "cut", "whole"}
    BY <2>1 DEF Typed
  <2> QED
    BY <2>2, <2>3, <2>4, <2>5 DEF SchedulerTypeOK, InOrder
<1> QED
  BY <1>1, SchedulerInvariant, PTL

----------------------------------------------------------------------------
(***************************************************************************)
(* Catching up                                                             *)
(***************************************************************************)
LEMMA DaysApart ==
    ASSUME NEW d \in Int, NEW e \in Int, d < e, NEW offset \in Int, NEW x \in Minutes, NEW y \in Minutes
    PROVE  At60(d, x, offset) < At60(e, y, offset)
<1>1. x \in 0..1439 /\ y \in 0..1439
  BY DEF Minutes
<1> QED
  BY <1>1 DEF At60, Midnight, Day, Minute

LEMMA DayBefore ==
    ASSUME NEW d \in Int, NEW offset \in Int, NEW x \in Minutes, NEW u \in Int, u = At60(d, x, offset)
    PROVE  d <= LocalDay(u - 1, offset) + 1
<1>1. x \in 0..1439
  BY DEF Minutes
<1>2. u = d * 2880 - offset + 2 * x
  BY DEF At60, Midnight, Day, Minute
<1>3. PICK today, time : today = LocalDay(u - 1, offset) /\ time = TimeOfDay(u - 1, offset)
  OBVIOUS
<1>4. u - 1 \in Int
  OBVIOUS
<1>5. today \in Int /\ time \in 0..2879 /\ u - 1 = today * 2880 - offset + time
  <2>1. today \in Int /\ time \in 0..(Day - 1) /\ u - 1 = Midnight(today, offset) + time
    BY <1>3, <1>4, DayAndTime
  <2> QED
    BY <2>1 DEF Midnight, Day, Minute
<1>6. PICK a \in Int, b \in Int : a = d * 2880 /\ b = today * 2880 /\ (d >= today + 2 => a >= b + 5760)
  BY <1>5
<1>7. a - offset + 2 * x - 1 = b - offset + time
  BY <1>1, <1>2, <1>5, <1>6
<1>8. ASSUME d >= today + 2 PROVE FALSE
  <2>1. a \in Int /\ b \in Int /\ a >= b + 5760
    BY <1>6, <1>8
  <2>2. time \in Int /\ time <= 2879 /\ x \in Int /\ x >= 0
    BY <1>1, <1>5
  <2> QED
    BY <1>7, <2>1, <2>2
<1> QED
  BY <1>3, <1>5, <1>8

\* An answer is an instant at which the schedule fires, and none is skipped.
LEMMA OccursFacts ==
    ASSUME SchedulerAssumption, NEW s \in Readable, TextOf[s].form # "relative",
           NEW t \in 0..MaxTime, NextOf[s][t] # Never
    PROVE  /\ NextOf[s][t] <= MaxTime => Occurs(s, NextOf[s][t])
           /\ \A u \in 0..MaxTime : t < u /\ Occurs(s, u) => NextOf[s][t] <= u
<1> DEFINE c == Parse(TextOf[s])
           offset == OffsetOf[s]
<1>1. /\ Written(TextOf[s]) /\ Parses(TextOf[s]) /\ offset \in Int /\ SearchDays \in Nat /\ SearchDays >= 1
      /\ Never \notin Int /\ MaxTime \in Nat
  BY DEF Readable, SchedulerAssumption
<1>2. Usable(c)
  BY <1>1, ParsedUsable
<1>3. \A r \in 0..MaxTime : r \in Int /\ r >= 0 /\ NextOf[s][r] = NextAfter(c, r, offset)
  BY <1>1, NextOfFacts
<1>4. \A x \in Times(c) : x \in Minutes
  BY <1>2 DEF Usable
<1> HIDE DEF c, offset
<1>5. PICK v : v = NextAfter(c, t, offset)
  OBVIOUS
<1>6. v = NextOf[s][t] /\ v # Never /\ t \in Int /\ t >= 0
  BY <1>3, <1>5
<1>7. v \in Int /\ v > t
  <2>1. NextAfter(c, t, offset) # Never
    BY <1>5, <1>6
  <2>2. NextAfter(c, t, offset) \in Int /\ NextAfter(c, t, offset) > t
    BY <1>1, <1>2, <1>6, <2>1, NextFires
  <2> QED
    BY <1>5, <2>2
<1>8. PICK d \in Int, x \in Times(c) : v = At60(d, x, offset) /\ DayMatches(c, Civil(d))
                                       /\ d <= LocalDay(t, offset) + SearchDays
  BY <1>1, <1>2, <1>5, <1>6, NextFires
<1>9. ASSUME v <= MaxTime PROVE Occurs(s, v)
  <2>1. PICK w \in Int : w = v - 1
    BY <1>7
  <2>2. w \in 0..MaxTime /\ v > 0 /\ w < v
    BY <1>1, <1>6, <1>7, <1>9, <2>1
  <2>3. LocalDay(w, offset) \in Int /\ d <= LocalDay(w, offset) + SearchDays
    <3>1. LocalDay(w, offset) \in Int
      BY <1>1, DayAndTime
    <3>2. d <= LocalDay(v - 1, offset) + 1
      BY <1>1, <1>4, <1>7, <1>8, DayBefore
    <3> QED
      BY <1>1, <2>1, <3>1, <3>2
  <2>4. Later(d, x, w, offset)
    BY <1>8, <2>2 DEF Later
  <2>5. NextAfter(c, w, offset) # Never /\ NextAfter(c, w, offset) <= v
    BY <1>1, <1>2, <1>8, <2>3, <2>4, NextIsFirst
  <2>6. NextAfter(c, w, offset) \in Int /\ NextAfter(c, w, offset) > w
    BY <1>1, <1>2, <2>5, NextFires
  <2>7. NextAfter(c, w, offset) = v
    BY <1>7, <2>1, <2>5, <2>6
  <2>8. NextOf[s][v - 1] = v
    BY <1>3, <2>1, <2>2, <2>7
  <2> QED
    BY <2>2, <2>8 DEF Occurs
<1>10. ASSUME NEW u \in 0..MaxTime, t < u, Occurs(s, u) PROVE v <= u
  <2>1. u \in Int /\ u > 0 /\ NextOf[s][u - 1] = u
    BY <1>1, <1>10 DEF Occurs
  <2>2. PICK w \in Int : w = u - 1 /\ w \in 0..MaxTime
    BY <1>1, <1>10, <2>1
  <2>3. NextAfter(c, w, offset) = u /\ u # Never
    BY <1>1, <1>3, <2>1, <2>2
  <2>4. PICK e \in Int, y \in Times(c) : u = At60(e, y, offset) /\ DayMatches(c, Civil(e))
    BY <1>1, <1>2, <2>3, NextFires
  <2>5. LocalDay(t, offset) \in Int
    BY <1>1, <1>6, DayAndTime
  <2>6. CASE e <= LocalDay(t, offset) + SearchDays
    <3>1. Later(e, y, t, offset)
      BY <1>10, <2>4 DEF Later
    <3> QED
      BY <1>1, <1>2, <1>5, <1>6, <2>4, <2>6, <3>1, NextIsFirst
  <2>7. CASE ~(e <= LocalDay(t, offset) + SearchDays)
    <3>1. d < e
      BY <1>1, <1>8, <2>5, <2>7
    <3>2. At60(d, x, offset) < At60(e, y, offset)
      BY <1>1, <1>4, <3>1, DaysApart
    <3> QED
      BY <1>7, <1>8, <2>1, <2>4, <3>2
  <2> QED
    BY <2>6, <2>7
<1> QED
  BY <1>6, <1>9, <1>10

\* A schedule that finds no instant within the days searched has none at all.
FindsAll ==
    \A s \in Readable : \A t, u \in 0..MaxTime :
        NextOf[s][t] = Never /\ t < u => ~Occurs(s, u)

\* That is so where the clock stops before the search does.
LEMMA ShortClockFindsAll ==
    ASSUME SchedulerAssumption, MaxTime <= SearchDays * Day
    PROVE  FindsAll
<1> SUFFICES ASSUME NEW s \in Readable, NEW t \in 0..MaxTime, NEW u \in 0..MaxTime,
                    t < u, Occurs(s, u)
             PROVE  NextOf[s][t] # Never
  BY DEF FindsAll
<1> DEFINE c == Parse(TextOf[s])
           offset == OffsetOf[s]
<1>1. /\ Written(TextOf[s]) /\ Parses(TextOf[s]) /\ offset \in Int /\ SearchDays \in Nat /\ SearchDays >= 1
      /\ Never \notin Int /\ MaxTime \in Nat
  BY DEF Readable, SchedulerAssumption
<1>2. \A r \in 0..MaxTime : r \in Int /\ r >= 0 /\ NextOf[s][r] = NextAfter(c, r, offset)
  BY <1>1, NextOfFacts
<1>3. t \in Int /\ t >= 0 /\ u \in Int /\ u <= MaxTime /\ u > 0 /\ NextOf[s][u - 1] = u
  BY <1>1, <1>2 DEF Occurs
<1>4. CASE TextOf[s].form = "relative"
  <2>1. TextOf[s].delay \in Int /\ NextAfter(c, t, offset) = t + TextOf[s].delay
    BY <1>1, <1>4 DEF Written, NextAfter, Parse
  <2> QED
    BY <1>1, <1>2, <1>3, <2>1
<1>5. CASE TextOf[s].form # "relative"
  <2>1. Usable(c)
    BY <1>1, <1>5, ParsedUsable
  <2> HIDE DEF c, offset
  <2>2. PICK w \in Int : w = u - 1 /\ w \in 0..MaxTime
    BY <1>1, <1>3
  <2>3. NextAfter(c, w, offset) = u /\ u # Never
    BY <1>1, <1>2, <1>3, <2>2
  <2>4. PICK e \in Int, y \in Times(c) : u = At60(e, y, offset) /\ DayMatches(c, Civil(e))
    BY <1>1, <2>1, <2>3, NextFires
  <2>5. Later(e, y, t, offset)
    BY <2>4 DEF Later
  <2>6. e <= LocalDay(t, offset) + SearchDays
    <3>1. y \in 0..1439
      BY <2>1 DEF Usable, Minutes
    <3>2. u = e * 2880 - offset + 2 * y
      BY <2>4 DEF At60, Midnight, Day, Minute
    <3>3. PICK today, time : today = LocalDay(t, offset) /\ time = TimeOfDay(t, offset)
      OBVIOUS
    <3>4. today \in Int /\ time \in 0..2879 /\ t = today * 2880 - offset + time
      <4>1. today \in Int /\ time \in 0..(Day - 1) /\ t = Midnight(today, offset) + time
        BY <1>1, <1>3, <3>3, DayAndTime
      <4> QED
        BY <4>1 DEF Midnight, Day, Minute
    <3>5. u <= t + SearchDays * 2880
      BY <1>1, <1>3 DEF Day, Minute
    <3>6. e <= today + SearchDays
      BY <1>1, <3>1, <3>2, <3>4, <3>5
    <3> QED
      BY <3>3, <3>6
  <2> QED
    BY <1>1, <1>2, <1>3, <2>1, <2>4, <2>5, <2>6, NextIsFirst
<1> QED
  BY <1>4, <1>5

\* The instants taken are the first ones of those, and all unless the limit
\* cuts them off.
LEMMA RunIsFirst ==
    ASSUME SchedulerAssumption, FindsAll, NEW job, NEW now, Due(job, now),
           TextOf[job.schedule].form # "relative",
           NEW d, d = Missed(job, now), NEW due, due = Missable(job, now)
    PROVE  /\ \A n \in DOMAIN d : d[n] \in due
           /\ \A n \in DOMAIN d, t \in due : t <= d[n] => \E m \in DOMAIN d : d[m] = t
           /\ Len(d) <= Limit(job)
           /\ Len(d) = Limit(job) \/ \A t \in due : \E m \in DOMAIN d : d[m] = t
<1>1. RunTo(job, now, Limit(job), d)
  BY MissedFacts
<1>2. /\ d \in Seq(0..now) /\ DOMAIN d = 1..Len(d) /\ Len(d) > 0 /\ Len(d) \in Nat /\ now \in Nat
      /\ \A n \in DOMAIN d : d[n] \in Nat /\ d[n] <= now /\ job.next <= d[n]
  BY RunFacts
<1>3. /\ job.schedule \in Readable /\ job.next \in Nat /\ now <= MaxTime /\ MaxTime \in Nat
      /\ Never \notin Int /\ Limit(job) \in Nat /\ Len(d) <= Limit(job) /\ d[1] = job.next
  BY <1>1, LimitIsPositive DEF Due, Jobs, SchedulerAssumption, RunTo
<1>4. PICK s : s = job.schedule /\ s \in Readable /\ TextOf[s].form # "relative"
  BY <1>3
<1>5. \A t \in due : t \in Nat /\ t <= now /\ t \in 0..MaxTime /\ job.next <= t
                     /\ (t = job.next \/ Occurs(s, t))
  BY <1>2, <1>3, <1>4 DEF Missable
<1>6. \A n \in DOMAIN d : d[n] \in 0..MaxTime /\ d[n] \in job.next..now
  BY <1>2, <1>3
<1>7. ASSUME NEW n \in DOMAIN d, NEW m \in DOMAIN d, m = n + 1
      PROVE  d[m] = NextOf[s][d[n]] /\ d[m] # Never
  <2>1. d[m] = NextOf[s][d[n]]
    BY <1>1, <1>2, <1>4, <1>7 DEF RunTo
  <2> QED
    BY <1>2, <1>3, <2>1
<1>8. ASSUME NEW n \in DOMAIN d PROVE d[n] \in due
  <2>1. CASE n = 1
    BY <1>3, <1>6, <2>1 DEF Missable
  <2>2. CASE n # 1
    <3>1. PICK o \in DOMAIN d : n = o + 1
      <4>1. n - 1 \in 1..Len(d) /\ n = (n - 1) + 1
        BY <1>2, <2>2
      <4> QED
        BY <1>2, <4>1
    <3>2. d[n] = NextOf[s][d[o]] /\ NextOf[s][d[o]] # Never /\ d[o] \in 0..MaxTime /\ NextOf[s][d[o]] <= MaxTime
      BY <1>2, <1>3, <1>6, <1>7, <3>1
    <3>3. Occurs(s, NextOf[s][d[o]])
      BY <1>4, <3>2, OccursFacts
    <3> QED
      BY <1>4, <1>6, <3>2, <3>3 DEF Missable
  <2> QED
    BY <2>1, <2>2
<1> DEFINE Found(t) == \E m \in DOMAIN d : d[m] = t
           I == {n \in Nat : n + 1 \in DOMAIN d => \A t \in due : t <= d[n + 1] => Found(t)}
<1>9. 0 \in I
  <2>1. 1 \in DOMAIN d /\ 0 + 1 = 1
    BY <1>2
  <2>2. \A t \in due : t <= d[1] => t = d[1]
    BY <1>3, <1>5
  <2> QED
    BY <2>1, <2>2
<1>10. ASSUME NEW n \in Nat, n \in I PROVE n + 1 \in I
  <2>1. SUFFICES ASSUME n + 1 + 1 \in DOMAIN d, NEW t \in due, t <= d[n + 1 + 1] PROVE Found(t)
    OBVIOUS
  <2>2. PICK a \in DOMAIN d, b \in DOMAIN d : a = n + 1 /\ b = a + 1 /\ b = n + 1 + 1
    <3>1. n + 1 \in 1..Len(d)
      BY <1>2, <2>1
    <3> QED
      BY <1>2, <2>1, <3>1
  <2>3. CASE t <= d[a]
    BY <1>10, <2>2, <2>3
  <2>4. CASE ~(t <= d[a])
    <3>1. t \in 0..MaxTime /\ d[a] < t /\ Occurs(s, t)
      BY <1>2, <1>5, <2>2, <2>4
    <3>2. d[b] = NextOf[s][d[a]] /\ NextOf[s][d[a]] # Never /\ d[a] \in 0..MaxTime
      BY <1>6, <1>7, <2>2
    <3>3. NextOf[s][d[a]] <= t
      BY <1>4, <3>1, <3>2, OccursFacts
    <3>4. d[b] \in Nat /\ t \in Nat /\ d[b] <= t /\ t <= d[b]
      BY <1>2, <1>5, <2>1, <2>2, <3>2, <3>3
    <3>5. d[b] = t
      BY <3>4
    <3> QED
      BY <3>5
  <2> QED
    BY <2>3, <2>4
<1> HIDE DEF I
<1>11. ASSUME NEW n \in DOMAIN d, NEW t \in due, t <= d[n] PROVE Found(t)
  <2>1. PICK o \in Nat : n = o + 1
    <3>1. n - 1 \in Nat /\ n = (n - 1) + 1
      BY <1>2
    <3> QED
      BY <3>1
  <2>2. \A i \in Nat : i \in I
    BY <1>9, <1>10, SetInduction
  <2> QED
    BY <1>11, <2>1, <2>2 DEF I
<1>12. ASSUME Len(d) # Limit(job), NEW t \in due PROVE Found(t)
  <2>1. Over(job, now, d[Len(d)]) /\ Len(d) \in DOMAIN d
    <3>1. Len(d) # Limit(job) + 1
      BY <1>2, <1>3
    <3> QED
      BY <1>1, <1>2, <1>12, <3>1 DEF RunTo
  <2>2. PICK last \in DOMAIN d : last = Len(d) /\ Over(job, now, d[last])
    BY <2>1
  <2>3. CASE t <= d[last]
    BY <1>11, <2>3
  <2>4. CASE ~(t <= d[last])
    <3>1. t \in 0..MaxTime /\ d[last] < t /\ Occurs(s, t) /\ d[last] \in 0..MaxTime /\ t <= now /\ t \in Nat
      BY <1>2, <1>5, <1>6, <2>4
    <3>2. NextOf[s][d[last]] # Never
      BY <1>4, <3>1 DEF FindsAll
    <3>3. NextOf[s][d[last]] <= t /\ NextOf[s][d[last]] > now /\ NextOf[s][d[last]] \in Nat
      <4>1. NextOf[s][d[last]] <= t
        BY <1>4, <3>1, <3>2, OccursFacts
      <4>2. NextOf[s][d[last]] \in Nat
        BY <1>4, <3>1, <3>2, NextOfFacts
      <4>3. NextOf[s][d[last]] > now
        BY <1>4, <2>2, <3>2 DEF Over
      <4> QED
        BY <4>1, <4>2, <4>3
    <3> QED
      BY <1>2, <3>1, <3>3
  <2> QED
    BY <2>3, <2>4
<1> QED
  BY <1>3, <1>8, <1>11, <1>12

LEMMA Between ==
    ASSUME NEW lo \in Int, NEW hi \in Int, NEW S, S = lo..hi
    PROVE  IsFiniteSet(S) /\ (lo = 1 /\ hi >= 0 => Cardinality(S) = hi)
<1>1. IsFiniteSet(S) /\ Cardinality(S) = IF lo > hi THEN 0 ELSE hi - lo + 1
  BY FS_Interval
<1> QED
  BY <1>1

\* As many as there are distinct instants in the run.
RunOf(d, len, lim, due) ==
    /\ lim \in Nat /\ len \in Nat /\ DOMAIN d = 1..len /\ len <= lim
    /\ \A n, m \in DOMAIN d : d[n] = d[m] => n = m
    /\ IsFiniteSet(due) /\ \A n \in DOMAIN d : d[n] \in due
    /\ len = lim \/ \A t \in due : \E m \in DOMAIN d : d[m] = t

LEMMA RunCount ==
    ASSUME NEW d, NEW len, NEW lim, NEW due, RunOf(d, len, lim, due)
    PROVE  len = Min({lim, Cardinality(due)})
<1>0. /\ lim \in Nat /\ len \in Nat /\ DOMAIN d = 1..len /\ len <= lim
      /\ \A n, m \in DOMAIN d : d[n] = d[m] => n = m
      /\ IsFiniteSet(due) /\ \A n \in DOMAIN d : d[n] \in due
      /\ len = lim \/ \A t \in due : \E m \in DOMAIN d : d[m] = t
  BY DEF RunOf
<1>1. PICK f : f = [n \in 1..len |-> d[n]]
  OBVIOUS
<1>2. f \in Injection(1..len, due)
  BY <1>0, <1>1 DEF Injection, IsInjective
<1>3. PICK c \in Nat : c = Cardinality(due)
  BY <1>0, FS_CardinalityType
<1>4. IsFiniteSet(1..len) /\ Cardinality(1..len) = len
  BY <1>0, FS_Interval
<1>5. len <= c
  BY <1>0, <1>2, <1>3, <1>4, FS_Injection
<1>6. len = lim \/ len = c
  <2>1. ASSUME \A t \in due : \E m \in DOMAIN d : d[m] = t PROVE len = c
    <3>1. f \in Surjection(1..len, due)
      BY <1>0, <1>1, <1>2, <2>1 DEF Injection, Surjection
    <3> QED
      BY <1>0, <1>2, <1>3, <1>4, <3>1, FS_Injection
  <2> QED
    BY <1>0, <2>1
<1>7. PICK m : m = Min({lim, c})
  OBVIOUS
<1>8. m \in {lim, c} /\ m <= lim /\ m <= c
  BY <1>0, <1>3, <1>7, MinFacts
<1> QED
  BY <1>0, <1>3, <1>5, <1>6, <1>7, <1>8

\* What is taken for the i-th job: one occurrence per instant of its run.
LEMMA TakenOfOne ==
    ASSUME SchedulerAssumption, jobs \in Seq(Jobs), RegsApart(jobs, regs), NEW now,
           NEW taken, taken = DueJobs(now), NEW i \in DOMAIN jobs, Due(jobs[i], now),
           NEW d, d = Missed(jobs[i], now),
           NEW got, got = OfReg(taken, jobs[i].reg)
    PROVE  /\ got = {[reg |-> jobs[i].reg, at |-> d[n]] : n \in DOMAIN d}
           /\ Cardinality(got) = Len(d)
<1>1. \A x \in ToSet(taken) : \E m \in DOMAIN taken : x = taken[m]
  BY DEF ToSet
<1>2. \A m \in DOMAIN taken : taken[m] \in ToSet(taken)
  BY DEF ToSet
<1>3. PICK r : r = jobs[i].reg
  OBVIOUS
<1>4. now \in 0..MaxTime /\ IsDue(jobs[i], now)
  BY DEF Due
<1>5. ASSUME NEW x \in got PROVE \E n \in DOMAIN d : x = [reg |-> r, at |-> d[n]]
  <2>1. PICK m \in DOMAIN taken : x = taken[m] /\ x.reg = r
    BY <1>1, <1>3 DEF OfReg
  <2>2. PICK j, n : Stems(now, x, j, n)
    BY <1>4, <2>1, DueJobsFacts
  <2>3. /\ j \in DOMAIN jobs /\ n \in DOMAIN Missed(jobs[j], now)
        /\ x = [reg |-> jobs[j].reg, at |-> Missed(jobs[j], now)[n]]
    BY <2>2 DEF Stems
  <2>4. j = i
    BY <1>3, <2>1, <2>3 DEF RegsApart
  <2> QED
    BY <1>3, <2>3, <2>4
<1>6. ASSUME NEW n \in DOMAIN d PROVE [reg |-> r, at |-> d[n]] \in got
  <2>1. PICK m \in DOMAIN taken : taken[m] = [reg |-> r, at |-> d[n]]
    BY <1>3, <1>4, DueJobsFacts
  <2> QED
    BY <1>2, <1>3, <2>1 DEF OfReg
<1>7. PICK len \in Nat : len = Len(d) /\ DOMAIN d = 1..len /\ \A n, m \in DOMAIN d : d[n] = d[m] => n = m
  BY RunFacts
<1>8. PICK f : f = [n \in 1..len |-> [reg |-> r, at |-> d[n]]]
  OBVIOUS
<1>9. f \in Surjection(1..len, got) /\ f \in Injection(1..len, got)
  <2>1. f \in [1..len -> got]
    BY <1>6, <1>7, <1>8
  <2>2. \A n, m \in 1..len : f[n] = f[m] => n = m
    BY <1>7, <1>8
  <2>3. \A x \in got : \E n \in 1..len : f[n] = x
    BY <1>5, <1>7, <1>8
  <2> QED
    BY <2>1, <2>2, <2>3 DEF Surjection, Injection, IsInjective
<1>10. PICK S : S = 1..len
  OBVIOUS
<1>11. Cardinality(got) = len
  <2>1. IsFiniteSet(S) /\ Cardinality(S) = len
    <3>1. 1 \in Int /\ len \in Int /\ len >= 0
      OBVIOUS
    <3> QED
      BY <1>10, <3>1, Between
  <2> QED
    BY <1>9, <1>10, <2>1, FS_Surjection
<1>12. got = {[reg |-> r, at |-> d[n]] : n \in DOMAIN d}
  BY <1>5, <1>6
<1> QED
  BY <1>3, <1>7, <1>11, <1>12

LEMMA TakeCatchesUp ==
    ASSUME SchedulerAssumption, FindsAll, SchedInv, NEW k \in Tickers, tick'[k] # Idle,
           NEW now \in Past, Take(k, now), NEW i \in DOMAIN jobs, IsDue(jobs[i], now),
           TextOf[jobs[i].schedule].form # "relative"
    PROVE  Earliest(OfReg(tick'[k].jobs, jobs[i].reg), Missable(jobs[i], now), Limit(jobs[i]))
<1>0. PICK due, got : due = Missable(jobs[i], now) /\ got = OfReg(tick'[k].jobs, jobs[i].reg)
  OBVIOUS
<1>1. Typed /\ Numbered /\ jobs \in Seq(Jobs) /\ RegsApart(jobs, regs) /\ timers \in Seq(Timers) /\ jobs[i] \in Jobs
  BY DEF SchedInv, Typed, Numbered
<1>2. now \in 0..MaxTime /\ now \in Nat
  <2>1. now \in 0..MaxTime /\ MaxTime \in Nat
    BY DEF Past, SchedulerAssumption
  <2> QED
    BY <2>1
<1>3. PICK taken : taken = DueJobs(now) /\ taken \in Seq(Occasions)
  BY <1>1, <1>2, DueJobsFacts
<1>4. tick'[k].jobs = taken
  <2>1. tick'[k] = Took(taken, DueTimers(now))
    <3>1. k \in DOMAIN tick
      BY <1>1 DEF Typed
    <3> QED
      BY <1>3, <3>1 DEF Take
  <2> QED
    BY <2>1 DEF Took
<1>5. Due(jobs[i], now)
  BY <1>1, <1>2 DEF Due
<1>6. PICK d : d = Missed(jobs[i], now)
  OBVIOUS
<1>7. /\ got = {[reg |-> jobs[i].reg, at |-> d[n]] : n \in DOMAIN d}
      /\ Cardinality(got) = Len(d)
  <2>1. got = OfReg(taken, jobs[i].reg)
    BY <1>0, <1>4
  <2> QED
    BY <1>1, <1>3, <1>5, <1>6, <2>1, TakenOfOne
<1>8. /\ \A n \in DOMAIN d : d[n] \in due
      /\ \A n \in DOMAIN d, t \in due : t <= d[n] => \E m \in DOMAIN d : d[m] = t
      /\ Len(d) <= Limit(jobs[i])
      /\ Len(d) = Limit(jobs[i]) \/ \A t \in due : \E m \in DOMAIN d : d[m] = t
  BY <1>0, <1>5, <1>6, RunIsFirst
<1>9. DOMAIN d = 1..Len(d) /\ Len(d) \in Nat /\ \A n, m \in DOMAIN d : d[n] = d[m] => n = m
  BY <1>5, <1>6, RunFacts
<1>10. due \subseteq Nat /\ IsFiniteSet(due)
  <2>1. jobs[i].next \in Nat
    BY <1>1 DEF Jobs
  <2>2. due \subseteq jobs[i].next..now
    BY <1>0 DEF Missable
  <2>3. IsFiniteSet(jobs[i].next..now)
    <3>1. PICK first \in Int, last \in Int : first = jobs[i].next /\ last = now
      BY <1>2, <2>1
    <3>2. PICK S : S = first..last
      OBVIOUS
    <3>3. IsFiniteSet(S)
      BY <3>2, Between
    <3> QED
      BY <3>1, <3>2, <3>3
  <2>4. due \subseteq Nat
    BY <1>2, <2>1, <2>2
  <2> QED
    BY <2>2, <2>3, <2>4, FS_Subset
<1>11. PICK lim \in Nat, len \in Nat : lim = Limit(jobs[i]) /\ len = Len(d)
  BY <1>1, <1>9, LimitIsPositive
<1>12. Cardinality(got) = Min({Limit(jobs[i]), Cardinality(due)})
  <2>1. /\ DOMAIN d = 1..len /\ len <= lim /\ \A n, m \in DOMAIN d : d[n] = d[m] => n = m
        /\ \A n \in DOMAIN d : d[n] \in due
        /\ len = lim \/ \A t \in due : \E m \in DOMAIN d : d[m] = t
    BY <1>8, <1>9, <1>11
  <2>2. RunOf(d, len, lim, due)
    BY <1>10, <1>11, <2>1 DEF RunOf
  <2>3. len = Min({lim, Cardinality(due)})
    BY <2>2, RunCount
  <2> QED
    BY <1>7, <1>11, <2>3
<1>13. \A x \in got : \E n \in DOMAIN d : x.at = d[n]
  BY <1>7
<1>14. ASSUME NEW n \in DOMAIN d PROVE \E y \in got : y.at = d[n]
  <2>1. [reg |-> jobs[i].reg, at |-> d[n]] \in got
    BY <1>7
  <2>2. [reg |-> jobs[i].reg, at |-> d[n]].at = d[n]
    OBVIOUS
  <2> QED
    BY <2>1, <2>2
<1>15. ASSUME NEW x \in got, NEW t \in due, t < x.at PROVE \E y \in got : y.at = t
  <2>1. PICK n \in DOMAIN d : x.at = d[n]
    BY <1>13
  <2>2. t <= d[n]
    <3>1. t \in Nat /\ d[n] \in Nat /\ t < d[n]
      BY <1>8, <1>10, <1>15, <2>1
    <3> QED
      BY <3>1
  <2>3. PICK m \in DOMAIN d : d[m] = t
    BY <1>8, <2>2
  <2> QED
    BY <1>14, <2>3
<1>16. Earliest(got, due, Limit(jobs[i]))
  BY <1>8, <1>12, <1>13, <1>15 DEF Earliest
<1> QED
  BY <1>0, <1>16

\* A job that catches up fires in one tick for the instants it missed, the
\* earliest first and no more of them than max_catch_up, and any other for a
\* single one: in tickUntil, whatever was registered and however late the tick.
\* The search must have been long enough to find what there is (FindsAll).
THEOREM SchedulerCatchesUp == ASSUME FindsAll PROVE SchedulerSpec => CatchesUp
<1> DEFINE First ==
               \A k \in Tickers : tick[k] = Idle /\ tick'[k] # Idle =>
                  \A now \in Past : Take(k, now) =>
                      \A i \in DOMAIN jobs :
                        IsDue(jobs[i], now) /\ TextOf[jobs[i].schedule].form # "relative" =>
                          Earliest(OfReg(tick'[k].jobs, jobs[i].reg), Missable(jobs[i], now), Limit(jobs[i]))
<1>1. SchedInv => First
  BY TakeCatchesUp, SchedulerAssumption
<1>2. SchedInv => [First]_schedulerVars
  BY <1>1
<1>3. CatchesUp <=> [][First]_schedulerVars
  BY DEF CatchesUp
<1> HIDE DEF First
<1> QED
  BY <1>2, <1>3, SchedulerInvariant, PTL

----------------------------------------------------------------------------
(***************************************************************************)
(* The node                                                                *)
(***************************************************************************)
\* The node's parts leave one another alone, so each behaves as it does by
\* itself.
LEMMA NodeRunsBoth == NodeSpec => Spec /\ SchedulerSpec
<1>1. NodeInit => Init /\ SchedulerInit
  BY DEF NodeInit
<1>2. [NodeNext]_allVars => [Next]_vars /\ [SchedulerNext]_schedulerVars
  BY DEF NodeNext, allVars, files
<1> QED
  BY <1>1, <1>2, PTL DEF NodeSpec, Spec, SchedulerSpec

\* Whatever saves, loads, fails, ticks or is registered, and whenever the process
\* dies, the files hold checkpoints or nothing, and m_jobs and m_timers keep one
\* entry per id, in order, and no enabled job without an instant.
THEOREM NodeTypes == ASSUME ~DiskMayFill PROVE NodeSpec => []TypesOK
<1>1. FileInv /\ SchedulerTypeOK => TypesOK
  BY DEF FileInv, TypesOK
<1>2. Spec => []FileInv
  <2>1. FileInv /\ [Next]_vars => FileInv'
    BY NextFile
  <2> QED
    BY <2>1, InitFile, PTL DEF Spec
<1> QED
  BY <1>1, <1>2, SchedulerTypes, NodeRunsBoth, PTL
=============================================================================
