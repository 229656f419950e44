----------------------------- MODULE ParamSync -----------------------------
(***************************************************************************)
(* The copy of the pin tables (agent/domain/parameter_query): a process    *)
(* that starts loads an index of the local tables and then synchronises    *)
(* them with the external knowledge base, once: in a thread if the index   *)
(* has data, before it serves if it has none (main.py).  Processes share   *)
(* the local tables; nothing keeps two of them from synchronising at once. *)
(*                                                                         *)
(* A version stands for what _needs_resync compares: the source's          *)
(* latest_version and update_time and the parser's version.  The content   *)
(* of a version is known by its number, 0 is the empty content.  A         *)
(* transaction of the local database (MySQL, REPEATABLE READ) reads the    *)
(* tables as they were at its first read; SQLAlchemy updates the columns   *)
(* that differ from what it read.                                          *)
(***************************************************************************)
EXTENDS Naturals, FiniteSets

CONSTANTS
  Source,      \* ids of the external knowledge base
  Process,     \* backend processes
  RowNo,       \* numbers of the rows of a table
  RowsIn,      \* the rows the parser finds in the content of each version
  MaxVersion,  \* bound: versions of a source
  Edited,      \* bound: the sources that others edit
  MaxFaults,   \* bound: exceptions
  MaxStarts,   \* bound: process starts
  NoIndex

ASSUME VersionAssumption == MaxVersion \in Nat \ {0}
ASSUME EditedAssumption  == Edited \subseteq Source
ASSUME RowsAssumption    == RowsIn \in [0 .. MaxVersion -> SUBSET RowNo] /\ RowsIn[0] = {}

VARIABLES
  external,   \* the external knowledge base: version and state of each source
  knowledge,  \* param_knowledge_source: what each source was synchronised to
  pins,       \* param_pin_row: the content the rows of a source come from, and their ids
  aliases,    \* param_alias: the sources with generated aliases, per entity type
  job,        \* param_sync_job: the row of the process's last synchronisation
  process,    \* down, starting or serving
  index,      \* the in-memory index of each process
  pc,         \* where the synchronisation of a process is
  first,      \* it is still in its first transaction
  read,       \* what that transaction read
  listed,     \* the list it got from the knowledge base
  contents,   \* the contents it fetched
  todo,       \* the changed sources it has not written yet
  failed,     \* failed_count > 0
  nextId,     \* AUTO_INCREMENT of param_pin_row, one step per written table
  faults,     \* exceptions so far
  starts,     \* process starts so far
  overlap     \* two synchronisations have run at once

tables   == <<knowledge, pins, aliases>>
thread   == <<pc, first, read, listed, contents, todo, failed>>
counts   == <<nextId, faults, starts>>
syncVars == <<external, tables, job, process, index, thread, counts, overlap>>

Version == 0 .. MaxVersion

-----------------------------------------------------------------------------
(* The tables and the index.                                               *)

External  == [version : Version \ {0}, state : {"live", "disabled", "absent"}]
Knowledge == [status : {"none", "ready", "failed", "skipped"}, enabled : BOOLEAN,
              version : Version, content : Version]
Pins      == [content : Version, id : Nat]
Index     == [sources : SUBSET Source, pins : [Source -> Pins], aliases : SUBSET Source]

NoRecord == [status |-> "none", enabled |-> FALSE, version |-> 0, content |-> 0]
NoPins   == [content |-> 0, id |-> 0]

Has(record)   == record.status # "none"
Ready(record) == record.status = "ready" /\ record.enabled

NeedsResync(local, outside) == local.status # "ready" \/ local.version # outside.version

\* A row after SQLAlchemy flushed the record "new" over what it had read of it.
Flushed(row, was, new) ==
  LET column(f) == IF was[f] = new[f] THEN row[f] ELSE new[f]
  IN [status |-> column("status"), enabled |-> column("enabled"),
      version |-> column("version"), content |-> column("content")]

\* ParameterQueryIndexStore.rebuild: rows and aliases of the sources that are ready.
Served == {s \in Source : Ready(knowledge[s])}
Load == [sources |-> Served,
         pins    |-> [s \in Source |-> IF s \in Served THEN pins[s] ELSE NoPins],
         aliases |-> aliases.ecu]

RowsOf(idx, s) == RowsIn[idx.pins[s].content]
HasData(idx)   == idx # NoIndex /\ \E s \in idx.sources : RowsOf(idx, s) # {}

-----------------------------------------------------------------------------
(* A process starts (lifespan in main.py), or is killed.                   *)

NothingRead    == [s \in Source |-> NoRecord]
NothingListed  == [s \in Source |-> [version |-> 1, state |-> "absent"]]
NothingFetched == [s \in Source |-> 0]

Init ==
  /\ external \in [Source -> {e \in External : e.version = 1 /\ e.state # "absent"}]
  /\ \A s \in Source \ Edited : external[s].state = "live"
  /\ knowledge = [s \in Source |-> NoRecord]
  /\ pins = [s \in Source |-> NoPins]
  /\ aliases = [ecu |-> {}, component |-> {}]
  /\ job = [p \in Process |-> "none"]
  /\ process = [p \in Process |-> "down"]
  /\ index = [p \in Process |-> NoIndex]
  /\ pc = [p \in Process |-> "idle"]
  /\ first = [p \in Process |-> FALSE]
  /\ read = [p \in Process |-> NothingRead]
  /\ listed = [p \in Process |-> NothingListed]
  /\ contents = [p \in Process |-> NothingFetched]
  /\ todo = [p \in Process |-> {}]
  /\ failed = [p \in Process |-> FALSE]
  /\ nextId = 1 /\ faults = 0 /\ starts = 0 /\ overlap = FALSE

\* The index is loaded; a synchronisation begins unless the configuration forbids it.
Start(p) ==
  /\ process[p] = "down" /\ starts < MaxStarts
  /\ starts' = starts + 1
  /\ index' = [index EXCEPT ![p] = Load]
  /\ \E synchronise \in BOOLEAN :
       /\ pc' = [pc EXCEPT ![p] = IF synchronise THEN "begin" ELSE "idle"]
       /\ process' = [process EXCEPT ![p] =
                        IF synchronise /\ ~HasData(Load) THEN "starting" ELSE "serving"]
  /\ UNCHANGED <<external, tables, job, first, read, listed, contents, todo, failed,
                 nextId, faults, overlap>>

\* The index cannot be loaded: the process serves without one and does not synchronise.
StartFails(p) ==
  /\ process[p] = "down" /\ starts < MaxStarts /\ faults < MaxFaults
  /\ starts' = starts + 1
  /\ faults' = faults + 1
  /\ process' = [process EXCEPT ![p] = "serving"]
  /\ UNCHANGED <<external, tables, job, index, thread, nextId, overlap>>

\* The synchronisation and its variables are gone; what it committed stays.
Gone(p) ==
  /\ pc' = [pc EXCEPT ![p] = "idle"]
  /\ first' = [first EXCEPT ![p] = FALSE]
  /\ read' = [read EXCEPT ![p] = NothingRead]
  /\ listed' = [listed EXCEPT ![p] = NothingListed]
  /\ contents' = [contents EXCEPT ![p] = NothingFetched]
  /\ todo' = [todo EXCEPT ![p] = {}]
  /\ failed' = [failed EXCEPT ![p] = FALSE]

Kill(p) ==
  /\ process[p] # "down"
  /\ process' = [process EXCEPT ![p] = "down"]
  /\ index' = [index EXCEPT ![p] = NoIndex]
  /\ Gone(p)
  /\ UNCHANGED <<external, tables, job, counts, overlap>>

-----------------------------------------------------------------------------
(* A synchronisation (ParameterKnowledgeSyncService.sync).                 *)

Writing(p) == pc[p] \notin {"idle", "begin", "index"}

\* The job row is committed; the next transaction begins with its refresh.
Begin(p) ==
  /\ pc[p] = "begin"
  /\ job' = [job EXCEPT ![p] = "running"]
  /\ first' = [first EXCEPT ![p] = TRUE]
  /\ read' = [read EXCEPT ![p] = knowledge]
  /\ failed' = [failed EXCEPT ![p] = FALSE]
  /\ overlap' = (overlap \/ \E q \in Process \ {p} : Writing(q))
  /\ pc' = [pc EXCEPT ![p] = "list"]
  /\ UNCHANGED <<external, tables, process, index, listed, contents, todo, counts>>

\* The sources that are new or changed, by the list and the table as read.
Changed(local, outside) ==
  {s \in Source : /\ outside[s].state = "live"
                  /\ Has(local[s]) => NeedsResync(local[s], outside[s])}

List(p) ==
  /\ pc[p] = "list"
  /\ listed' = [listed EXCEPT ![p] = external]
  /\ todo' = [todo EXCEPT ![p] = Changed(read[p], external)]
  /\ pc' = [pc EXCEPT ![p] = "disable"]
  /\ UNCHANGED <<external, tables, job, process, index, first, read, contents, failed,
                 counts, overlap>>

\* What a query of this transaction returns for a source.
Seen(p, s) == IF first[p] THEN read[p][s] ELSE knowledge[s]

Disabled(p) == {s \in Source : listed[p][s].state = "disabled"}

\* Mutant: the contents of nothing are fetched too.
AlwaysFetch(p) == "fetch"

AfterDisable(p) == IF todo[p] = {} THEN "alias" ELSE "fetch"

\* All disabled sources are marked and lose their rows, in one commit.
MarkDisabled(p) ==
  LET known == {s \in Disabled(p) : Has(Seen(p, s))}
      off(s) == [Seen(p, s) EXCEPT !.status = "skipped", !.enabled = FALSE]
  IN
  /\ pc[p] = "disable"
  /\ knowledge' = [s \in Source |->
       IF s \in known THEN Flushed(knowledge[s], Seen(p, s), off(s)) ELSE knowledge[s]]
  /\ pins' = [s \in Source |-> IF s \in known THEN NoPins ELSE pins[s]]
  /\ first' = [first EXCEPT ![p] = @ /\ Disabled(p) = {}]
  /\ pc' = [pc EXCEPT ![p] = AfterDisable(p)]
  /\ UNCHANGED <<external, aliases, job, process, index, read, listed, contents, todo,
                 failed, counts, overlap>>

\* Mutant: a query that fails returns no contents.
Anything(s) == {0, external[s].version}

\* A source that is gone has no content.
Fetched(s) == {IF external[s].state = "absent" THEN 0 ELSE external[s].version}

\* The contents are read after the list.
Fetch(p) ==
  /\ pc[p] = "fetch"
  /\ \E got \in [Source -> Version] :
       /\ \A s \in Source : got[s] \in Fetched(s)
       /\ contents' = [contents EXCEPT ![p] = got]
  /\ pc' = [pc EXCEPT ![p] = "source"]
  /\ UNCHANGED <<external, tables, job, process, index, first, read, listed, todo, failed,
                 counts, overlap>>

\* Mutant: the record gets the version of now.
Recorded(p, s) ==
  [status |-> "ready", enabled |-> TRUE, version |-> external[s].version,
   content |-> contents[p][s]]

\* A source of the list, ready with the content that was fetched.
Synchronised(p, s) ==
  [status |-> "ready", enabled |-> TRUE, version |-> listed[p][s].version,
   content |-> contents[p][s]]

\* Mutant: a content without rows replaces nothing.
ReplacedByRows(p, s) ==
  IF RowsIn[contents[p][s]] = {} THEN pins[s] ELSE [content |-> contents[p][s], id |-> nextId]

\* The rows of the source are deleted, and those of the new content inserted.
Replaced(p, s) == [content |-> contents[p][s], id |-> nextId]

\* Inserting a source that another process has inserted violates the unique key.
Duplicate(p, s) == ~Has(Seen(p, s)) /\ Has(knowledge[s])

Done(p, s) ==
  /\ todo' = [todo EXCEPT ![p] = @ \ {s}]
  /\ first' = [first EXCEPT ![p] = FALSE]
  /\ pc' = [pc EXCEPT ![p] = IF todo[p] = {s} THEN "alias" ELSE "source"]
  /\ UNCHANGED <<external, aliases, job, process, index, read, listed, contents, starts,
                 overlap>>

\* The record is written and its rows replaced, in one commit.
SyncSource(p, s) ==
  /\ pc[p] = "source" /\ s \in todo[p]
  /\ ~Duplicate(p, s)
  /\ knowledge' = [knowledge EXCEPT ![s] = Flushed(@, Seen(p, s), Synchronised(p, s))]
  /\ pins' = [pins EXCEPT ![s] = Replaced(p, s)]
  /\ nextId' = nextId + 1
  /\ Done(p, s)
  /\ UNCHANGED <<failed, faults>>

\* The source's transaction is rolled back; the next one marks it failed and keeps its rows.
MarkFailed(p, s) ==
  /\ pc[p] = "source" /\ s \in todo[p]
  /\ IF Duplicate(p, s) THEN UNCHANGED faults
                        ELSE faults < MaxFaults /\ faults' = faults + 1
  /\ knowledge' = [knowledge EXCEPT ![s] =
       [@ EXCEPT !.status = "failed", !.enabled = TRUE, !.version = listed[p][s].version]]
  /\ failed' = [failed EXCEPT ![p] = TRUE]
  /\ Done(p, s)
  /\ UNCHANGED <<pins, nextId>>

\* ECU aliases of the sources that are ready, component aliases of every row.
RebuildAliases(p) ==
  /\ pc[p] = "alias"
  /\ aliases' = [ecu |-> {s \in Source : Ready(Seen(p, s))},
                 component |-> {s \in Source : RowsIn[pins[s].content] # {}}]
  /\ first' = [first EXCEPT ![p] = FALSE]
  /\ pc' = [pc EXCEPT ![p] = "finish"]
  /\ UNCHANGED <<external, knowledge, pins, job, process, index, read, listed, contents,
                 todo, failed, counts, overlap>>

\* Mutant: a source that failed does not count.
Succeeded(p) == "success"

JobStatus(p) == IF failed[p] THEN "partial_failed" ELSE "success"

Finish(p) ==
  /\ pc[p] = "finish"
  /\ job' = [job EXCEPT ![p] = JobStatus(p)]
  /\ pc' = [pc EXCEPT ![p] = "index"]
  /\ UNCHANGED <<external, tables, process, index, first, read, listed, contents, todo,
                 failed, counts, overlap>>

\* Mutant: who waits for the thread is not told.
EndedSilently(p) == Gone(p) /\ UNCHANGED process

\* The thread ends; a process that waited for it begins to serve.
Ended(p) ==
  /\ Gone(p)
  /\ process' = [process EXCEPT ![p] = "serving"]

Rebuild(p) ==
  /\ pc[p] = "index"
  /\ index' = [index EXCEPT ![p] = Load]
  /\ Ended(p)
  /\ UNCHANGED <<external, tables, job, counts, overlap>>

\* Any other exception: the job has failed, or only the index is not rebuilt.
SyncFails(p) ==
  /\ pc[p] # "idle" /\ faults < MaxFaults
  /\ faults' = faults + 1
  /\ job' = [job EXCEPT ![p] = IF Writing(p) THEN "failed" ELSE @]
  /\ Ended(p)
  /\ UNCHANGED <<external, tables, index, nextId, starts, overlap>>

-----------------------------------------------------------------------------
(* The external knowledge base, edited by others.                          *)

Edit(s) ==
  /\ external[s].state # "absent" /\ external[s].version < MaxVersion
  /\ \E state \in {"live", "disabled"} :
       external' = [external EXCEPT ![s] = [version |-> @.version + 1, state |-> state]]
  /\ UNCHANGED <<tables, job, process, index, thread, counts, overlap>>

Remove(s) ==
  /\ external[s].state # "absent"
  /\ external' = [external EXCEPT ![s].state = "absent"]
  /\ UNCHANGED <<tables, job, process, index, thread, counts, overlap>>

SyncStep(p) ==
  \/ Begin(p) \/ List(p) \/ MarkDisabled(p) \/ Fetch(p)
  \/ \E s \in Source : SyncSource(p, s) \/ MarkFailed(p, s)
  \/ RebuildAliases(p) \/ Finish(p) \/ Rebuild(p) \/ SyncFails(p)

SyncNext ==
  \/ \E p \in Process : Start(p) \/ StartFails(p) \/ Kill(p) \/ SyncStep(p)
  \/ \E s \in Edited : Edit(s) \/ Remove(s)

SyncSpec == Init /\ [][SyncNext]_syncVars

-----------------------------------------------------------------------------
(* Properties.                                                             *)

\* The type invariant of sync_service.py and index_store.py.
SyncTypeOK ==
  /\ external \in [Source -> External]
  /\ knowledge \in [Source -> Knowledge]
  /\ pins \in [Source -> Pins]
  /\ aliases \in [ecu : SUBSET Source, component : SUBSET Source]
  /\ job \in [Process -> {"none", "running", "success", "partial_failed", "failed"}]
  /\ process \in [Process -> {"down", "starting", "serving"}]
  /\ index \in [Process -> Index \cup {NoIndex}]
  /\ pc \in [Process -> {"idle", "begin", "list", "disable", "fetch", "source", "alias",
                         "finish", "index"}]
  /\ first \in [Process -> BOOLEAN]
  /\ read \in [Process -> [Source -> Knowledge]]
  /\ listed \in [Process -> [Source -> External]]
  /\ contents \in [Process -> [Source -> Version]]
  /\ todo \in [Process -> SUBSET Source]
  /\ failed \in [Process -> BOOLEAN]
  /\ \A p \in Process : pc[p] \in {"fetch", "source"} => todo[p] # {}
  /\ nextId \in Nat /\ faults \in Nat /\ starts \in Nat
  /\ overlap \in BOOLEAN

\* Rows that are served (of a record that is ready and enabled) are the rows of the
\* record's content, as _sync_single_source writes both in one transaction.
ReadyHasItsRows ==
  ~overlap => \A s \in Source : Ready(knowledge[s]) => pins[s].content = knowledge[s].content

\* Content that is older than the knowledge base's is never taken for current: the next
\* synchronisation fetches it again (_needs_resync), although list and contents are read
\* at different times and a synchronisation may stop anywhere.
StaleIsDetected ==
  ~overlap => \A s \in Source :
    (/\ external[s].state = "live" /\ Has(knowledge[s])
     /\ knowledge[s].content # external[s].version) => NeedsResync(knowledge[s], external[s])

\* A process that rebuilds its index never serves an older content of a source, unless the
\* source is gone from the knowledge base and was synchronised as empty.
NeverServesOlder ==
  [][\A p \in Process : (~overlap' /\ index[p] # NoIndex /\ index'[p] # NoIndex) =>
       \A s \in index[p].sources \cap index'[p].sources :
         \/ index'[p].pins[s].content >= index[p].pins[s].content
         \/ external[s].state = "absent"]_syncVars

\* A job that reports success leaves each source of its list as listed: a live one ready in
\* the listed version, a disabled one without rows (sync, lines 94-155).
SuccessIsComplete ==
  [][\A p \in Process : (~overlap /\ job[p] = "running" /\ job'[p] = "success") =>
       \A s \in Source :
         /\ listed[p][s].state = "live" =>
              Ready(knowledge[s]) /\ knowledge[s].version = listed[p][s].version
         /\ listed[p][s].state = "disabled" => ~Ready(knowledge[s]) /\ pins[s] = NoPins]_syncVars

\* A process whose first synchronisation runs before it serves does serve in the end, also
\* when the synchronisation fails (lifespan; the calls of the knowledge base have timeouts).
StartupEnds ==
  \A p \in Process : process[p] = "starting" ~> process[p] # "starting"
=============================================================================
