-------------------------- MODULE ParamSync_proofs --------------------------
(***************************************************************************)
(* Proofs about the copy of the pin tables: for any number of sources and  *)
(* processes, of restarts, kills, exceptions and edits.                    *)
(*                                                                         *)
(* The inductive invariant.  As long as no two synchronisations ran at     *)
(* once, one process at most writes (OneWriter), so what it has read is    *)
(* what the tables hold (FirstReads).  What it listed is no newer than     *)
(* what it fetched, and that no newer than the knowledge base              *)
(* (ListedVersions, FetchedVersions): a record is never marked with a      *)
(* version newer than its content.                                         *)
(***************************************************************************)
EXTENDS ParamSync, TLAPS

OneWriter ==
  ~overlap => \A p, q \in Process : Writing(p) /\ Writing(q) => p = q

DownIsIdle ==
  \A p \in Process : process[p] = "down" => pc[p] = "idle"

FirstReads ==
  \A p \in Process :
    /\ pc[p] = "list" => first[p]
    /\ first[p] => /\ pc[p] \in {"list", "disable", "fetch", "source", "alias"}
                   /\ ~overlap => read[p] = knowledge

KnownVersions ==
  \A s \in Source :
    /\ knowledge[s].version <= external[s].version
    /\ pins[s].content <= external[s].version
    /\ \A p \in Process : index[p] # NoIndex => index[p].pins[s].content <= external[s].version

TodoIsLive ==
  \A p \in Process : \A s \in todo[p] :
    pc[p] \in {"disable", "fetch", "source"} /\ listed[p][s].state = "live"

ListedVersions ==
  \A p \in Process : pc[p] \in {"disable", "fetch", "source"} =>
    \A s \in Source : listed[p][s].version <= external[s].version

FetchedVersions ==
  \A p \in Process : pc[p] = "source" => \A s \in todo[p] :
    /\ contents[p][s] <= external[s].version
    /\ external[s].state # "absent" =>
         /\ listed[p][s].version <= contents[p][s]
         /\ ~overlap => /\ pins[s].content <= contents[p][s]
                        /\ \A q \in Process : index[q] # NoIndex =>
                             index[q].pins[s].content <= contents[p][s]

\* A synchronised record is enabled; without a record there are no rows.
Records ==
  ~overlap => \A s \in Source : /\ knowledge[s].status = "ready" => knowledge[s].enabled
                                /\ ~Has(knowledge[s]) => pins[s] = NoPins

\* What a synchronisation without failures has done so far.
SoFarComplete ==
  ~overlap => \A p \in Process : ~failed[p] =>
    /\ pc[p] \in {"disable", "fetch", "source", "alias", "finish"} =>
         \A s \in Source \ todo[p] : listed[p][s].state = "live" =>
           Ready(knowledge[s]) /\ knowledge[s].version = listed[p][s].version
    /\ pc[p] \in {"fetch", "source", "alias", "finish"} =>
         \A s \in Source : listed[p][s].state = "disabled" =>
           ~Ready(knowledge[s]) /\ pins[s] = NoPins

\* What is served is no newer than the rows of a record that is ready.
ServedIsOlder ==
  ~overlap => \A p \in Process, s \in Source :
    (index[p] # NoIndex /\ s \in index[p].sources /\ Ready(knowledge[s])
       /\ external[s].state # "absent") => index[p].pins[s].content <= pins[s].content

IInv ==
  /\ SyncTypeOK /\ DownIsIdle /\ OneWriter /\ FirstReads /\ KnownVersions /\ TodoIsLive
  /\ ListedVersions /\ FetchedVersions /\ Records /\ SoFarComplete
  /\ ServedIsOlder /\ ReadyHasItsRows /\ StaleIsDetected
-----------------------------------------------------------------------------
(* Types.                                                                  *)

LEMMA LoadType == SyncTypeOK => Load \in Index
  <1> SUFFICES ASSUME SyncTypeOK PROVE Load \in Index
    OBVIOUS
  <1>1. NoPins \in Pins
    BY VersionAssumption DEF NoPins, Pins, Version
  <1>2. [s \in Source |-> IF s \in Served THEN pins[s] ELSE NoPins] \in [Source -> Pins]
    BY <1>1 DEF SyncTypeOK
  <1>3. aliases.ecu \in SUBSET Source /\ Served \in SUBSET Source
    BY DEF SyncTypeOK, Served
  <1> QED
    BY <1>2, <1>3 DEF Load, Index

LEMMA FlushedType ==
  ASSUME NEW a \in Knowledge, NEW b \in Knowledge, NEW c \in Knowledge
  PROVE  Flushed(a, b, c) \in Knowledge
  BY DEF Flushed, Knowledge

LEMMA SeenType ==
  ASSUME SyncTypeOK, NEW p \in Process, NEW s \in Source
  PROVE  Seen(p, s) \in Knowledge
  BY DEF Seen, SyncTypeOK

LEMMA NothingTypes ==
  /\ NoRecord \in Knowledge /\ NoPins \in Pins
  /\ NothingRead \in [Source -> Knowledge]
  /\ NothingListed \in [Source -> External]
  /\ NothingFetched \in [Source -> Version]
  BY VersionAssumption DEF NoRecord, Knowledge, NoPins, Pins, NothingRead, NothingListed,
     External, NothingFetched, Version

LEMMA TypeInit == Init => SyncTypeOK
  <1> SUFFICES ASSUME Init PROVE SyncTypeOK
    OBVIOUS
  <1>1. external \in [Source -> External]
    BY DEF Init
  <1> QED
    BY <1>1, NothingTypes DEF Init, SyncTypeOK

LEMMA TypeStep == SyncTypeOK /\ [SyncNext]_syncVars => SyncTypeOK'
  <1> SUFFICES ASSUME SyncTypeOK, [SyncNext]_syncVars PROVE SyncTypeOK'
    OBVIOUS
  <1> USE DEF tables, thread, counts
  <1>1. ASSUME NEW p \in Process, Start(p) PROVE SyncTypeOK'
    BY <1>1, LoadType DEF Start, SyncTypeOK
  <1>2. ASSUME NEW p \in Process, StartFails(p) PROVE SyncTypeOK'
    BY <1>2 DEF StartFails, SyncTypeOK
  <1>3. ASSUME NEW p \in Process, Kill(p) PROVE SyncTypeOK'
    BY <1>3, NothingTypes DEF Kill, Gone, SyncTypeOK
  <1>4. ASSUME NEW p \in Process, Begin(p) PROVE SyncTypeOK'
    BY <1>4 DEF Begin, SyncTypeOK
  <1>5. ASSUME NEW p \in Process, List(p) PROVE SyncTypeOK'
    <2>1. Changed(read[p], external) \subseteq Source
      BY DEF Changed
    <2> QED
      BY <1>5, <2>1 DEF List, SyncTypeOK
  <1>6. ASSUME NEW p \in Process, MarkDisabled(p) PROVE SyncTypeOK'
    <2>1. \A s \in Source :
            [Seen(p, s) EXCEPT !.status = "skipped", !.enabled = FALSE] \in Knowledge
      BY SeenType DEF Knowledge
    <2>2. knowledge' \in [Source -> Knowledge]
      BY <1>6, <2>1, SeenType, FlushedType DEF MarkDisabled, SyncTypeOK
    <2>3. pins' \in [Source -> Pins]
      BY <1>6, NothingTypes DEF MarkDisabled, SyncTypeOK
    <2>4. first' \in [Process -> BOOLEAN]
      BY <1>6 DEF MarkDisabled, SyncTypeOK
    <2> QED
      BY <1>6, <2>2, <2>3, <2>4 DEF MarkDisabled, AfterDisable, SyncTypeOK
  <1>7. ASSUME NEW p \in Process, Fetch(p) PROVE SyncTypeOK'
    BY <1>7 DEF Fetch, SyncTypeOK
  <1>8. ASSUME NEW p \in Process, NEW s \in Source, SyncSource(p, s) PROVE SyncTypeOK'
    <2>1. Synchronised(p, s) \in Knowledge
      BY VersionAssumption DEF Synchronised, SyncTypeOK, Knowledge, External, Version
    <2>2. Replaced(p, s) \in Pins
      BY DEF Replaced, SyncTypeOK, Pins
    <2>3. knowledge' \in [Source -> Knowledge] /\ pins' \in [Source -> Pins]
      BY <1>8, <2>1, <2>2, SeenType, FlushedType DEF SyncSource, SyncTypeOK
    <2> QED
      BY <1>8, <2>3 DEF SyncSource, Done, SyncTypeOK
  <1>9. ASSUME NEW p \in Process, NEW s \in Source, MarkFailed(p, s) PROVE SyncTypeOK'
    <2>1. [knowledge[s] EXCEPT !.status = "failed", !.enabled = TRUE,
                               !.version = listed[p][s].version] \in Knowledge
      <3>1. knowledge[s] \in Knowledge /\ listed[p][s].version \in Version
        BY VersionAssumption DEF SyncTypeOK, External, Version
      <3> QED
        BY <3>1 DEF Knowledge
    <2>2. knowledge' \in [Source -> Knowledge]
      BY <1>9, <2>1 DEF MarkFailed, SyncTypeOK
    <2>3. faults' \in Nat
      BY <1>9 DEF MarkFailed, SyncTypeOK
    <2> QED
      BY <1>9, <2>2, <2>3 DEF MarkFailed, Done, SyncTypeOK
  <1>10. ASSUME NEW p \in Process, RebuildAliases(p) PROVE SyncTypeOK'
    BY <1>10 DEF RebuildAliases, SyncTypeOK
  <1>11. ASSUME NEW p \in Process, Finish(p) PROVE SyncTypeOK'
    BY <1>11 DEF Finish, JobStatus, SyncTypeOK
  <1>12. ASSUME NEW p \in Process, Rebuild(p) PROVE SyncTypeOK'
    BY <1>12, NothingTypes, LoadType DEF Rebuild, Ended, Gone, SyncTypeOK
  <1>13. ASSUME NEW p \in Process, SyncFails(p) PROVE SyncTypeOK'
    BY <1>13, NothingTypes DEF SyncFails, Ended, Gone, SyncTypeOK
  <1>14. ASSUME NEW s \in Source, Edit(s) \/ Remove(s) PROVE SyncTypeOK'
    <2>1. external[s] \in External
      BY DEF SyncTypeOK
    <2>2. CASE Remove(s)
      BY <2>1, <2>2 DEF Remove, SyncTypeOK, External
    <2>3. CASE Edit(s)
      <3>1. external[s].version + 1 \in Version \ {0}
        BY <2>1, <2>3, VersionAssumption DEF Edit, External, Version
      <3> QED
        BY <2>3, <3>1 DEF Edit, SyncTypeOK, External
    <2>4. external' \in [Source -> External]
      BY <1>14, <2>2, <2>3 DEF SyncTypeOK
    <2> QED
      BY <1>14, <2>4 DEF Edit, Remove, SyncTypeOK
  <1>15. CASE UNCHANGED syncVars
    BY <1>15 DEF syncVars, SyncTypeOK
  <1> QED
    BY <1>1, <1>2, <1>3, <1>4, <1>5, <1>6, <1>7, <1>8, <1>9, <1>10, <1>11, <1>12, <1>13,
       <1>14, <1>15, EditedAssumption DEF SyncNext, SyncStep

-----------------------------------------------------------------------------
(* What the steps do.                                                      *)

VersionTypes(s) ==
  /\ external[s].version \in Nat /\ external[s].version > 0
  /\ knowledge[s] \in Knowledge /\ knowledge[s].version \in Nat /\ knowledge[s].content \in Nat
  /\ pins[s].content \in Nat
  /\ \A p \in Process : /\ listed[p][s].version \in Nat /\ contents[p][s] \in Nat
                        /\ index[p] # NoIndex => index[p].pins[s].content \in Nat

LEMMA Versions ==
  ASSUME SyncTypeOK, NEW s \in Source
  PROVE  VersionTypes(s)
  <1>1. external[s] \in External /\ knowledge[s] \in Knowledge /\ pins[s] \in Pins
    BY DEF SyncTypeOK
  <1>2. ASSUME NEW p \in Process
        PROVE  /\ listed[p][s] \in External /\ contents[p][s] \in Version
               /\ index[p] # NoIndex => index[p].pins[s] \in Pins
    BY DEF SyncTypeOK, Index
  <1>3. Version \subseteq Nat /\ 0 \in Version
    BY VersionAssumption DEF Version
  <1> QED
    BY <1>1, <1>2, <1>3 DEF External, Knowledge, Pins, Version, VersionTypes

\* Others edit a source: its version grows, and a source that is gone stays away.
NewerOrGone(t) ==
  /\ external'[t].version \in Nat
  /\ external[t].version <= external'[t].version
  /\ external[t].state = "absent" => external'[t].state = "absent"
  /\ external'[t].version = external[t].version =>
       external'[t].state \in {external[t].state, "absent"}

LEMMA EditFacts ==
  ASSUME SyncTypeOK, SyncTypeOK', NEW s \in Source, Edit(s) \/ Remove(s), NEW t \in Source
  PROVE  NewerOrGone(t)
  <1>1. external[t] \in External /\ external[s] \in External
    BY DEF SyncTypeOK
  <1>2. external[t].version \in Nat /\ external[s].version \in Nat
    BY Versions DEF VersionTypes
  <1>0. external'[t].version \in Nat
    BY VersionAssumption DEF SyncTypeOK, External, Version
  <1>3. CASE Remove(s)
    BY <1>0, <1>1, <1>2, <1>3 DEF Remove, SyncTypeOK, NewerOrGone
  <1>4. CASE Edit(s)
    <2>1. CASE t = s
      BY <1>0, <1>1, <1>2, <1>4, <2>1 DEF Edit, SyncTypeOK, NewerOrGone
    <2>2. CASE t # s
      BY <1>0, <1>1, <1>2, <1>4, <2>2 DEF Edit, SyncTypeOK, NewerOrGone
    <2> QED
      BY <2>1, <2>2
  <1> QED
    BY <1>0, <1>3, <1>4 DEF NewerOrGone

\* As long as no two synchronisations ran at once, a process sees the tables as they are.
LEMMA SeenIsCurrent ==
  ASSUME IInv, ~overlap, NEW p \in Process, NEW s \in Source
  PROVE  Seen(p, s) = knowledge[s]
  BY DEF Seen, IInv, FirstReads

LEMMA FlushedFacts ==
  ASSUME NEW a \in Knowledge, NEW b \in Knowledge, NEW c \in Knowledge
  PROVE  /\ Flushed(a, a, c) = c
         /\ Flushed(a, b, c).version \in {a.version, c.version}
         /\ b.version = c.version => Flushed(a, b, c).version = a.version
  <1>1. Flushed(a, a, c) = [status |-> c.status, enabled |-> c.enabled, version |-> c.version,
                            content |-> c.content]
    BY DEF Flushed
  <1>2. c = [status |-> c.status, enabled |-> c.enabled, version |-> c.version,
             content |-> c.content]
    BY DEF Knowledge
  <1>3. Flushed(a, b, c).version = IF b.version = c.version THEN a.version ELSE c.version
    BY DEF Flushed
  <1> QED
    BY <1>1, <1>2, <1>3

SourceWritten(p, s) ==
  /\ \A t \in Source \ {s} : knowledge'[t] = knowledge[t] /\ pins'[t] = pins[t]
  /\ pins'[s].content = contents[p][s]
  /\ knowledge'[s].version \in {knowledge[s].version, listed[p][s].version}
  /\ ~overlap => /\ knowledge'[s].status = "ready" /\ knowledge'[s].enabled = TRUE
                 /\ knowledge'[s].version = listed[p][s].version
                 /\ knowledge'[s].content = contents[p][s]
  /\ pc[p] = "source" /\ s \in todo[p] /\ todo' = [todo EXCEPT ![p] = @ \ {s}]
  /\ pc' = [pc EXCEPT ![p] = IF todo[p] = {s} THEN "alias" ELSE "source"]
  /\ UNCHANGED <<external, index, process, listed, contents, failed, overlap>>

LEMMA SyncSourceFacts ==
  ASSUME IInv, NEW p \in Process, NEW s \in Source, SyncSource(p, s)
  PROVE  SourceWritten(p, s)
  <1> USE DEF IInv
  <1>1. /\ knowledge' = [knowledge EXCEPT ![s] = Flushed(@, Seen(p, s), Synchronised(p, s))]
        /\ pins' = [pins EXCEPT ![s] = Replaced(p, s)]
        /\ pc[p] = "source" /\ s \in todo[p] /\ todo' = [todo EXCEPT ![p] = @ \ {s}]
        /\ pc' = [pc EXCEPT ![p] = IF todo[p] = {s} THEN "alias" ELSE "source"]
        /\ UNCHANGED <<external, index, process, listed, contents, failed, overlap>>
    BY DEF SyncSource, Done
  <1>2. Synchronised(p, s) \in Knowledge
    <2>1. listed[p][s].version \in Version /\ contents[p][s] \in Version
      BY DEF SyncTypeOK, External
    <2> QED
      BY <2>1 DEF Synchronised, Knowledge
  <1>3. knowledge[s] \in Knowledge /\ Seen(p, s) \in Knowledge
    BY SeenType DEF SyncTypeOK
  <1>4. knowledge'[s] = Flushed(knowledge[s], Seen(p, s), Synchronised(p, s))
    BY <1>1 DEF SyncTypeOK
  <1>5. knowledge'[s].version \in {knowledge[s].version, listed[p][s].version}
    BY <1>2, <1>3, <1>4, FlushedFacts DEF Synchronised
  <1>6. ~overlap => knowledge'[s] = Synchronised(p, s)
    BY <1>2, <1>3, <1>4, FlushedFacts, SeenIsCurrent
  <1>7. pins'[s].content = contents[p][s]
    BY <1>1 DEF SyncTypeOK, Replaced
  <1>8. \A t \in Source \ {s} : knowledge'[t] = knowledge[t] /\ pins'[t] = pins[t]
    BY <1>1 DEF SyncTypeOK
  <1> QED
    BY <1>1, <1>5, <1>6, <1>7, <1>8 DEF Synchronised, SourceWritten

SourceFailed(p, s) ==
  /\ \A t \in Source \ {s} : knowledge'[t] = knowledge[t]
  /\ knowledge'[s].status = "failed" /\ knowledge'[s].version = listed[p][s].version
  /\ pc[p] = "source" /\ s \in todo[p] /\ todo' = [todo EXCEPT ![p] = @ \ {s}]
  /\ pc' = [pc EXCEPT ![p] = IF todo[p] = {s} THEN "alias" ELSE "source"]
  /\ failed' = [failed EXCEPT ![p] = TRUE]
  /\ UNCHANGED <<pins, external, index, process, listed, contents, overlap>>

LEMMA MarkFailedFacts ==
  ASSUME IInv, NEW p \in Process, NEW s \in Source, MarkFailed(p, s)
  PROVE  SourceFailed(p, s)
  <1>1. knowledge[s] \in Knowledge
    BY DEF IInv, SyncTypeOK
  <1>2. knowledge' = [knowledge EXCEPT ![s] =
       [@ EXCEPT !.status = "failed", !.enabled = TRUE, !.version = listed[p][s].version]]
    BY DEF MarkFailed
  <1>3. \A t \in Source \ {s} : knowledge'[t] = knowledge[t]
    BY <1>2 DEF IInv, SyncTypeOK
  <1>4. knowledge'[s].status = "failed" /\ knowledge'[s].version = listed[p][s].version
    BY <1>1, <1>2 DEF IInv, SyncTypeOK, Knowledge
  <1> QED
    BY <1>3, <1>4 DEF MarkFailed, Done, SourceFailed

SourcesDisabled(p) ==
  /\ \A s \in Source :
       /\ knowledge'[s].version = knowledge[s].version
       /\ pins'[s] \in {pins[s], NoPins}
       /\ listed[p][s].state # "disabled" => knowledge'[s] = knowledge[s] /\ pins'[s] = pins[s]
       /\ ~Has(Seen(p, s)) => knowledge'[s] = knowledge[s] /\ pins'[s] = pins[s]
       /\ (listed[p][s].state = "disabled" /\ Has(Seen(p, s)) /\ ~overlap) =>
            knowledge'[s].status = "skipped" /\ pins'[s] = NoPins
  /\ Disabled(p) = {} => knowledge' = knowledge
  /\ pc[p] = "disable" /\ pc' = [pc EXCEPT ![p] = AfterDisable(p)]
  /\ first' = [first EXCEPT ![p] = @ /\ Disabled(p) = {}]
  /\ UNCHANGED <<external, index, process, todo, listed, contents, read, failed, overlap>>

LEMMA MarkDisabledFacts ==
  ASSUME IInv, NEW p \in Process, MarkDisabled(p)
  PROVE  SourcesDisabled(p)
  <1> DEFINE known == {s \in Disabled(p) : Has(Seen(p, s))}
             off(s) == [Seen(p, s) EXCEPT !.status = "skipped", !.enabled = FALSE]
  <1>1. /\ knowledge' = [s \in Source |->
             IF s \in known THEN Flushed(knowledge[s], Seen(p, s), off(s)) ELSE knowledge[s]]
        /\ pins' = [s \in Source |-> IF s \in known THEN NoPins ELSE pins[s]]
    BY DEF MarkDisabled
  <1>2. ASSUME NEW s \in Source
        PROVE  /\ knowledge[s] \in Knowledge /\ Seen(p, s) \in Knowledge /\ off(s) \in Knowledge
               /\ off(s).version = Seen(p, s).version /\ off(s).status = "skipped"
    <2>1. knowledge[s] \in Knowledge /\ Seen(p, s) \in Knowledge
      BY SeenType DEF IInv, SyncTypeOK
    <2> QED
      BY <2>1 DEF Knowledge
  <1>3. ASSUME NEW s \in Source
        PROVE  s \in known <=> listed[p][s].state = "disabled" /\ Has(Seen(p, s))
    BY DEF Disabled
  <1> HIDE DEF known, off
  <1>4. ASSUME NEW s \in Source PROVE knowledge'[s].version = knowledge[s].version
    BY <1>1, <1>2, FlushedFacts
  <1>5. ASSUME NEW s \in Source, s \in known, ~overlap
        PROVE  knowledge'[s].status = "skipped" /\ pins'[s] = NoPins
    BY <1>1, <1>2, <1>5, FlushedFacts, SeenIsCurrent
  <1>6. ASSUME Disabled(p) = {} PROVE knowledge' = knowledge
    <2>1. known = {}
      BY <1>6 DEF known
    <2> QED
      BY <1>1, <2>1 DEF IInv, SyncTypeOK
  <1>7. ASSUME NEW s \in Source, s \notin known PROVE knowledge'[s] = knowledge[s] /\ pins'[s] = pins[s]
    BY <1>1, <1>7
  <1>8. ASSUME NEW s \in Source PROVE pins'[s] \in {pins[s], NoPins}
    BY <1>1
  <1> QED
    BY <1>3, <1>4, <1>5, <1>6, <1>7, <1>8 DEF MarkDisabled, SourcesDisabled

\* The index that is loaded has the rows of the tables, or none.
LoadsRows(s) ==
  /\ Load.pins[s].content <= pins[s].content
  /\ s \in Load.sources => Load.pins[s] = pins[s] /\ Ready(knowledge[s])

LEMMA LoadFacts ==
  ASSUME IInv, NEW s \in Source
  PROVE  LoadsRows(s)
  BY Versions DEF VersionTypes, Load, NoPins, Served, IInv, LoadsRows

-----------------------------------------------------------------------------
(* The invariant.                                                          *)

LEMMA DownStep == IInv /\ [SyncNext]_syncVars => DownIsIdle'
  <1> SUFFICES ASSUME IInv, [SyncNext]_syncVars PROVE DownIsIdle'
    OBVIOUS
  <1> USE DEF tables, thread, counts
  <1>0. SyncTypeOK'
    BY TypeStep DEF IInv
  <1>1. ASSUME NEW p \in Process, Start(p) PROVE DownIsIdle'
    BY <1>0, <1>1 DEF Start, Load, IInv, DownIsIdle, SyncTypeOK
  <1>2. ASSUME NEW p \in Process, StartFails(p) PROVE DownIsIdle'
    BY <1>0, <1>2 DEF StartFails, IInv, DownIsIdle, SyncTypeOK
  <1>3. ASSUME NEW p \in Process, Kill(p) PROVE DownIsIdle'
    BY <1>0, <1>3 DEF Kill, Gone, IInv, DownIsIdle, SyncTypeOK
  <1>4. ASSUME NEW p \in Process, Begin(p) PROVE DownIsIdle'
    BY <1>0, <1>4 DEF Begin, IInv, DownIsIdle, SyncTypeOK
  <1>5. ASSUME NEW p \in Process, List(p) PROVE DownIsIdle'
    BY <1>0, <1>5 DEF List, Changed, IInv, DownIsIdle, SyncTypeOK
  <1>6. ASSUME NEW p \in Process, MarkDisabled(p) PROVE DownIsIdle'
    <2>1. /\ pc[p] = "disable" /\ pc' = [pc EXCEPT ![p] = AfterDisable(p)]
          /\ first' = [first EXCEPT ![p] = @ /\ Disabled(p) = {}]
          /\ UNCHANGED <<external, process, index, todo, listed, contents, read, failed, overlap>>
      BY <1>6 DEF MarkDisabled
    <2> QED
      BY <1>0, <2>1 DEF AfterDisable, IInv, DownIsIdle, SyncTypeOK
  <1>7. ASSUME NEW p \in Process, Fetch(p) PROVE DownIsIdle'
    BY <1>0, <1>7 DEF Fetch, Fetched, IInv, DownIsIdle, SyncTypeOK
  <1>8. ASSUME NEW p \in Process, NEW s \in Source, SyncSource(p, s) PROVE DownIsIdle'
    BY <1>0, <1>8 DEF SyncSource, Done, Replaced, Synchronised, IInv, DownIsIdle, SyncTypeOK
  <1>9. ASSUME NEW p \in Process, NEW s \in Source, MarkFailed(p, s) PROVE DownIsIdle'
    BY <1>0, <1>9 DEF MarkFailed, Done, IInv, DownIsIdle, SyncTypeOK
  <1>10. ASSUME NEW p \in Process, RebuildAliases(p) PROVE DownIsIdle'
    BY <1>0, <1>10 DEF RebuildAliases, IInv, DownIsIdle, SyncTypeOK
  <1>11. ASSUME NEW p \in Process, Finish(p) PROVE DownIsIdle'
    BY <1>0, <1>11 DEF Finish, JobStatus, IInv, DownIsIdle, SyncTypeOK
  <1>12. ASSUME NEW p \in Process, Rebuild(p) PROVE DownIsIdle'
    BY <1>0, <1>12 DEF Rebuild, Ended, Gone, Load, IInv, DownIsIdle, SyncTypeOK
  <1>13. ASSUME NEW p \in Process, SyncFails(p) PROVE DownIsIdle'
    BY <1>0, <1>13 DEF SyncFails, Ended, Gone, IInv, DownIsIdle, SyncTypeOK
  <1>14. ASSUME NEW s \in Source, Edit(s) \/ Remove(s) PROVE DownIsIdle'
    BY <1>0, <1>14 DEF Edit, Remove, IInv, DownIsIdle, SyncTypeOK
  <1>15. CASE UNCHANGED syncVars
    BY <1>15 DEF syncVars, IInv, DownIsIdle, SyncTypeOK
  <1> QED
    BY <1>1, <1>2, <1>3, <1>4, <1>5, <1>6, <1>7, <1>8, <1>9, <1>10, <1>11, <1>12, <1>13, <1>14,
       <1>15, EditedAssumption
       DEF SyncNext, SyncStep

LEMMA WriterStep == IInv /\ [SyncNext]_syncVars => OneWriter'
  <1> SUFFICES ASSUME IInv, [SyncNext]_syncVars PROVE OneWriter'
    OBVIOUS
  <1> USE DEF tables, thread, counts
  <1>0. SyncTypeOK'
    BY TypeStep DEF IInv
  <1>1. ASSUME NEW p \in Process, Start(p) PROVE OneWriter'
    BY <1>0, <1>1 DEF Start, Load, IInv, OneWriter, Writing, SyncTypeOK
  <1>2. ASSUME NEW p \in Process, StartFails(p) PROVE OneWriter'
    BY <1>0, <1>2 DEF StartFails, IInv, OneWriter, Writing, SyncTypeOK
  <1>3. ASSUME NEW p \in Process, Kill(p) PROVE OneWriter'
    BY <1>0, <1>3 DEF Kill, Gone, IInv, OneWriter, Writing, SyncTypeOK
  <1>4. ASSUME NEW p \in Process, Begin(p) PROVE OneWriter'
    <2>1. /\ pc[p] = "begin" /\ pc' = [pc EXCEPT ![p] = "list"]
          /\ overlap' = (overlap \/ \E q \in Process \ {p} : Writing(q))
      BY <1>4 DEF Begin
    <2>2. ASSUME ~overlap', NEW q \in Process, Writing(q)' PROVE q = p
      BY <2>1, <2>2 DEF Writing, IInv, SyncTypeOK
    <2> QED
      BY <2>2 DEF OneWriter
  <1>5. ASSUME NEW p \in Process, List(p) PROVE OneWriter'
    BY <1>0, <1>5 DEF List, Changed, IInv, OneWriter, Writing, SyncTypeOK
  <1>6. ASSUME NEW p \in Process, MarkDisabled(p) PROVE OneWriter'
    <2>1. /\ pc[p] = "disable" /\ pc' = [pc EXCEPT ![p] = AfterDisable(p)]
          /\ first' = [first EXCEPT ![p] = @ /\ Disabled(p) = {}]
          /\ UNCHANGED <<external, process, index, todo, listed, contents, read, failed, overlap>>
      BY <1>6 DEF MarkDisabled
    <2> QED
      BY <1>0, <2>1 DEF AfterDisable, IInv, OneWriter, Writing, SyncTypeOK
  <1>7. ASSUME NEW p \in Process, Fetch(p) PROVE OneWriter'
    BY <1>0, <1>7 DEF Fetch, Fetched, IInv, OneWriter, Writing, SyncTypeOK
  <1>8. ASSUME NEW p \in Process, NEW s \in Source, SyncSource(p, s) PROVE OneWriter'
    BY <1>0, <1>8 DEF SyncSource, Done, Replaced, Synchronised, IInv, OneWriter, Writing,
       SyncTypeOK
  <1>9. ASSUME NEW p \in Process, NEW s \in Source, MarkFailed(p, s) PROVE OneWriter'
    BY <1>0, <1>9 DEF MarkFailed, Done, IInv, OneWriter, Writing, SyncTypeOK
  <1>10. ASSUME NEW p \in Process, RebuildAliases(p) PROVE OneWriter'
    BY <1>0, <1>10 DEF RebuildAliases, IInv, OneWriter, Writing, SyncTypeOK
  <1>11. ASSUME NEW p \in Process, Finish(p) PROVE OneWriter'
    BY <1>0, <1>11 DEF Finish, JobStatus, IInv, OneWriter, Writing, SyncTypeOK
  <1>12. ASSUME NEW p \in Process, Rebuild(p) PROVE OneWriter'
    BY <1>0, <1>12 DEF Rebuild, Ended, Gone, Load, IInv, OneWriter, Writing, SyncTypeOK
  <1>13. ASSUME NEW p \in Process, SyncFails(p) PROVE OneWriter'
    BY <1>0, <1>13 DEF SyncFails, Ended, Gone, IInv, OneWriter, Writing, SyncTypeOK
  <1>14. ASSUME NEW s \in Source, Edit(s) \/ Remove(s) PROVE OneWriter'
    BY <1>0, <1>14 DEF Edit, Remove, IInv, OneWriter, Writing, SyncTypeOK
  <1>15. CASE UNCHANGED syncVars
    BY <1>15 DEF syncVars, IInv, OneWriter, Writing, SyncTypeOK
  <1> QED
    BY <1>1, <1>2, <1>3, <1>4, <1>5, <1>6, <1>7, <1>8, <1>9, <1>10, <1>11, <1>12, <1>13, <1>14,
       <1>15, EditedAssumption
       DEF SyncNext, SyncStep

LEMMA TodoStep == IInv /\ [SyncNext]_syncVars => TodoIsLive'
  <1> SUFFICES ASSUME IInv, [SyncNext]_syncVars PROVE TodoIsLive'
    OBVIOUS
  <1> USE DEF tables, thread, counts
  <1>0. SyncTypeOK'
    BY TypeStep DEF IInv
  <1>1. ASSUME NEW p \in Process, Start(p) PROVE TodoIsLive'
    BY <1>0, <1>1 DEF Start, Load, IInv, DownIsIdle, TodoIsLive, SyncTypeOK
  <1>2. ASSUME NEW p \in Process, StartFails(p) PROVE TodoIsLive'
    BY <1>0, <1>2 DEF StartFails, IInv, DownIsIdle, TodoIsLive, SyncTypeOK
  <1>3. ASSUME NEW p \in Process, Kill(p) PROVE TodoIsLive'
    BY <1>0, <1>3 DEF Kill, Gone, IInv, DownIsIdle, TodoIsLive, SyncTypeOK
  <1>4. ASSUME NEW p \in Process, Begin(p) PROVE TodoIsLive'
    BY <1>0, <1>4 DEF Begin, IInv, DownIsIdle, TodoIsLive, SyncTypeOK
  <1>5. ASSUME NEW p \in Process, List(p) PROVE TodoIsLive'
    BY <1>0, <1>5 DEF List, Changed, IInv, DownIsIdle, TodoIsLive, SyncTypeOK
  <1>6. ASSUME NEW p \in Process, MarkDisabled(p) PROVE TodoIsLive'
    <2>1. /\ pc[p] = "disable" /\ pc' = [pc EXCEPT ![p] = AfterDisable(p)]
          /\ first' = [first EXCEPT ![p] = @ /\ Disabled(p) = {}]
          /\ UNCHANGED <<external, process, index, todo, listed, contents, read, failed, overlap>>
      BY <1>6 DEF MarkDisabled
    <2> QED
      BY <1>0, <2>1 DEF AfterDisable, IInv, TodoIsLive, SyncTypeOK
  <1>7. ASSUME NEW p \in Process, Fetch(p) PROVE TodoIsLive'
    BY <1>0, <1>7 DEF Fetch, Fetched, IInv, DownIsIdle, TodoIsLive, SyncTypeOK
  <1>8. ASSUME NEW p \in Process, NEW s \in Source, SyncSource(p, s) PROVE TodoIsLive'
    BY <1>0, <1>8 DEF SyncSource, Done, Replaced, Synchronised, IInv, DownIsIdle, TodoIsLive,
       SyncTypeOK
  <1>9. ASSUME NEW p \in Process, NEW s \in Source, MarkFailed(p, s) PROVE TodoIsLive'
    BY <1>0, <1>9 DEF MarkFailed, Done, IInv, DownIsIdle, TodoIsLive, SyncTypeOK
  <1>10. ASSUME NEW p \in Process, RebuildAliases(p) PROVE TodoIsLive'
    BY <1>0, <1>10 DEF RebuildAliases, IInv, DownIsIdle, TodoIsLive, SyncTypeOK
  <1>11. ASSUME NEW p \in Process, Finish(p) PROVE TodoIsLive'
    BY <1>0, <1>11 DEF Finish, JobStatus, IInv, DownIsIdle, TodoIsLive, SyncTypeOK
  <1>12. ASSUME NEW p \in Process, Rebuild(p) PROVE TodoIsLive'
    BY <1>0, <1>12 DEF Rebuild, Ended, Gone, Load, IInv, DownIsIdle, TodoIsLive, SyncTypeOK
  <1>13. ASSUME NEW p \in Process, SyncFails(p) PROVE TodoIsLive'
    BY <1>0, <1>13 DEF SyncFails, Ended, Gone, IInv, DownIsIdle, TodoIsLive, SyncTypeOK
  <1>14. ASSUME NEW s \in Source, Edit(s) \/ Remove(s) PROVE TodoIsLive'
    BY <1>0, <1>14 DEF Edit, Remove, IInv, DownIsIdle, TodoIsLive, SyncTypeOK
  <1>15. CASE UNCHANGED syncVars
    BY <1>15 DEF syncVars, IInv, DownIsIdle, TodoIsLive, SyncTypeOK
  <1> QED
    BY <1>1, <1>2, <1>3, <1>4, <1>5, <1>6, <1>7, <1>8, <1>9, <1>10, <1>11, <1>12, <1>13, <1>14,
       <1>15, EditedAssumption
       DEF SyncNext, SyncStep

LEMMA KnownStep == IInv /\ [SyncNext]_syncVars => KnownVersions'
  <1> SUFFICES ASSUME IInv, [SyncNext]_syncVars PROVE KnownVersions'
    OBVIOUS
  <1> USE DEF tables, thread, counts
  <1>0. SyncTypeOK /\ SyncTypeOK'
    BY TypeStep DEF IInv
  <1>a. KnownVersions /\ ListedVersions /\ FetchedVersions
    BY DEF IInv
  <1>b. \A z \in Source : VersionTypes(z)
    BY Versions DEF IInv
  <1>1. ASSUME NEW p \in Process, Start(p) PROVE KnownVersions'
    <2>1. \A z \in Source : LoadsRows(z)
      BY LoadFacts
    <2>2. \A q \in Process : index'[q] \in {index[q], Load}
      BY <1>0, <1>1 DEF Start, SyncTypeOK
    <2>3. UNCHANGED <<external, knowledge, pins, overlap>>
      BY <1>1 DEF Start
    <2>4. \A z \in Source : Load.pins[z].content \in Nat /\ Load.pins[z].content <= external[z].version
      <3>1. \A z \in Source : Load.pins[z].content \in Nat
        BY LoadType, <1>0, VersionAssumption DEF Index, Pins, Version
      <3> QED
        BY <1>a, <1>b, <2>1, <3>1 DEF KnownVersions, LoadsRows, VersionTypes
    <2> QED
      BY <1>a, <2>2, <2>3, <2>4 DEF KnownVersions
  <1>2. ASSUME NEW p \in Process, StartFails(p) PROVE KnownVersions'
    BY <1>0, <1>a, <1>2 DEF StartFails, KnownVersions
  <1>3. ASSUME NEW p \in Process, Kill(p) PROVE KnownVersions'
    BY <1>0, <1>a, <1>3 DEF Kill, Gone, KnownVersions, SyncTypeOK
  <1>4. ASSUME NEW p \in Process, Begin(p) PROVE KnownVersions'
    BY <1>0, <1>a, <1>4 DEF Begin, KnownVersions
  <1>5. ASSUME NEW p \in Process, List(p) PROVE KnownVersions'
    BY <1>0, <1>a, <1>5 DEF List, KnownVersions
  <1>6. ASSUME NEW p \in Process, MarkDisabled(p) PROVE KnownVersions'
    <2>1. SourcesDisabled(p)
      BY <1>6, <1>0, MarkDisabledFacts
    <2> QED
      BY <1>0, <1>a, <1>b, <1>6, <2>1 DEF SourcesDisabled, VersionTypes, KnownVersions, NoPins
  <1>7. ASSUME NEW p \in Process, Fetch(p) PROVE KnownVersions'
    BY <1>0, <1>a, <1>b, <1>7 DEF Fetch, Fetched, KnownVersions, VersionTypes
  <1>8. ASSUME NEW p \in Process, NEW s \in Source, SyncSource(p, s) PROVE KnownVersions'
    <2>1. SourceWritten(p, s)
      BY <1>8, <1>0, SyncSourceFacts
    <2> QED
      BY <1>0, <1>a, <1>b, <1>8, <2>1 DEF SourceWritten, VersionTypes, KnownVersions,
         ListedVersions, FetchedVersions
  <1>9. ASSUME NEW p \in Process, NEW s \in Source, MarkFailed(p, s) PROVE KnownVersions'
    <2>1. SourceFailed(p, s)
      BY <1>9, <1>0, MarkFailedFacts
    <2> QED
      BY <1>0, <1>a, <1>b, <1>9, <2>1 DEF SourceFailed, VersionTypes, KnownVersions,
         ListedVersions
  <1>10. ASSUME NEW p \in Process, RebuildAliases(p) PROVE KnownVersions'
    BY <1>0, <1>a, <1>10 DEF RebuildAliases, KnownVersions
  <1>11. ASSUME NEW p \in Process, Finish(p) PROVE KnownVersions'
    BY <1>0, <1>a, <1>11 DEF Finish, JobStatus, KnownVersions
  <1>12. ASSUME NEW p \in Process, Rebuild(p) PROVE KnownVersions'
    <2>1. \A z \in Source : LoadsRows(z)
      BY LoadFacts
    <2>2. \A q \in Process : index'[q] \in {index[q], Load}
      BY <1>0, <1>12 DEF Rebuild, Ended, Gone, SyncTypeOK
    <2>3. UNCHANGED <<external, knowledge, pins, overlap>>
      BY <1>12 DEF Rebuild, Ended, Gone
    <2>4. \A z \in Source : Load.pins[z].content \in Nat /\ Load.pins[z].content <= external[z].version
      <3>1. \A z \in Source : Load.pins[z].content \in Nat
        BY LoadType, <1>0, VersionAssumption DEF Index, Pins, Version
      <3> QED
        BY <1>a, <1>b, <2>1, <3>1 DEF KnownVersions, LoadsRows, VersionTypes
    <2> QED
      BY <1>a, <2>2, <2>3, <2>4 DEF KnownVersions
  <1>13. ASSUME NEW p \in Process, SyncFails(p) PROVE KnownVersions'
    BY <1>0, <1>a, <1>13 DEF SyncFails, Ended, Gone, KnownVersions
  <1>14. ASSUME NEW s \in Source, Edit(s) \/ Remove(s) PROVE KnownVersions'
    <2>1. \A z \in Source : NewerOrGone(z)
      BY <1>14, <1>0, EditFacts
    <2> QED
      BY <1>0, <1>a, <1>b, <1>14, <2>1 DEF NewerOrGone, VersionTypes, Edit, Remove, KnownVersions
  <1>15. CASE UNCHANGED syncVars
    BY <1>a, <1>15 DEF syncVars, KnownVersions
  <1> QED
    BY <1>1, <1>2, <1>3, <1>4, <1>5, <1>6, <1>7, <1>8, <1>9, <1>10, <1>11, <1>12, <1>13, <1>14,
       <1>15, EditedAssumption
       DEF SyncNext, SyncStep

LEMMA ListedStep == IInv /\ [SyncNext]_syncVars => ListedVersions'
  <1> SUFFICES ASSUME IInv, [SyncNext]_syncVars PROVE ListedVersions'
    OBVIOUS
  <1> USE DEF tables, thread, counts
  <1>0. SyncTypeOK /\ SyncTypeOK'
    BY TypeStep DEF IInv
  <1>a. ListedVersions /\ DownIsIdle
    BY DEF IInv
  <1>b. \A z \in Source : VersionTypes(z)
    BY Versions DEF IInv
  <1>1. ASSUME NEW p \in Process, Start(p) PROVE ListedVersions'
    <2>1. \A z \in Source : LoadsRows(z)
      BY <1>1, <1>0, LoadFacts
    <2> QED
      BY <1>0, <1>a, <1>b, <1>1, <2>1 DEF LoadsRows, VersionTypes, Start, ListedVersions,
         SyncTypeOK, DownIsIdle
  <1>2. ASSUME NEW p \in Process, StartFails(p) PROVE ListedVersions'
    BY <1>0, <1>a, <1>2 DEF StartFails, ListedVersions, DownIsIdle
  <1>3. ASSUME NEW p \in Process, Kill(p) PROVE ListedVersions'
    BY <1>0, <1>a, <1>3 DEF Kill, Gone, ListedVersions, SyncTypeOK
  <1>4. ASSUME NEW p \in Process, Begin(p) PROVE ListedVersions'
    BY <1>0, <1>a, <1>4 DEF Begin, ListedVersions, SyncTypeOK
  <1>5. ASSUME NEW p \in Process, List(p) PROVE ListedVersions'
    BY <1>0, <1>a, <1>5 DEF List, ListedVersions, SyncTypeOK, External, Version
  <1>6. ASSUME NEW p \in Process, MarkDisabled(p) PROVE ListedVersions'
    <2>1. SourcesDisabled(p)
      BY <1>6, <1>0, MarkDisabledFacts
    <2> QED
      BY <1>0, <1>a, <1>b, <1>6, <2>1 DEF SourcesDisabled, VersionTypes, ListedVersions,
         SyncTypeOK, AfterDisable
  <1>7. ASSUME NEW p \in Process, Fetch(p) PROVE ListedVersions'
    BY <1>0, <1>a, <1>b, <1>7 DEF Fetch, Fetched, ListedVersions, SyncTypeOK, VersionTypes
  <1>8. ASSUME NEW p \in Process, NEW s \in Source, SyncSource(p, s) PROVE ListedVersions'
    <2>1. SourceWritten(p, s)
      BY <1>8, <1>0, SyncSourceFacts
    <2> QED
      BY <1>0, <1>a, <1>b, <1>8, <2>1 DEF SourceWritten, VersionTypes, ListedVersions, SyncTypeOK
  <1>9. ASSUME NEW p \in Process, NEW s \in Source, MarkFailed(p, s) PROVE ListedVersions'
    <2>1. SourceFailed(p, s)
      BY <1>9, <1>0, MarkFailedFacts
    <2> QED
      BY <1>0, <1>a, <1>b, <1>9, <2>1 DEF SourceFailed, VersionTypes, ListedVersions, SyncTypeOK
  <1>10. ASSUME NEW p \in Process, RebuildAliases(p) PROVE ListedVersions'
    BY <1>0, <1>a, <1>10 DEF RebuildAliases, ListedVersions, SyncTypeOK
  <1>11. ASSUME NEW p \in Process, Finish(p) PROVE ListedVersions'
    BY <1>0, <1>a, <1>11 DEF Finish, JobStatus, ListedVersions, SyncTypeOK
  <1>12. ASSUME NEW p \in Process, Rebuild(p) PROVE ListedVersions'
    <2>1. \A z \in Source : LoadsRows(z)
      BY <1>12, <1>0, LoadFacts
    <2> QED
      BY <1>0, <1>a, <1>b, <1>12, <2>1 DEF LoadsRows, VersionTypes, Rebuild, Ended, Gone,
         ListedVersions, SyncTypeOK
  <1>13. ASSUME NEW p \in Process, SyncFails(p) PROVE ListedVersions'
    BY <1>0, <1>a, <1>13 DEF SyncFails, Ended, Gone, ListedVersions, SyncTypeOK
  <1>14. ASSUME NEW s \in Source, Edit(s) \/ Remove(s) PROVE ListedVersions'
    <2>1. \A z \in Source : NewerOrGone(z)
      BY <1>0, <1>14, EditFacts
    <2>2. UNCHANGED <<pc, listed>>
      BY <1>14 DEF Edit, Remove
    <2> QED
      BY <1>a, <1>b, <2>1, <2>2 DEF NewerOrGone, VersionTypes, ListedVersions
  <1>15. CASE UNCHANGED syncVars
    BY <1>a, <1>15 DEF syncVars, ListedVersions
  <1> QED
    BY <1>1, <1>2, <1>3, <1>4, <1>5, <1>6, <1>7, <1>8, <1>9, <1>10, <1>11, <1>12, <1>13, <1>14,
       <1>15, EditedAssumption
       DEF SyncNext, SyncStep

LEMMA FirstStep == IInv /\ [SyncNext]_syncVars => FirstReads'
  <1> SUFFICES ASSUME IInv, [SyncNext]_syncVars PROVE FirstReads'
    OBVIOUS
  <1> USE DEF tables, thread, counts
  <1>0. SyncTypeOK /\ SyncTypeOK'
    BY TypeStep DEF IInv
  <1>a. FirstReads /\ DownIsIdle /\ OneWriter
    BY DEF IInv
  <1>b. \A z \in Source : VersionTypes(z)
    BY Versions DEF IInv
  <1>1. ASSUME NEW p \in Process, Start(p) PROVE FirstReads'
    <2>1. \A z \in Source : LoadsRows(z)
      BY <1>1, <1>0, LoadFacts
    <2> QED
      BY <1>0, <1>a, <1>b, <1>1, <2>1 DEF LoadsRows, VersionTypes, Start, FirstReads, SyncTypeOK,
         DownIsIdle
  <1>2. ASSUME NEW p \in Process, StartFails(p) PROVE FirstReads'
    BY <1>0, <1>a, <1>2 DEF StartFails, FirstReads, DownIsIdle
  <1>3. ASSUME NEW p \in Process, Kill(p) PROVE FirstReads'
    BY <1>0, <1>a, <1>3 DEF Kill, Gone, FirstReads, SyncTypeOK, Writing, OneWriter
  <1>4. ASSUME NEW p \in Process, Begin(p) PROVE FirstReads'
    BY <1>0, <1>a, <1>4 DEF Begin, FirstReads, SyncTypeOK, Writing, OneWriter
  <1>5. ASSUME NEW p \in Process, List(p) PROVE FirstReads'
    BY <1>0, <1>a, <1>5 DEF List, FirstReads, SyncTypeOK, Writing, OneWriter
  <1>6. ASSUME NEW p \in Process, MarkDisabled(p) PROVE FirstReads'
    <2>1. SourcesDisabled(p)
      BY <1>6, MarkDisabledFacts
    <2>2. ASSUME NEW q \in Process, first'[q]
          PROVE  /\ pc'[q] \in {"list", "disable", "fetch", "source", "alias"}
                 /\ ~overlap' => read'[q] = knowledge'
      <3>1. CASE q = p
        BY <1>0, <1>a, <2>1, <2>2, <3>1 DEF SourcesDisabled, AfterDisable, FirstReads, SyncTypeOK
      <3>2. ASSUME q # p PROVE first[q] /\ pc'[q] = pc[q]
        BY <1>0, <2>1, <2>2, <3>2 DEF SourcesDisabled, SyncTypeOK
      <3>3. CASE q # p
        BY <1>a, <2>1, <3>2, <3>3 DEF SourcesDisabled, FirstReads, OneWriter, Writing
      <3> QED
        BY <3>1, <3>3
    <2>3. \A q \in Process : pc'[q] = "list" => first'[q]
      BY <1>0, <1>a, <1>6, <2>1 DEF SourcesDisabled, AfterDisable, FirstReads, SyncTypeOK
    <2> QED
      BY <2>2, <2>3 DEF FirstReads
  <1>7. ASSUME NEW p \in Process, Fetch(p) PROVE FirstReads'
    BY <1>0, <1>a, <1>b, <1>7 DEF Fetch, Fetched, FirstReads, SyncTypeOK, Writing, OneWriter,
       VersionTypes
  <1>8. ASSUME NEW p \in Process, NEW s \in Source, SyncSource(p, s) PROVE FirstReads'
    <2>1. SourceWritten(p, s)
      BY <1>8, SyncSourceFacts
    <2>2. ASSUME NEW q \in Process, first'[q]
          PROVE  /\ pc'[q] \in {"list", "disable", "fetch", "source", "alias"}
                 /\ ~overlap' => read'[q] = knowledge'
      <3>1. q # p
        BY <1>0, <1>8, <2>2 DEF SyncSource, Done, SyncTypeOK
      <3>2. first[q] /\ pc'[q] = pc[q]
        BY <1>0, <1>8, <2>1, <2>2, <3>1 DEF SyncSource, Done, SourceWritten, SyncTypeOK
      <3>3. CASE q # p
        BY <1>a, <2>1, <3>2, <3>3 DEF SourceWritten, FirstReads, OneWriter, Writing
      <3> QED
        BY <3>1, <3>3
    <2>3. \A q \in Process : pc'[q] = "list" => first'[q]
      BY <1>0, <1>a, <1>8, <2>1 DEF FirstReads, SyncTypeOK, SyncSource, Done
    <2> QED
      BY <2>2, <2>3 DEF FirstReads
  <1>9. ASSUME NEW p \in Process, NEW s \in Source, MarkFailed(p, s) PROVE FirstReads'
    <2>1. SourceFailed(p, s)
      BY <1>9, MarkFailedFacts
    <2>2. ASSUME NEW q \in Process, first'[q]
          PROVE  /\ pc'[q] \in {"list", "disable", "fetch", "source", "alias"}
                 /\ ~overlap' => read'[q] = knowledge'
      <3>1. q # p
        BY <1>0, <1>9, <2>2 DEF MarkFailed, Done, SyncTypeOK
      <3>2. first[q] /\ pc'[q] = pc[q]
        BY <1>0, <1>9, <2>1, <2>2, <3>1 DEF MarkFailed, Done, SourceFailed, SyncTypeOK
      <3>3. CASE q # p
        BY <1>a, <2>1, <3>2, <3>3 DEF SourceFailed, FirstReads, OneWriter, Writing
      <3> QED
        BY <3>1, <3>3
    <2>3. \A q \in Process : pc'[q] = "list" => first'[q]
      BY <1>0, <1>a, <1>9, <2>1 DEF FirstReads, SyncTypeOK, MarkFailed, Done
    <2> QED
      BY <2>2, <2>3 DEF FirstReads
  <1>10. ASSUME NEW p \in Process, RebuildAliases(p) PROVE FirstReads'
    BY <1>0, <1>a, <1>10 DEF RebuildAliases, FirstReads, SyncTypeOK, Writing, OneWriter
  <1>11. ASSUME NEW p \in Process, Finish(p) PROVE FirstReads'
    BY <1>0, <1>a, <1>11 DEF Finish, JobStatus, FirstReads, SyncTypeOK, Writing, OneWriter
  <1>12. ASSUME NEW p \in Process, Rebuild(p) PROVE FirstReads'
    <2>1. \A z \in Source : LoadsRows(z)
      BY <1>12, <1>0, LoadFacts
    <2> QED
      BY <1>0, <1>a, <1>b, <1>12, <2>1 DEF LoadsRows, VersionTypes, Rebuild, Ended, Gone,
         FirstReads, SyncTypeOK, Writing, OneWriter
  <1>13. ASSUME NEW p \in Process, SyncFails(p) PROVE FirstReads'
    BY <1>0, <1>a, <1>13 DEF SyncFails, Ended, Gone, FirstReads, SyncTypeOK, Writing, OneWriter
  <1>14. ASSUME NEW s \in Source, Edit(s) \/ Remove(s) PROVE FirstReads'
    <2>1. \A z \in Source : NewerOrGone(z)
      BY <1>14, <1>0, EditFacts
    <2> QED
      BY <1>0, <1>a, <1>b, <1>14, <2>1 DEF NewerOrGone, VersionTypes, Edit, Remove, FirstReads,
         SyncTypeOK, Writing, OneWriter
  <1>15. CASE UNCHANGED syncVars
    BY <1>a, <1>15 DEF syncVars, FirstReads
  <1> QED
    BY <1>1, <1>2, <1>3, <1>4, <1>5, <1>6, <1>7, <1>8, <1>9, <1>10, <1>11, <1>12, <1>13, <1>14,
       <1>15, EditedAssumption
       DEF SyncNext, SyncStep

LEMMA RecordsStep == IInv /\ [SyncNext]_syncVars => Records'
  <1> SUFFICES ASSUME IInv, [SyncNext]_syncVars PROVE Records'
    OBVIOUS
  <1> USE DEF tables, thread, counts
  <1>0. SyncTypeOK /\ SyncTypeOK'
    BY TypeStep DEF IInv
  <1>a. Records /\ OneWriter
    BY DEF IInv
  <1>b. \A z \in Source : VersionTypes(z)
    BY Versions DEF IInv
  <1>1. ASSUME NEW p \in Process, Start(p) PROVE Records'
    <2>1. \A z \in Source : LoadsRows(z)
      BY <1>1, <1>0, LoadFacts
    <2> QED
      BY <1>0, <1>a, <1>b, <1>1, <2>1 DEF LoadsRows, VersionTypes, Start, Records, Has
  <1>2. ASSUME NEW p \in Process, StartFails(p) PROVE Records'
    BY <1>0, <1>a, <1>2 DEF StartFails, Records, Has
  <1>3. ASSUME NEW p \in Process, Kill(p) PROVE Records'
    BY <1>0, <1>a, <1>3 DEF Kill, Gone, Records, Has
  <1>4. ASSUME NEW p \in Process, Begin(p) PROVE Records'
    BY <1>0, <1>a, <1>4 DEF Begin, Records, Has
  <1>5. ASSUME NEW p \in Process, List(p) PROVE Records'
    BY <1>0, <1>a, <1>5 DEF List, Records, Has
  <1>6. ASSUME NEW p \in Process, MarkDisabled(p) PROVE Records'
    <2>1. SourcesDisabled(p)
      BY <1>6, <1>0, MarkDisabledFacts
    <2> QED
      BY <1>0, <1>a, <1>b, <1>6, <2>1 DEF SourcesDisabled, VersionTypes, Records, Has,
         AfterDisable
  <1>7. ASSUME NEW p \in Process, Fetch(p) PROVE Records'
    BY <1>0, <1>a, <1>b, <1>7 DEF Fetch, Fetched, Records, Has, VersionTypes
  <1>8. ASSUME NEW p \in Process, NEW s \in Source, SyncSource(p, s) PROVE Records'
    <2>1. SourceWritten(p, s)
      BY <1>8, <1>0, SyncSourceFacts
    <2> QED
      BY <1>0, <1>a, <1>b, <1>8, <2>1 DEF SourceWritten, VersionTypes, Records, Has
  <1>9. ASSUME NEW p \in Process, NEW s \in Source, MarkFailed(p, s) PROVE Records'
    <2>1. SourceFailed(p, s)
      BY <1>9, <1>0, MarkFailedFacts
    <2> QED
      BY <1>0, <1>a, <1>b, <1>9, <2>1 DEF SourceFailed, VersionTypes, Records, Has
  <1>10. ASSUME NEW p \in Process, RebuildAliases(p) PROVE Records'
    BY <1>0, <1>a, <1>10 DEF RebuildAliases, Records, Has
  <1>11. ASSUME NEW p \in Process, Finish(p) PROVE Records'
    BY <1>0, <1>a, <1>11 DEF Finish, JobStatus, Records, Has
  <1>12. ASSUME NEW p \in Process, Rebuild(p) PROVE Records'
    <2>1. \A z \in Source : LoadsRows(z)
      BY <1>12, <1>0, LoadFacts
    <2> QED
      BY <1>0, <1>a, <1>b, <1>12, <2>1 DEF LoadsRows, VersionTypes, Rebuild, Ended, Gone,
         Records, Has
  <1>13. ASSUME NEW p \in Process, SyncFails(p) PROVE Records'
    BY <1>0, <1>a, <1>13 DEF SyncFails, Ended, Gone, Records, Has
  <1>14. ASSUME NEW s \in Source, Edit(s) \/ Remove(s) PROVE Records'
    <2>1. \A z \in Source : NewerOrGone(z)
      BY <1>14, <1>0, EditFacts
    <2> QED
      BY <1>0, <1>a, <1>b, <1>14, <2>1 DEF NewerOrGone, VersionTypes, Edit, Remove, Records, Has
  <1>15. CASE UNCHANGED syncVars
    BY <1>a, <1>15 DEF syncVars, Records
  <1> QED
    BY <1>1, <1>2, <1>3, <1>4, <1>5, <1>6, <1>7, <1>8, <1>9, <1>10, <1>11, <1>12, <1>13, <1>14,
       <1>15, EditedAssumption
       DEF SyncNext, SyncStep

LEMMA ReadyStep == IInv /\ [SyncNext]_syncVars => ReadyHasItsRows'
  <1> SUFFICES ASSUME IInv, [SyncNext]_syncVars PROVE ReadyHasItsRows'
    OBVIOUS
  <1> USE DEF tables, thread, counts
  <1>0. SyncTypeOK /\ SyncTypeOK'
    BY TypeStep DEF IInv
  <1>a. ReadyHasItsRows
    BY DEF IInv
  <1>b. \A z \in Source : VersionTypes(z)
    BY Versions DEF IInv
  <1>1. ASSUME NEW p \in Process, Start(p) PROVE ReadyHasItsRows'
    <2>1. \A z \in Source : LoadsRows(z)
      BY <1>1, <1>0, LoadFacts
    <2> QED
      BY <1>0, <1>a, <1>b, <1>1, <2>1 DEF LoadsRows, VersionTypes, Start, ReadyHasItsRows, Ready
  <1>2. ASSUME NEW p \in Process, StartFails(p) PROVE ReadyHasItsRows'
    BY <1>0, <1>a, <1>2 DEF StartFails, ReadyHasItsRows, Ready
  <1>3. ASSUME NEW p \in Process, Kill(p) PROVE ReadyHasItsRows'
    BY <1>0, <1>a, <1>3 DEF Kill, Gone, ReadyHasItsRows, Ready
  <1>4. ASSUME NEW p \in Process, Begin(p) PROVE ReadyHasItsRows'
    BY <1>0, <1>a, <1>4 DEF Begin, ReadyHasItsRows, Ready
  <1>5. ASSUME NEW p \in Process, List(p) PROVE ReadyHasItsRows'
    BY <1>0, <1>a, <1>5 DEF List, ReadyHasItsRows, Ready
  <1>6. ASSUME NEW p \in Process, MarkDisabled(p) PROVE ReadyHasItsRows'
    <2>1. SourcesDisabled(p)
      BY <1>6, <1>0, MarkDisabledFacts
    <2> QED
      BY <1>0, <1>a, <1>b, <1>6, <2>1 DEF SourcesDisabled, VersionTypes, ReadyHasItsRows, Ready
  <1>7. ASSUME NEW p \in Process, Fetch(p) PROVE ReadyHasItsRows'
    BY <1>0, <1>a, <1>b, <1>7 DEF Fetch, Fetched, ReadyHasItsRows, Ready, VersionTypes
  <1>8. ASSUME NEW p \in Process, NEW s \in Source, SyncSource(p, s) PROVE ReadyHasItsRows'
    <2>1. SourceWritten(p, s)
      BY <1>8, <1>0, SyncSourceFacts
    <2> QED
      BY <1>0, <1>a, <1>b, <1>8, <2>1 DEF SourceWritten, VersionTypes, ReadyHasItsRows, Ready
  <1>9. ASSUME NEW p \in Process, NEW s \in Source, MarkFailed(p, s) PROVE ReadyHasItsRows'
    <2>1. SourceFailed(p, s)
      BY <1>9, <1>0, MarkFailedFacts
    <2> QED
      BY <1>0, <1>a, <1>b, <1>9, <2>1 DEF SourceFailed, VersionTypes, ReadyHasItsRows, Ready
  <1>10. ASSUME NEW p \in Process, RebuildAliases(p) PROVE ReadyHasItsRows'
    BY <1>0, <1>a, <1>10 DEF RebuildAliases, ReadyHasItsRows, Ready
  <1>11. ASSUME NEW p \in Process, Finish(p) PROVE ReadyHasItsRows'
    BY <1>0, <1>a, <1>11 DEF Finish, JobStatus, ReadyHasItsRows, Ready
  <1>12. ASSUME NEW p \in Process, Rebuild(p) PROVE ReadyHasItsRows'
    <2>1. \A z \in Source : LoadsRows(z)
      BY <1>12, <1>0, LoadFacts
    <2> QED
      BY <1>0, <1>a, <1>b, <1>12, <2>1 DEF LoadsRows, VersionTypes, Rebuild, Ended, Gone,
         ReadyHasItsRows, Ready
  <1>13. ASSUME NEW p \in Process, SyncFails(p) PROVE ReadyHasItsRows'
    BY <1>0, <1>a, <1>13 DEF SyncFails, Ended, Gone, ReadyHasItsRows, Ready
  <1>14. ASSUME NEW s \in Source, Edit(s) \/ Remove(s) PROVE ReadyHasItsRows'
    <2>1. \A z \in Source : NewerOrGone(z)
      BY <1>14, <1>0, EditFacts
    <2> QED
      BY <1>0, <1>a, <1>b, <1>14, <2>1 DEF NewerOrGone, VersionTypes, Edit, Remove,
         ReadyHasItsRows, Ready
  <1>15. CASE UNCHANGED syncVars
    BY <1>a, <1>15 DEF syncVars, ReadyHasItsRows
  <1> QED
    BY <1>1, <1>2, <1>3, <1>4, <1>5, <1>6, <1>7, <1>8, <1>9, <1>10, <1>11, <1>12, <1>13, <1>14,
       <1>15, EditedAssumption
       DEF SyncNext, SyncStep

LEMMA StaleStep == IInv /\ [SyncNext]_syncVars => StaleIsDetected'
  <1> SUFFICES ASSUME IInv, [SyncNext]_syncVars PROVE StaleIsDetected'
    OBVIOUS
  <1> USE DEF tables, thread, counts
  <1>0. SyncTypeOK /\ SyncTypeOK'
    BY TypeStep DEF IInv
  <1>a. StaleIsDetected /\ KnownVersions /\ FetchedVersions /\ ListedVersions /\ TodoIsLive
    BY DEF IInv
  <1>b. \A z \in Source : VersionTypes(z)
    BY Versions DEF IInv
  <1>1. ASSUME NEW p \in Process, Start(p) PROVE StaleIsDetected'
    <2>1. \A z \in Source : LoadsRows(z)
      BY <1>1, <1>0, LoadFacts
    <2> QED
      BY <1>0, <1>a, <1>b, <1>1, <2>1 DEF LoadsRows, VersionTypes, Start, StaleIsDetected, Has,
         NeedsResync
  <1>2. ASSUME NEW p \in Process, StartFails(p) PROVE StaleIsDetected'
    BY <1>0, <1>a, <1>2 DEF StartFails, StaleIsDetected, Has, NeedsResync
  <1>3. ASSUME NEW p \in Process, Kill(p) PROVE StaleIsDetected'
    BY <1>0, <1>a, <1>3 DEF Kill, Gone, StaleIsDetected, Has, NeedsResync
  <1>4. ASSUME NEW p \in Process, Begin(p) PROVE StaleIsDetected'
    BY <1>0, <1>a, <1>4 DEF Begin, StaleIsDetected, Has, NeedsResync
  <1>5. ASSUME NEW p \in Process, List(p) PROVE StaleIsDetected'
    BY <1>0, <1>a, <1>5 DEF List, StaleIsDetected, Has, NeedsResync
  <1>6. ASSUME NEW p \in Process, MarkDisabled(p) PROVE StaleIsDetected'
    <2>1. SourcesDisabled(p)
      BY <1>6, <1>0, MarkDisabledFacts
    <2> QED
      BY <1>0, <1>a, <1>b, <1>6, <2>1 DEF SourcesDisabled, VersionTypes, StaleIsDetected, Has,
         NeedsResync
  <1>7. ASSUME NEW p \in Process, Fetch(p) PROVE StaleIsDetected'
    BY <1>0, <1>a, <1>b, <1>7 DEF Fetch, Fetched, StaleIsDetected, Has, NeedsResync, VersionTypes
  <1>8. ASSUME NEW p \in Process, NEW s \in Source, SyncSource(p, s) PROVE StaleIsDetected'
    <2>1. SourceWritten(p, s)
      BY <1>8, SyncSourceFacts
    <2>2. ASSUME ~overlap, external[s].state = "live", contents[p][s] # external[s].version
          PROVE  listed[p][s].version # external[s].version
      <3>1. /\ contents[p][s] <= external[s].version
            /\ listed[p][s].version <= contents[p][s]
        BY <1>a, <2>1, <2>2 DEF SourceWritten, FetchedVersions
      <3>2. /\ contents[p][s] \in Nat /\ external[s].version \in Nat
            /\ listed[p][s].version \in Nat
        BY <1>b DEF VersionTypes
      <3> QED
        BY <2>2, <3>1, <3>2
    <2> QED
      BY <1>a, <2>1, <2>2 DEF SourceWritten, StaleIsDetected, Has, NeedsResync
  <1>9. ASSUME NEW p \in Process, NEW s \in Source, MarkFailed(p, s) PROVE StaleIsDetected'
    <2>1. SourceFailed(p, s)
      BY <1>9, <1>0, MarkFailedFacts
    <2> QED
      BY <1>0, <1>a, <1>b, <1>9, <2>1 DEF SourceFailed, VersionTypes, StaleIsDetected, Has,
         NeedsResync
  <1>10. ASSUME NEW p \in Process, RebuildAliases(p) PROVE StaleIsDetected'
    BY <1>0, <1>a, <1>10 DEF RebuildAliases, StaleIsDetected, Has, NeedsResync
  <1>11. ASSUME NEW p \in Process, Finish(p) PROVE StaleIsDetected'
    BY <1>0, <1>a, <1>11 DEF Finish, JobStatus, StaleIsDetected, Has, NeedsResync
  <1>12. ASSUME NEW p \in Process, Rebuild(p) PROVE StaleIsDetected'
    <2>1. \A z \in Source : LoadsRows(z)
      BY <1>12, <1>0, LoadFacts
    <2> QED
      BY <1>0, <1>a, <1>b, <1>12, <2>1 DEF LoadsRows, VersionTypes, Rebuild, Ended, Gone,
         StaleIsDetected, Has, NeedsResync
  <1>13. ASSUME NEW p \in Process, SyncFails(p) PROVE StaleIsDetected'
    BY <1>0, <1>a, <1>13 DEF SyncFails, Ended, Gone, StaleIsDetected, Has, NeedsResync
  <1>14. ASSUME NEW s \in Source, Edit(s) \/ Remove(s) PROVE StaleIsDetected'
    <2>1. \A z \in Source : NewerOrGone(z)
      BY <1>0, <1>14, EditFacts
    <2>2. UNCHANGED <<knowledge, overlap>>
      BY <1>14 DEF Edit, Remove
    <2> QED
      BY <1>a, <1>b, <2>1, <2>2 DEF NewerOrGone, VersionTypes, StaleIsDetected, KnownVersions,
         Has, NeedsResync
  <1>15. CASE UNCHANGED syncVars
    BY <1>a, <1>15 DEF syncVars, StaleIsDetected
  <1> QED
    BY <1>1, <1>2, <1>3, <1>4, <1>5, <1>6, <1>7, <1>8, <1>9, <1>10, <1>11, <1>12, <1>13, <1>14,
       <1>15, EditedAssumption
       DEF SyncNext, SyncStep

LEMMA ServedStep == IInv /\ [SyncNext]_syncVars => ServedIsOlder'
  <1> SUFFICES ASSUME IInv, [SyncNext]_syncVars PROVE ServedIsOlder'
    OBVIOUS
  <1> USE DEF tables, thread, counts
  <1>0. SyncTypeOK /\ SyncTypeOK'
    BY TypeStep DEF IInv
  <1>a. ServedIsOlder /\ FetchedVersions
    BY DEF IInv
  <1>b. \A z \in Source : VersionTypes(z)
    BY Versions DEF IInv
  <1>1. ASSUME NEW p \in Process, Start(p) PROVE ServedIsOlder'
    <2>1. \A z \in Source : LoadsRows(z)
      BY LoadFacts
    <2>2. \A q \in Process : index'[q] \in {index[q], Load}
      BY <1>0, <1>1 DEF Start, SyncTypeOK
    <2>3. UNCHANGED <<external, knowledge, pins, overlap>>
      BY <1>1 DEF Start
    <2> QED
      BY <1>a, <1>b, <2>1, <2>2, <2>3 DEF LoadsRows, ServedIsOlder, Ready, VersionTypes
  <1>2. ASSUME NEW p \in Process, StartFails(p) PROVE ServedIsOlder'
    BY <1>0, <1>a, <1>2 DEF StartFails, ServedIsOlder, Ready, SyncTypeOK
  <1>3. ASSUME NEW p \in Process, Kill(p) PROVE ServedIsOlder'
    BY <1>0, <1>a, <1>3 DEF Kill, Gone, ServedIsOlder, Ready, SyncTypeOK
  <1>4. ASSUME NEW p \in Process, Begin(p) PROVE ServedIsOlder'
    BY <1>0, <1>a, <1>4 DEF Begin, ServedIsOlder, Ready, SyncTypeOK
  <1>5. ASSUME NEW p \in Process, List(p) PROVE ServedIsOlder'
    BY <1>0, <1>a, <1>5 DEF List, ServedIsOlder, Ready, SyncTypeOK
  <1>6. ASSUME NEW p \in Process, MarkDisabled(p) PROVE ServedIsOlder'
    <2>1. SourcesDisabled(p)
      BY <1>6, <1>0, MarkDisabledFacts
    <2> QED
      BY <1>0, <1>a, <1>b, <1>6, <2>1 DEF SourcesDisabled, VersionTypes, ServedIsOlder, Ready
  <1>7. ASSUME NEW p \in Process, Fetch(p) PROVE ServedIsOlder'
    BY <1>0, <1>a, <1>b, <1>7 DEF Fetch, Fetched, ServedIsOlder, Ready, SyncTypeOK, VersionTypes
  <1>8. ASSUME NEW p \in Process, NEW s \in Source, SyncSource(p, s) PROVE ServedIsOlder'
    <2>1. SourceWritten(p, s)
      BY <1>8, <1>0, SyncSourceFacts
    <2> QED
      BY <1>0, <1>a, <1>b, <1>8, <2>1 DEF SourceWritten, VersionTypes, ServedIsOlder, Ready,
         FetchedVersions
  <1>9. ASSUME NEW p \in Process, NEW s \in Source, MarkFailed(p, s) PROVE ServedIsOlder'
    <2>1. SourceFailed(p, s)
      BY <1>9, <1>0, MarkFailedFacts
    <2> QED
      BY <1>0, <1>a, <1>b, <1>9, <2>1 DEF SourceFailed, VersionTypes, ServedIsOlder, Ready
  <1>10. ASSUME NEW p \in Process, RebuildAliases(p) PROVE ServedIsOlder'
    BY <1>0, <1>a, <1>10 DEF RebuildAliases, ServedIsOlder, Ready, SyncTypeOK
  <1>11. ASSUME NEW p \in Process, Finish(p) PROVE ServedIsOlder'
    BY <1>0, <1>a, <1>11 DEF Finish, JobStatus, ServedIsOlder, Ready, SyncTypeOK
  <1>12. ASSUME NEW p \in Process, Rebuild(p) PROVE ServedIsOlder'
    <2>1. \A z \in Source : LoadsRows(z)
      BY LoadFacts
    <2>2. \A q \in Process : index'[q] \in {index[q], Load}
      BY <1>0, <1>12 DEF Rebuild, Ended, Gone, SyncTypeOK
    <2>3. UNCHANGED <<external, knowledge, pins, overlap>>
      BY <1>12 DEF Rebuild, Ended, Gone
    <2> QED
      BY <1>a, <1>b, <2>1, <2>2, <2>3 DEF LoadsRows, ServedIsOlder, Ready, VersionTypes
  <1>13. ASSUME NEW p \in Process, SyncFails(p) PROVE ServedIsOlder'
    BY <1>0, <1>a, <1>13 DEF SyncFails, Ended, Gone, ServedIsOlder, Ready, SyncTypeOK
  <1>14. ASSUME NEW s \in Source, Edit(s) \/ Remove(s) PROVE ServedIsOlder'
    <2>1. \A z \in Source : NewerOrGone(z)
      BY <1>0, <1>14, EditFacts
    <2>2. UNCHANGED <<knowledge, pins, index, overlap>>
      BY <1>14 DEF Edit, Remove
    <2> QED
      BY <1>a, <1>b, <2>1, <2>2 DEF NewerOrGone, VersionTypes, ServedIsOlder, Ready
  <1>15. CASE UNCHANGED syncVars
    BY <1>a, <1>15 DEF syncVars, ServedIsOlder
  <1> QED
    BY <1>1, <1>2, <1>3, <1>4, <1>5, <1>6, <1>7, <1>8, <1>9, <1>10, <1>11, <1>12, <1>13, <1>14,
       <1>15, EditedAssumption
       DEF SyncNext, SyncStep

LEMMA FetchedStep == IInv /\ [SyncNext]_syncVars => FetchedVersions'
  <1> SUFFICES ASSUME IInv, [SyncNext]_syncVars PROVE FetchedVersions'
    OBVIOUS
  <1> USE DEF tables, thread, counts
  <1>0. SyncTypeOK /\ SyncTypeOK'
    BY TypeStep DEF IInv
  <1>a. FetchedVersions /\ KnownVersions /\ ListedVersions /\ OneWriter /\ DownIsIdle
    BY DEF IInv
  <1>b. \A z \in Source : VersionTypes(z)
    BY Versions DEF IInv
  <1>1. ASSUME NEW p \in Process, Start(p) PROVE FetchedVersions'
    <2>1. \A z \in Source : LoadsRows(z)
      BY LoadFacts
    <2>2. \A q \in Process : index'[q] \in {index[q], Load}
      BY <1>0, <1>1 DEF Start, DownIsIdle, SyncTypeOK
    <2>3. UNCHANGED <<external, pins, overlap>>
      BY <1>1 DEF Start, DownIsIdle
    <2>4. \A q \in Process : pc'[q] = "source" =>
            pc[q] = "source" /\ todo'[q] = todo[q] /\ listed'[q] = listed[q] /\ contents'[q] = contents[q]
      BY <1>0, <1>a, <1>1 DEF Start, DownIsIdle, SyncTypeOK
    <2>5. \A z \in Source : Load.pins[z].content \in Nat
      BY LoadType, <1>0, VersionAssumption DEF Index, Pins, Version
    <2>6. \A q \in Process : \A z \in todo[q] : z \in Source
      BY <1>0 DEF SyncTypeOK
    <2> QED
      BY <1>a, <1>b, <2>1, <2>2, <2>3, <2>4, <2>5, <2>6 DEF LoadsRows, FetchedVersions,
         VersionTypes
  <1>2. ASSUME NEW p \in Process, StartFails(p) PROVE FetchedVersions'
    BY <1>0, <1>a, <1>2 DEF StartFails, FetchedVersions, DownIsIdle
  <1>3. ASSUME NEW p \in Process, Kill(p) PROVE FetchedVersions'
    BY <1>0, <1>a, <1>3 DEF Kill, Gone, FetchedVersions, SyncTypeOK
  <1>4. ASSUME NEW p \in Process, Begin(p) PROVE FetchedVersions'
    BY <1>0, <1>a, <1>4 DEF Begin, FetchedVersions, SyncTypeOK
  <1>5. ASSUME NEW p \in Process, List(p) PROVE FetchedVersions'
    BY <1>0, <1>a, <1>5 DEF List, FetchedVersions, SyncTypeOK
  <1>6. ASSUME NEW p \in Process, MarkDisabled(p) PROVE FetchedVersions'
    <2>1. SourcesDisabled(p)
      BY <1>6, MarkDisabledFacts
    <2>2. ASSUME NEW q \in Process, pc'[q] = "source" PROVE pc[q] = "source"
      BY <1>0, <2>1, <2>2 DEF SourcesDisabled, AfterDisable, SyncTypeOK
    <2>3. \A q \in Process : \A z \in todo[q] : z \in Source
      BY <1>0 DEF SyncTypeOK
    <2> QED
      BY <1>a, <1>b, <2>1, <2>2, <2>3 DEF SourcesDisabled, FetchedVersions, VersionTypes, NoPins
  <1>7. ASSUME NEW p \in Process, Fetch(p) PROVE FetchedVersions'
    <2>1. /\ pc[p] = "fetch" /\ \A q \in Process \ {p} : contents'[q] = contents[q] /\ pc'[q] = pc[q]
          /\ \A z \in Source : contents'[p][z] = IF external[z].state = "absent" THEN 0 ELSE external[z].version
          /\ UNCHANGED <<external, pins, index, listed, todo, overlap>>
      BY <1>0, <1>7 DEF Fetch, Fetched, SyncTypeOK
    <2>2. ASSUME NEW z \in todo[p]
          PROVE  /\ contents'[p][z] <= external[z].version
                 /\ external[z].state # "absent" =>
                      /\ listed[p][z].version <= contents'[p][z] /\ pins[z].content <= contents'[p][z]
                      /\ \A q \in Process : index[q] # NoIndex => index[q].pins[z].content <= contents'[p][z]
      <3>1. z \in Source
        BY <1>0 DEF SyncTypeOK
      <3> QED
        BY <1>a, <1>b, <2>1, <3>1 DEF KnownVersions, ListedVersions, VersionTypes
    <2> QED
      BY <1>a, <2>1, <2>2 DEF FetchedVersions
  <1>8. ASSUME NEW p \in Process, NEW s \in Source, SyncSource(p, s) PROVE FetchedVersions'
    <2>1. SourceWritten(p, s)
      BY <1>8, SyncSourceFacts
    <2>2. ASSUME NEW q \in Process, pc'[q] = "source"
          PROVE  pc[q] = "source" /\ (q = p => todo'[q] = todo[q] \ {s}) /\ (q # p => todo'[q] = todo[q] /\ overlap)
      <3>1. CASE q = p
        BY <1>0, <2>1, <2>2, <3>1 DEF SourceWritten, SyncTypeOK
      <3>2. CASE q # p
        <4>1. pc[q] = "source" /\ todo'[q] = todo[q] /\ pc[p] = "source"
          BY <1>0, <2>1, <2>2, <3>2 DEF SourceWritten, SyncTypeOK
        <4> QED
          BY <1>a, <3>2, <4>1 DEF OneWriter, Writing
      <3> QED
        BY <3>1, <3>2
    <2>3. \A q \in Process : \A z \in todo[q] : z \in Source
      BY <1>0 DEF SyncTypeOK
    <2> QED
      BY <1>a, <2>1, <2>2, <2>3 DEF SourceWritten, FetchedVersions
  <1>9. ASSUME NEW p \in Process, NEW s \in Source, MarkFailed(p, s) PROVE FetchedVersions'
    <2>1. SourceFailed(p, s)
      BY <1>9, MarkFailedFacts
    <2>2. ASSUME NEW q \in Process, pc'[q] = "source"
          PROVE  pc[q] = "source" /\ todo'[q] \subseteq todo[q]
      BY <1>0, <1>a, <2>1, <2>2 DEF SourceFailed, SyncTypeOK
    <2> QED
      BY <1>a, <2>1, <2>2 DEF SourceFailed, FetchedVersions
  <1>10. ASSUME NEW p \in Process, RebuildAliases(p) PROVE FetchedVersions'
    BY <1>0, <1>a, <1>10 DEF RebuildAliases, FetchedVersions, SyncTypeOK
  <1>11. ASSUME NEW p \in Process, Finish(p) PROVE FetchedVersions'
    BY <1>0, <1>a, <1>11 DEF Finish, JobStatus, FetchedVersions, SyncTypeOK
  <1>12. ASSUME NEW p \in Process, Rebuild(p) PROVE FetchedVersions'
    <2>1. \A z \in Source : LoadsRows(z)
      BY LoadFacts
    <2>2. \A q \in Process : index'[q] \in {index[q], Load}
      BY <1>0, <1>12 DEF Rebuild, Ended, Gone, SyncTypeOK
    <2>3. UNCHANGED <<external, pins, overlap>>
      BY <1>12 DEF Rebuild, Ended, Gone
    <2>4. \A q \in Process : pc'[q] = "source" =>
            pc[q] = "source" /\ todo'[q] = todo[q] /\ listed'[q] = listed[q] /\ contents'[q] = contents[q]
      BY <1>0, <1>a, <1>12 DEF Rebuild, Ended, Gone, SyncTypeOK
    <2>5. \A z \in Source : Load.pins[z].content \in Nat
      BY LoadType, <1>0, VersionAssumption DEF Index, Pins, Version
    <2>6. \A q \in Process : \A z \in todo[q] : z \in Source
      BY <1>0 DEF SyncTypeOK
    <2> QED
      BY <1>a, <1>b, <2>1, <2>2, <2>3, <2>4, <2>5, <2>6 DEF LoadsRows, FetchedVersions,
         VersionTypes
  <1>13. ASSUME NEW p \in Process, SyncFails(p) PROVE FetchedVersions'
    BY <1>0, <1>a, <1>13 DEF SyncFails, Ended, Gone, FetchedVersions, SyncTypeOK
  <1>14. ASSUME NEW s \in Source, Edit(s) \/ Remove(s) PROVE FetchedVersions'
    <2>1. \A z \in Source : NewerOrGone(z)
      BY <1>0, <1>14, EditFacts
    <2>2. UNCHANGED <<pc, todo, listed, contents, pins, index, overlap>>
      BY <1>14 DEF Edit, Remove
    <2>3. \A q \in Process : \A z \in todo[q] : z \in Source
      BY <1>0 DEF SyncTypeOK
    <2> QED
      BY <1>a, <1>b, <2>1, <2>2, <2>3 DEF NewerOrGone, VersionTypes, FetchedVersions
  <1>15. CASE UNCHANGED syncVars
    BY <1>a, <1>15 DEF syncVars, FetchedVersions
  <1> QED
    BY <1>1, <1>2, <1>3, <1>4, <1>5, <1>6, <1>7, <1>8, <1>9, <1>10, <1>11, <1>12, <1>13, <1>14,
       <1>15, EditedAssumption
       DEF SyncNext, SyncStep

LEMMA CompleteStep == IInv /\ [SyncNext]_syncVars => SoFarComplete'
  <1> SUFFICES ASSUME IInv, [SyncNext]_syncVars PROVE SoFarComplete'
    OBVIOUS
  <1> USE DEF tables, thread, counts
  <1>0. SyncTypeOK /\ SyncTypeOK'
    BY TypeStep DEF IInv
  <1>a. SoFarComplete /\ OneWriter /\ FirstReads /\ Records /\ TodoIsLive /\ DownIsIdle
    BY DEF IInv
  <1>b. \A z \in Source : VersionTypes(z)
    BY Versions DEF IInv
  <1>1. ASSUME NEW p \in Process, Start(p) PROVE SoFarComplete'
    <2>1. \A z \in Source : LoadsRows(z)
      BY <1>1, <1>0, LoadFacts
    <2> QED
      BY <1>0, <1>a, <1>b, <1>1, <2>1 DEF LoadsRows, VersionTypes, Start, SoFarComplete,
         SoFarComplete, OneWriter, Writing, Ready, SyncTypeOK, DownIsIdle
  <1>2. ASSUME NEW p \in Process, StartFails(p) PROVE SoFarComplete'
    BY <1>0, <1>a, <1>2 DEF StartFails, SoFarComplete, DownIsIdle
  <1>3. ASSUME NEW p \in Process, Kill(p) PROVE SoFarComplete'
    BY <1>0, <1>a, <1>3 DEF Kill, Gone, SoFarComplete, SoFarComplete, OneWriter, Writing, Ready,
       SyncTypeOK
  <1>4. ASSUME NEW p \in Process, Begin(p) PROVE SoFarComplete'
    BY <1>0, <1>a, <1>4 DEF Begin, SoFarComplete, SoFarComplete, OneWriter, Writing, Ready,
       SyncTypeOK
  <1>5. ASSUME NEW p \in Process, List(p) PROVE SoFarComplete'
    <2>1. /\ pc[p] = "list" /\ listed' = [listed EXCEPT ![p] = external]
          /\ todo' = [todo EXCEPT ![p] = Changed(read[p], external)]
          /\ pc' = [pc EXCEPT ![p] = "disable"]
          /\ UNCHANGED <<knowledge, pins, failed, first, overlap>>
      BY <1>5 DEF List
    <2>2. ASSUME ~overlap, NEW z \in Source, z \notin Changed(read[p], external),
                 external[z].state = "live"
          PROVE  Ready(knowledge[z]) /\ knowledge[z].version = external[z].version
      BY <1>a, <2>1, <2>2 DEF Changed, NeedsResync, Has, Ready, FirstReads, Records
    <2> QED
      BY <1>0, <1>a, <2>1, <2>2 DEF SoFarComplete, SyncTypeOK
  <1>6. ASSUME NEW p \in Process, MarkDisabled(p) PROVE SoFarComplete'
    <2>1. SourcesDisabled(p)
      BY <1>6, MarkDisabledFacts
    <2>2. ASSUME NEW q \in Process, ~overlap, pc'[q] \in {"disable", "fetch", "source", "alias", "finish"}
          PROVE  q = p /\ pc[q] = "disable"
      <3>1. pc[q] \in {"disable", "fetch", "source", "alias", "finish"} /\ pc[p] = "disable"
        BY <1>0, <2>1, <2>2 DEF SourcesDisabled, AfterDisable, SyncTypeOK
      <3> QED
        BY <1>a, <2>2, <3>1 DEF OneWriter, Writing
    <2>3. ASSUME ~overlap, NEW z \in Source, listed[p][z].state = "disabled"
          PROVE  ~Ready(knowledge'[z]) /\ pins'[z] = NoPins
      <3>1. CASE Has(Seen(p, z))
        BY <2>1, <2>3, <3>1 DEF SourcesDisabled, Ready
      <3>2. CASE ~Has(Seen(p, z))
        BY <1>a, <2>1, <2>3, <3>2, SeenIsCurrent DEF SourcesDisabled, Ready, Has, Records
      <3> QED
        BY <3>1, <3>2
    <2> QED
      BY <1>a, <2>1, <2>2, <2>3 DEF SourcesDisabled, SoFarComplete, Ready
  <1>7. ASSUME NEW p \in Process, Fetch(p) PROVE SoFarComplete'
    BY <1>0, <1>a, <1>b, <1>7 DEF Fetch, Fetched, SoFarComplete, SoFarComplete, OneWriter,
       Writing, Ready, SyncTypeOK, VersionTypes
  <1>8. ASSUME NEW p \in Process, NEW s \in Source, SyncSource(p, s) PROVE SoFarComplete'
    <2>1. SourceWritten(p, s)
      BY <1>8, SyncSourceFacts
    <2>2. ASSUME NEW q \in Process, ~overlap, pc'[q] \in {"disable", "fetch", "source", "alias", "finish"}
          PROVE  q = p
      <3>1. CASE q # p
        <4>1. pc[q] = pc'[q] /\ pc[p] = "source"
          BY <1>0, <2>1, <3>1 DEF SourceWritten, SyncTypeOK
        <4> QED
          BY <1>a, <2>2, <4>1 DEF OneWriter, Writing
      <3> QED
        BY <3>1
    <2>3. listed[p][s].state = "live" /\ pc[p] = "source"
      BY <1>a, <2>1 DEF SourceWritten, TodoIsLive
    <2>4. todo'[p] = todo[p] \ {s}
      BY <1>0, <2>1 DEF SourceWritten, SyncTypeOK
    <2> QED
      BY <1>a, <2>1, <2>2, <2>3, <2>4 DEF SourceWritten, SoFarComplete, Ready
  <1>9. ASSUME NEW p \in Process, NEW s \in Source, MarkFailed(p, s) PROVE SoFarComplete'
    <2>1. SourceFailed(p, s)
      BY <1>9, MarkFailedFacts
    <2>2. ASSUME NEW q \in Process, ~overlap, pc'[q] \in {"disable", "fetch", "source", "alias", "finish"}
          PROVE  q = p
      <3>1. CASE q # p
        <4>1. pc[q] = pc'[q] /\ pc[p] = "source"
          BY <1>0, <2>1, <3>1 DEF SourceFailed, SyncTypeOK
        <4> QED
          BY <1>a, <2>2, <4>1 DEF OneWriter, Writing
      <3> QED
        BY <3>1
    <2>3. listed[p][s].state = "live" /\ pc[p] = "source"
      BY <1>a, <2>1 DEF SourceFailed, TodoIsLive
    <2>4. failed'[p] = TRUE
      BY <1>0, <2>1 DEF SourceFailed, SyncTypeOK
    <2> QED
      BY <1>a, <2>1, <2>2, <2>3, <2>4 DEF SourceFailed, SoFarComplete, Ready
  <1>10. ASSUME NEW p \in Process, RebuildAliases(p) PROVE SoFarComplete'
    BY <1>0, <1>a, <1>10 DEF RebuildAliases, SoFarComplete, SoFarComplete, OneWriter, Writing,
       Ready, SyncTypeOK
  <1>11. ASSUME NEW p \in Process, Finish(p) PROVE SoFarComplete'
    BY <1>0, <1>a, <1>11 DEF Finish, JobStatus, SoFarComplete, SoFarComplete, OneWriter, Writing,
       Ready, SyncTypeOK
  <1>12. ASSUME NEW p \in Process, Rebuild(p) PROVE SoFarComplete'
    <2>1. \A z \in Source : LoadsRows(z)
      BY <1>12, <1>0, LoadFacts
    <2> QED
      BY <1>0, <1>a, <1>b, <1>12, <2>1 DEF LoadsRows, VersionTypes, Rebuild, Ended, Gone,
         SoFarComplete, SoFarComplete, OneWriter, Writing, Ready, SyncTypeOK
  <1>13. ASSUME NEW p \in Process, SyncFails(p) PROVE SoFarComplete'
    BY <1>0, <1>a, <1>13 DEF SyncFails, Ended, Gone, SoFarComplete, SoFarComplete, OneWriter,
       Writing, Ready, SyncTypeOK
  <1>14. ASSUME NEW s \in Source, Edit(s) \/ Remove(s) PROVE SoFarComplete'
    <2>1. \A z \in Source : NewerOrGone(z)
      BY <1>14, <1>0, EditFacts
    <2> QED
      BY <1>0, <1>a, <1>b, <1>14, <2>1 DEF NewerOrGone, VersionTypes, Edit, Remove,
         SoFarComplete, SoFarComplete, OneWriter, Writing, Ready, SyncTypeOK
  <1>15. CASE UNCHANGED syncVars
    BY <1>a, <1>15 DEF syncVars, SoFarComplete
  <1> QED
    BY <1>1, <1>2, <1>3, <1>4, <1>5, <1>6, <1>7, <1>8, <1>9, <1>10, <1>11, <1>12, <1>13, <1>14,
       <1>15, EditedAssumption
       DEF SyncNext, SyncStep

LEMMA InvInit == Init => IInv
  <1> SUFFICES ASSUME Init PROVE IInv
    OBVIOUS
  <1>1. SyncTypeOK
    BY TypeInit
  <1>2. DownIsIdle /\ OneWriter /\ FirstReads /\ TodoIsLive /\ ListedVersions /\ FetchedVersions
    BY DEF Init, DownIsIdle, OneWriter, Writing, FirstReads, TodoIsLive, ListedVersions,
       FetchedVersions
  <1>3. \A s \in Source : external[s].version = 1
    BY DEF Init, External
  <1>4. KnownVersions /\ ServedIsOlder
    BY <1>3 DEF Init, KnownVersions, ServedIsOlder, NoRecord, NoPins
  <1>5. Records /\ ReadyHasItsRows /\ StaleIsDetected
    BY DEF Init, Records, ReadyHasItsRows, StaleIsDetected, NoRecord, NoPins, Has, Ready
  <1>6. SoFarComplete
    BY DEF Init, SoFarComplete
  <1> QED
    BY <1>1, <1>2, <1>4, <1>5, <1>6 DEF IInv

LEMMA InvStep == IInv /\ [SyncNext]_syncVars => IInv'
  BY TypeStep, DownStep, WriterStep, FirstStep, KnownStep, TodoStep, ListedStep, FetchedStep,
     RecordsStep, CompleteStep, ServedStep, ReadyStep, StaleStep DEF IInv

-----------------------------------------------------------------------------
(* The theorems.                                                           *)

THEOREM Invariance == SyncSpec => []IInv
  BY InvInit, InvStep, PTL DEF SyncSpec

\* The types of the tables, of the indexes and of the synchronisations (sync_service.py).
THEOREM Typing == SyncSpec => []SyncTypeOK
  <1>1. IInv => SyncTypeOK
    BY DEF IInv
  <1> QED
    BY <1>1, Invariance, PTL

\* Without overlapping synchronisations, the rows served for a source are those of its record
\* (_sync_single_source).
THEOREM RowsBelong == SyncSpec => []ReadyHasItsRows
  <1>1. IInv => ReadyHasItsRows
    BY DEF IInv
  <1> QED
    BY <1>1, Invariance, PTL

\* Without overlapping synchronisations, a content older than the knowledge base's is always
\* fetched again (_needs_resync).
THEOREM StaleDetected == SyncSpec => []StaleIsDetected
  <1>1. IInv => StaleIsDetected
    BY DEF IInv
  <1> QED
    BY <1>1, Invariance, PTL

LEMMA OlderStep == IInv /\ IInv' /\ [SyncNext]_syncVars =>
  \A p \in Process : (~overlap' /\ index[p] # NoIndex /\ index'[p] # NoIndex) =>
    \A s \in index[p].sources \cap index'[p].sources :
      index'[p].pins[s].content >= index[p].pins[s].content \/ external[s].state = "absent"
  <1> SUFFICES ASSUME IInv, [SyncNext]_syncVars, NEW p \in Process, ~overlap',
                      index[p] # NoIndex, index'[p] # NoIndex,
                      NEW s \in index[p].sources \cap index'[p].sources,
                      external[s].state # "absent"
               PROVE  index'[p].pins[s].content >= index[p].pins[s].content
    OBVIOUS
  <1>1. SyncTypeOK
    BY DEF IInv
  <1>2. s \in Source /\ index[p].pins[s].content \in Nat
    BY <1>1, VersionAssumption DEF SyncTypeOK, Index, Pins, Version
  <1>3. index'[p] \in {index[p], Load}
    <2>1. ASSUME NEW q \in Process, Start(q) \/ Rebuild(q)
          PROVE  index'[p] \in {index[p], Load}
      <3>1. index' = [index EXCEPT ![q] = Load]
        BY <2>1 DEF Start, Rebuild
      <3> QED
        BY <1>1, <3>1 DEF SyncTypeOK
    <2>2. ASSUME NEW q \in Process, Kill(q)
          PROVE  index'[p] \in {index[p], Load}
      <3>1. index' = [index EXCEPT ![q] = NoIndex]
        BY <2>2 DEF Kill
      <3>2. index \in [Process -> Index \cup {NoIndex}]
        BY <1>1 DEF SyncTypeOK
      <3> QED
        BY <3>1, <3>2
    <2>3. CASE UNCHANGED index
      BY <2>3
    <2> QED
      BY <2>1, <2>2, <2>3, EditedAssumption DEF SyncNext, SyncStep, StartFails, Begin, List,
         MarkDisabled, Fetch, SyncSource, MarkFailed, Done, RebuildAliases, Finish, SyncFails,
         Edit, Remove, syncVars
  <1>4. ~overlap
    BY <1>1, EditedAssumption DEF SyncNext, SyncStep, Start, StartFails, Kill, Begin, List,
       MarkDisabled, Fetch, SyncSource, MarkFailed, Done, RebuildAliases, Finish, Rebuild,
       SyncFails, Edit, Remove, syncVars, SyncTypeOK, counts
  <1>5. CASE index'[p] = index[p]
    BY <1>2, <1>5
  <1>6. CASE index'[p] = Load
    <2>1. Load.pins[s] = pins[s] /\ Ready(knowledge[s])
      BY <1>2, <1>6, LoadFacts DEF LoadsRows
    <2>2. index[p].pins[s].content <= pins[s].content
      BY <1>2, <1>4, <2>1 DEF IInv, ServedIsOlder
    <2>3. pins[s].content \in Nat
      BY <1>1, <1>2, Versions DEF VersionTypes
    <2> QED
      BY <1>2, <1>6, <2>1, <2>2, <2>3
  <1> QED
    BY <1>3, <1>5, <1>6

\* Without overlapping synchronisations, no process goes back to an older content of a source
\* (ParameterQueryIndexStore.rebuild).
THEOREM ServesNoOlder == SyncSpec => NeverServesOlder
  <1>1. IInv /\ IInv' /\ [SyncNext]_syncVars =>
          [\A p \in Process : (~overlap' /\ index[p] # NoIndex /\ index'[p] # NoIndex) =>
             \A s \in index[p].sources \cap index'[p].sources :
               \/ index'[p].pins[s].content >= index[p].pins[s].content
               \/ external[s].state = "absent"]_syncVars
    BY OlderStep
  <1> QED
    BY <1>1, Invariance, PTL DEF NeverServesOlder, SyncSpec

LEMMA SuccessStep == IInv /\ [SyncNext]_syncVars =>
  \A p \in Process : (~overlap /\ job[p] = "running" /\ job'[p] = "success") =>
    \A s \in Source :
      /\ listed[p][s].state = "live" =>
           Ready(knowledge[s]) /\ knowledge[s].version = listed[p][s].version
      /\ listed[p][s].state = "disabled" => ~Ready(knowledge[s]) /\ pins[s] = NoPins
  <1> SUFFICES ASSUME IInv, [SyncNext]_syncVars, NEW p \in Process, ~overlap,
                      job[p] = "running", job'[p] = "success", NEW s \in Source
               PROVE  /\ listed[p][s].state = "live" =>
                           Ready(knowledge[s]) /\ knowledge[s].version = listed[p][s].version
                      /\ listed[p][s].state = "disabled" => ~Ready(knowledge[s]) /\ pins[s] = NoPins
    OBVIOUS
  <1>1. SyncTypeOK
    BY DEF IInv
  <1>2. Finish(p) /\ ~failed[p]
    <2>1. PICK q \in Process : Begin(q) \/ Finish(q) \/ SyncFails(q)
      BY <1>1, EditedAssumption DEF SyncNext, SyncStep, Start, StartFails, Kill, List,
         MarkDisabled, Fetch, SyncSource, MarkFailed, Done, RebuildAliases, Rebuild, Edit, Remove,
         syncVars, SyncTypeOK
    <2>2. job' = [job EXCEPT ![q] = job'[q]]
      BY <1>1, <2>1 DEF Begin, Finish, SyncFails, SyncTypeOK
    <2>3. q = p
      BY <1>1, <2>2 DEF SyncTypeOK
    <2> QED
      BY <1>1, <2>1, <2>3 DEF Begin, Finish, SyncFails, JobStatus, SyncTypeOK
  <1>3. pc[p] = "finish" /\ todo[p] = {}
    BY <1>1, <1>2 DEF Finish, IInv, TodoIsLive, SyncTypeOK
  <1> QED
    BY <1>2, <1>3 DEF IInv, SoFarComplete

\* A synchronisation that reports success, and that no other overlapped, has done what its list
\* asked for (ParameterKnowledgeSyncService.sync).
THEOREM SuccessComplete == SyncSpec => SuccessIsComplete
  <1>1. IInv /\ [SyncNext]_syncVars =>
          [\A p \in Process : (~overlap /\ job[p] = "running" /\ job'[p] = "success") =>
             \A s \in Source :
               /\ listed[p][s].state = "live" =>
                    Ready(knowledge[s]) /\ knowledge[s].version = listed[p][s].version
               /\ listed[p][s].state = "disabled" => ~Ready(knowledge[s]) /\ pins[s] = NoPins]_syncVars
    BY SuccessStep
  <1> QED
    BY <1>1, Invariance, PTL DEF SuccessIsComplete, SyncSpec
=============================================================================
