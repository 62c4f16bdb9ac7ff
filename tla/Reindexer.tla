------------------------------- MODULE Reindexer -------------------------------
(* pi-colgrep, lib/reindex.ts and the handlers of extension.ts: the semantic  *)
(* index is rebuilt a while after the last edit, and a request made during a  *)
(* build waits for it.                                                        *)
EXTENDS Integers, FiniteSets

CONSTANTS MaxBuilds,  \* bound: builds that run at once
          NoBuild

VARIABLES
  available,       \* availability.available
  reindexer,       \* whether the session has one
  timer,           \* debounceTimer is set
  inFlight, queued, isShutdown,
  inflightPromise, \* the build the last promise is of
  indexExists,
  builds,          \* the "colgrep init" processes that run
  commands,        \* builds a /colgrep-reindex awaits
  awaited,         \* what shutdown() awaits
  unindexed        \* history: an edit of the session asked for a build, and none
                   \* has begun since, the session's shutdown included

indexVars == <<available, reindexer, timer, inFlight, queued, isShutdown, inflightPromise,
               indexExists, builds, commands, awaited, unindexed>>

IndexInit ==
  /\ available = FALSE /\ reindexer = FALSE /\ timer = FALSE
  /\ inFlight = FALSE /\ queued = FALSE /\ isShutdown = FALSE
  /\ inflightPromise = NoBuild /\ indexExists = FALSE
  /\ builds = {} /\ commands = {} /\ awaited = NoBuild /\ unindexed = FALSE

Build == 1..MaxBuilds
NewBuild(before) == CHOOSE b \in Build : b \notin before
CanBuild == builds # Build

\* runReindex() up to its first await, its promise kept.
RunReindex(before) ==
  /\ inFlight' = TRUE /\ inflightPromise' = NewBuild(before)
  /\ builds' = before \cup {NewBuild(before)} /\ unindexed' = FALSE

(* startRun(): a run in flight is joined.                                     *)
Joins == inFlight /\ inflightPromise # NoBuild
StartRun ==
  IF Joins THEN UNCHANGED <<inFlight, inflightPromise, builds, unindexed>>
  ELSE CanBuild /\ RunReindex(builds)
StartedBuild == IF Joins THEN inflightPromise ELSE NewBuild(builds)

(* session_start, with what it finds: colgrep, an index, indexOnStartup.      *)
StartIndexing(found, exists, onStartup) ==
  /\ ~reindexer
  /\ available' = found
  /\ IF ~found
     THEN UNCHANGED <<reindexer, timer, inFlight, queued, isShutdown, inflightPromise,
                      indexExists, builds, unindexed>>
     ELSE /\ reindexer' = TRUE /\ timer' = FALSE /\ queued' = FALSE /\ isShutdown' = FALSE
          /\ indexExists' = (exists \/ onStartup)
          /\ IF onStartup THEN CanBuild /\ RunReindex(builds)
             ELSE /\ inFlight' = FALSE /\ inflightPromise' = NoBuild /\ unindexed' = FALSE
                  /\ UNCHANGED builds
  /\ UNCHANGED <<commands, awaited>>

(* (A bug: a request made during a build is forgotten.)                       *)
ScheduleUnlessBusy ==
  IF isShutdown THEN UNCHANGED <<timer, queued, unindexed>>
  ELSE /\ unindexed' = TRUE
       /\ IF inFlight THEN UNCHANGED <<timer, queued>> ELSE timer' = TRUE /\ UNCHANGED queued
(* schedule(): during a build it is queued, else the debounce starts anew.    *)
Schedule ==
  IF isShutdown THEN UNCHANGED <<timer, queued, unindexed>>
  ELSE /\ unindexed' = TRUE
       /\ IF inFlight THEN queued' = TRUE /\ UNCHANGED timer
          ELSE timer' = TRUE /\ UNCHANGED queued
(* tool_result: only a successful write or edit, and only with an index.      *)
EditSeen(result) ==
  /\ IF result.error \/ result.tool \notin {"write", "edit"} \/ ~indexExists \/ ~reindexer
     THEN UNCHANGED <<timer, queued, unindexed>> ELSE Schedule
  /\ UNCHANGED <<available, reindexer, inFlight, isShutdown, inflightPromise, indexExists,
                 builds, commands, awaited>>

(* The debounce has passed.  Nothing looks whether a build is in flight.      *)
DebouncePasses ==
  /\ timer /\ timer' = FALSE
  /\ CanBuild /\ RunReindex(builds)
  /\ UNCHANGED <<available, reindexer, queued, isShutdown, indexExists, commands, awaited>>

(* A build ends, well or not, and what was queued starts another.             *)
BuildEnds(b) ==
  /\ b \in builds
  /\ IF queued /\ ~isShutdown
     THEN RunReindex(builds \ {b}) /\ queued' = FALSE
     ELSE /\ inFlight' = FALSE /\ inflightPromise' = NoBuild /\ builds' = builds \ {b}
          /\ UNCHANGED <<queued, unindexed>>
  /\ commands' = commands \ {b}
  /\ indexExists' = (indexExists \/ b \in commands)
  /\ awaited' = IF awaited = b THEN NoBuild ELSE awaited
  /\ UNCHANGED <<available, reindexer, timer, isShutdown>>

(* /colgrep-reindex; without a session's reindexer it makes one of its own,   *)
(* which is left out.                                                         *)
ReindexCommand ==
  /\ available /\ reindexer
  /\ StartRun
  /\ commands' = commands \cup {StartedBuild}
  /\ UNCHANGED <<available, reindexer, timer, queued, isShutdown, indexExists, awaited>>

(* shutdown(): the timer is cleared, and the last promise is awaited; what    *)
(* the timer or the queue stood for is dropped and stays unindexed.           *)
ShutDown ==
  /\ reindexer /\ ~isShutdown
  /\ isShutdown' = TRUE /\ timer' = FALSE /\ awaited' = inflightPromise
  /\ UNCHANGED <<available, reindexer, inFlight, queued, inflightPromise, indexExists, builds,
                 commands, unindexed>>

\* A build that overlapped the awaited one may outlive the session; it touches
\* nothing of the next one and is forgotten here.
ShutDownEnds ==
  /\ reindexer /\ isShutdown /\ awaited = NoBuild
  /\ reindexer' = FALSE /\ builds' = {} /\ commands' = {}
  /\ inFlight' = FALSE /\ queued' = FALSE /\ inflightPromise' = NoBuild
  /\ UNCHANGED <<available, timer, isShutdown, indexExists, awaited, unindexed>>

IndexStep == DebouncePasses \/ (\E b \in Build : BuildEnds(b)) \/ ShutDownEnds
=============================================================================
