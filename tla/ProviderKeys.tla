---------------------------- MODULE ProviderKeys ----------------------------
(***************************************************************************)
(* The Jina key: saved by an admin in the database, copied into the memory *)
(* of each process, used by the worker's handlers.  A process without the  *)
(* master key cannot read a saved key.  A handler the provider refuses for *)
(* its account pauses every job; saving a key with credit resumes them.    *)
(***************************************************************************)
EXTENDS Integers, FiniteSets

CONSTANTS KeyProcs,                  \* "api" and "worker"
          NewKeys, EnvKey,           \* keys an admin may save, the environment's
          Admins, Handlers,          \* concurrent key changes, concurrent handlers
          KEY_CHANGES_PER_MINUTE,    \* the model covers one minute of changes
          MAX_RESTARTS               \* bound on restarts

NoKey == "none"
Unreadable == "unreadable"

\* What is no key is none that is saved.
ASSUME KeysAssumption == {"api", "worker"} \subseteq KeyProcs /\ {NoKey, Unreadable} \cap NewKeys = {}

VARIABLES keyMaster,      \* the processes that have the master key
          keyRow,         \* the saved key, or NoKey
          keyMem,         \* what each process loaded: a key, NoKey or Unreadable
          keyFresh,       \* loaded less than REFRESH_S ago
          keyReport,      \* process_status: what each process says it uses
          keyAdmin,       \* where each change is, and its key and credit
          keyTask,        \* where each handler is, the key it began with, and
                          \* (history) the right key when it reloaded
          keyPaused,      \* the jobs are paused with reason jina_account
          keyChanges, keyRestarts

keyVars == <<keyMaster, keyRow, keyMem, keyFresh, keyReport, keyAdmin, keyTask, keyPaused,
             keyChanges, keyRestarts>>

\* Mutated: the environment's key stands in for one that cannot be read.
KeyOfEnvInstead(m) == IF m \in {NoKey, Unreadable} THEN EnvKey ELSE m

KeyOf(m) == CASE m = Unreadable -> ""
              [] m = NoKey -> EnvKey
              [] OTHER -> m

current(p) == KeyOf(keyMem[p])

source(m) == CASE m = Unreadable -> "unreadable"
               [] m = NoKey -> IF EnvKey = "" THEN "none" ELSE "environment"
               [] OTHER -> "portal"

\* What a process reads from the database.
Loaded(p) == IF keyRow = NoKey THEN NoKey ELSE IF p \in keyMaster THEN keyRow ELSE Unreadable

\* The key that is right for a process.
Right(p) == IF keyRow = NoKey THEN EnvKey ELSE IF p \in keyMaster THEN keyRow ELSE ""

NoChange == [st |-> "idle", key |-> NoKey, credit |-> FALSE]
NoWork == [st |-> "idle", before |-> "", seen |-> ""]

\* A process that starts has no keys until its first load, which may fail.
KeyInit ==
  /\ keyMaster \in {KeyProcs, {"api"}, {}}
  /\ keyRow \in {NoKey} \cup NewKeys
  /\ keyMem = [p \in KeyProcs |-> NoKey]
  /\ keyFresh = [p \in KeyProcs |-> FALSE]
  /\ keyReport = [p \in KeyProcs |-> <<>>]
  /\ keyAdmin = [a \in Admins |-> NoChange]
  /\ keyTask = [h \in Handlers |-> NoWork]
  /\ keyPaused = FALSE /\ keyChanges = 0 /\ keyRestarts = 0

\* refresh: the memory is replaced, then reported; reporting may fail.
refresh(p, reported) ==
  /\ keyMem' = [keyMem EXCEPT ![p] = Loaded(p)]
  /\ keyFresh' = [keyFresh EXCEPT ![p] = TRUE]
  /\ keyReport' = IF reported
                  THEN [keyReport EXCEPT ![p] = <<source(Loaded(p)), KeyOf(Loaded(p))>>]
                  ELSE keyReport

NotRefreshed == UNCHANGED <<keyMem, keyFresh, keyReport>>

\* REFRESH_S go by.
Expire(p) ==
  /\ keyFresh[p]
  /\ keyFresh' = [keyFresh EXCEPT ![p] = FALSE]
  /\ UNCHANGED <<keyMaster, keyRow, keyMem, keyReport, keyAdmin, keyTask, keyPaused,
                 keyChanges, keyRestarts>>

\* The refresher of the API, the heartbeat loop of the worker.
RefreshLoop(p, reported) ==
  /\ ~keyFresh[p]
  /\ refresh(p, reported)
  /\ UNCHANGED <<keyMaster, keyRow, keyAdmin, keyTask, keyPaused, keyChanges, keyRestarts>>

Restart(p) ==
  /\ keyRestarts < MAX_RESTARTS
  /\ keyRestarts' = keyRestarts + 1
  /\ keyMem' = [keyMem EXCEPT ![p] = NoKey]
  /\ keyFresh' = [keyFresh EXCEPT ![p] = FALSE]
  /\ keyAdmin' = IF p = "api" THEN [a \in Admins |-> NoChange] ELSE keyAdmin
  /\ keyTask' = IF p = "worker" THEN [h \in Handlers |-> NoWork] ELSE keyTask
  /\ UNCHANGED <<keyMaster, keyRow, keyReport, keyPaused, keyChanges>>

-----------------------------------------------------------------------------
(* An admin changes the key                                                *)

Admin(a, st) == [keyAdmin EXCEPT ![a].st = st]

\* PUT: the provider accepts the key, with or without enough credit, or the
\* request is refused; both count towards the limit.
Check(a, k, accepted, credit) ==
  /\ keyAdmin[a].st = "idle" /\ keyChanges < KEY_CHANGES_PER_MINUTE
  /\ keyChanges' = keyChanges + 1
  /\ keyAdmin' = IF accepted
                 THEN [keyAdmin EXCEPT ![a] = [st |-> "save", key |-> k, credit |-> credit]]
                 ELSE keyAdmin
  /\ UNCHANGED <<keyMaster, keyRow, keyTask, keyPaused, keyRestarts>>
  /\ NotRefreshed

\* save: without the master key nothing can be encrypted.
Save(a) ==
  /\ keyAdmin[a].st = "save"
  /\ IF "api" \in keyMaster
     THEN keyRow' = keyAdmin[a].key /\ keyAdmin' = Admin(a, "reload")
     ELSE keyRow' = keyRow /\ keyAdmin' = [keyAdmin EXCEPT ![a] = NoChange]
  /\ UNCHANGED <<keyMaster, keyTask, keyPaused, keyChanges, keyRestarts>>
  /\ NotRefreshed

\* DELETE.
Clear(a) ==
  /\ keyAdmin[a].st = "idle" /\ keyChanges < KEY_CHANGES_PER_MINUTE
  /\ keyChanges' = keyChanges + 1
  /\ keyRow' = NoKey
  /\ keyAdmin' = [keyAdmin EXCEPT ![a] = [NoChange EXCEPT !.st = "reload"]]
  /\ UNCHANGED <<keyMaster, keyTask, keyPaused, keyRestarts>>
  /\ NotRefreshed

\* The forced refresh after the commit; then, with enough credit, the resume.
AdminReload(a, reported) ==
  /\ keyAdmin[a].st = "reload"
  /\ refresh("api", reported)
  /\ keyAdmin' = IF keyAdmin[a].credit THEN Admin(a, "resume")
                 ELSE [keyAdmin EXCEPT ![a] = NoChange]
  /\ UNCHANGED <<keyMaster, keyRow, keyTask, keyPaused, keyChanges, keyRestarts>>

Resume(a) ==
  /\ keyAdmin[a].st = "resume"
  /\ keyPaused' = FALSE
  /\ keyAdmin' = [keyAdmin EXCEPT ![a] = NoChange]
  /\ UNCHANGED <<keyMaster, keyRow, keyTask, keyChanges, keyRestarts>>
  /\ NotRefreshed

AdminStep(a) == Save(a) \/ Resume(a) \/ \E reported \in BOOLEAN : AdminReload(a, reported)

-----------------------------------------------------------------------------
(* A handler of the worker                                                 *)

Begin(h) ==
  /\ keyTask[h].st = "idle" /\ ~keyPaused
  /\ keyTask' = [keyTask EXCEPT ![h] = [NoWork EXCEPT !.st = "crawl", !.before = current("worker")]]
  /\ UNCHANGED <<keyMaster, keyRow, keyAdmin, keyPaused, keyChanges, keyRestarts>>
  /\ NotRefreshed

\* process_domain ends, or raises the provider's account error.
Crawled(h, refused) ==
  /\ keyTask[h].st = "crawl"
  /\ keyTask' = IF refused THEN [keyTask EXCEPT ![h].st = "refused"]
                ELSE [keyTask EXCEPT ![h] = NoWork]
  /\ UNCHANGED <<keyMaster, keyRow, keyAdmin, keyPaused, keyChanges, keyRestarts>>
  /\ NotRefreshed

\* Mutated: the key in memory is taken for the saved one.
HandlerReloadFresh(h, reported) ==
  /\ keyTask[h].st = "refused"
  /\ IF keyFresh["worker"] THEN NotRefreshed ELSE refresh("worker", reported)
  /\ keyTask' = IF KeyOf(keyMem'["worker"]) # keyTask[h].before
                THEN [keyTask EXCEPT ![h] = NoWork]
                ELSE [keyTask EXCEPT ![h].st = "pausing", ![h].seen = Right("worker")]
  /\ UNCHANGED <<keyMaster, keyRow, keyAdmin, keyPaused, keyChanges, keyRestarts>>

\* The forced reload: with another key the domain goes back to the queue.
HandlerReload(h, reported) ==
  /\ keyTask[h].st = "refused"
  /\ refresh("worker", reported)
  /\ keyTask' = IF KeyOf(keyMem'["worker"]) # keyTask[h].before
                THEN [keyTask EXCEPT ![h] = NoWork]
                ELSE [keyTask EXCEPT ![h].st = "pausing", ![h].seen = Right("worker")]
  /\ UNCHANGED <<keyMaster, keyRow, keyAdmin, keyPaused, keyChanges, keyRestarts>>

Pause(h) ==
  /\ keyTask[h].st = "pausing"
  /\ keyPaused' = TRUE
  /\ keyTask' = [keyTask EXCEPT ![h] = NoWork]
  /\ UNCHANGED <<keyMaster, keyRow, keyAdmin, keyChanges, keyRestarts>>
  /\ NotRefreshed

KeyNext ==
  \/ \E p \in KeyProcs : \/ Expire(p) \/ Restart(p)
                         \/ \E reported \in BOOLEAN : RefreshLoop(p, reported)
  \/ \E a \in Admins : \/ AdminStep(a) \/ Clear(a)
                       \/ \E k \in NewKeys, accepted, credit \in BOOLEAN :
                            Check(a, k, accepted, credit)
  \/ \E h \in Handlers : \/ Begin(h) \/ Pause(h)
                         \/ \E refused \in BOOLEAN : Crawled(h, refused)
                         \/ \E reported \in BOOLEAN : HandlerReload(h, reported)

KeySpec == KeyInit /\ [][KeyNext]_keyVars

-----------------------------------------------------------------------------
\* The jobs are paused only by a handler whose key was still the right one when
\* it looked: a key replaced before the reload is never a reason to pause
\* (handle, "Pausing now would undo the resume that saving it triggered").
PauseSeesTheKey ==
  \A h \in Handlers : keyTask[h].st = "pausing" => keyTask[h].before = keyTask[h].seen

\* Every process uses the key an admin saved, the environment's if there is none,
\* and nothing at all if it cannot read the saved one; and it reports the key it
\* uses.
KeysRight ==
  \A p \in KeyProcs : /\ current(p) = Right(p)
                      /\ keyReport[p] = <<source(keyMem[p]), current(p)>>

=============================================================================
