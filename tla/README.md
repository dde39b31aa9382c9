# Verification of kodi-profile-sync-server

TLA+ models of the profile sync server, the TLC runs that check them on small
instances and TLAPS proofs of what matters most. The server is a Python program:
one SQLite database (`store.py`), a threaded HTTP server (`http.py`) in front of
it, Ed25519 signatures on every document (`crypto.py`), and a host-only command
line (`admin.py`).

`PROJECT.json` has the map from definitions to source lines, the runs, a mutant
for every property, the hazards with their lines, the findings and the theorems.
Paths below are relative to `src/profile_sync_server/`.

## 1. The system

### Parts, state and operations

| Part | State | Operations | Correct when |
|---|---|---|---|
| Revision store | table `revisions`: id -> manifest | `put_revision`, `revision` | stored bytes never change; an upload is refused only for cause |
| Channels | table `channels`: candidate, active, generation | `publish_candidate`, `promote` | the active head only takes the candidate's value, one generation at a time |
| Assignments | table `assignments`: enrollment -> channel, revision, kind, signed document | `assign_candidate`, `bootstrap_active`, `promote`, `assignment` | a stored assignment is for a current head of its channel and for the device as paired |
| Reports | tables `reports` (schema 1), `assignment_reports` (schema 2) | `record_report`, read by `promote` | a promotion is gated by what the required devices really reported on that revision |
| Enrollment registry | table `enrollments` | `pair`, `revoke_enrollment`, `heartbeat`, `register_encryption_key` | rows keep their identity, generations of a device are 1, 2, 3, ..., a revocation is for good |
| Pairing codes | table `pairing_codes` | `create_pairing_code`, `pair` | a code enrolls one installation, the one it was meant for, in time, after few guesses |
| Idempotency | table `idempotency`: key -> operation, response | `_idempotent` around five handlers | a key takes effect once, and its answer is what happened |
| Administrator gate | table `admin_requests`: actor and nonce -> request digest, expiry | `authorize_admin_request` | nothing takes effect without a valid signed request; a nonce names one request |
| Blob store | table `blobs`, files below `blobs/sha256` | `put_blob`, `blob` | rows and files agree, also after a crash; the quota holds |
| Backup and restore | a directory with database copy, blobs and inventory | `backup_epoch`, `restore_epoch`, `backup`, `restore_backup` | a restored store is one the server could have been in |
| Device sessions, secret delivery | columns of `enrollments`; external broker | `heartbeat`, `register_encryption_key`, `secret_envelope_request`, `SecretBrokerClient.envelope` | envelopes fit the enrollment and the one key it registered; a steady device gets through |
| Readers, snapshots | none | `assignment`, `blob`, `revision`, `integration_fleet_snapshot`, `integration_rollout_snapshot` | an answer is what one moment of the call would have answered |
| Signatures | key registry file | `SignedDocumentVerifier` | a key speaks for its kinds and its enrollment only |
| Convergence contracts | none | `convergence.py`: three validators | what is accepted stays within what the offline promoter signed |

### How they interact

Every request is a thread of `ThreadingHTTPServer`. A handler opens its own SQLite
connection (WAL, busy timeout of ten seconds), and all writers but `put_revision`
open with `BEGIN IMMEDIATE`, so they exclude each other until the `with` block
commits or, on an exception, rolls back. Threads therefore interleave *between*
transactions, before the lock is had, between autocommit statements, and between
the two transactions of an administrator's request: the gate commits the nonce
before the handler runs. The administrator's command line is another process on the
same file. Devices, administrators and promoters are outside: they sign documents,
repeat requests whose answer they lost, and are late.

### What is hard

* Three tables, `channels`, `assignments` and the reports, are kept consistent by
  each handler on its own; documents are signed for one state of them and arrive in
  another.
* `pair` and the gate read the clock before they wait for the lock.
* `put_revision` reads and writes in separate transactions.
* A rollback takes back *everything* the handler wrote, also what was meant to stay.
* A crash can fall between the gate and the handler, and between a file and its row.
* Reports replace each other, and the gate of a promotion reads only the last ones.
* Readers run several SELECTs in autocommit mode while writers commit between them.
* Heartbeats are not numbered; the broker is asked after the database was released,
  and may be silent.

`PROJECT.json` lists the hazards line by line, with the properties that cover them
or a note why none does.

## 2. The modules

| Module | Models | Its actions |
|---|---|---|
| `Fleet` | the registry as the rollout reads it | `Enroll`, `RevokeEnrollment` |
| `ChannelHeads` | abstract: what the rollout promises of a channel | `Publish`, `Advance` |
| `Rollout` (extends `Fleet`) | the handlers' closures `action()` | one per handler, `Pair`, `Revoke` |
| `RolloutHistory` (extends `Rollout`) | the same with a log of reports and promotions, which only observes | the same |
| `Requests` (extends `Rollout`) | the handlers inside `_idempotent` | `...Request` |
| `Readers` (extends `Requests`) | one thread in `assignment`, `blob` or `integration_rollout_snapshot`, SELECT by SELECT, beside all requests | `Authenticate`, `ReadRow`, `ReadHead`, `ReadManifest`, `ReadAssignments`, `ReadAssignmentReports`, `ReadReports`, `Deliver` |
| `WriteOnce` | abstract: a column that is NULL until it is filled in, for good | `Write` |
| `Sessions` (extends `Fleet`) | heartbeats, key registration, and envelopes through the broker, with lost and reordered requests and a broker that hangs | `Heartbeat`, `RegisterEncryptionKey`, `Ask`, `Answer`, `TimeOut`, `Pair`, `Revoke`; outside the server `Change`, `Send...`, `Lose`, `Hang` |
| `Signatures` | the key registry and `SignedDocumentVerifier`, as operators | |
| `Convergence` (extends `Fleet`, `Signatures`) | the three validators of `convergence.py`, beside a clock and the registry of enrollments | `AcceptAssignment`, `AcceptReport`, `Pair`, `Revoke`, `Tick`; outside the server `SignIntent` |
| `Pairing` (extends `Fleet`) | `create_pairing_code`, `pair`, `revoke_enrollment` | `CreatePairingCode`, `BeginPair`, `Pair`, `RefusePair`, `Revoke`, `Tick` |
| `PairingHistory` (extends `Pairing`) | the same with a record of every code created | the same |
| `RevisionStore` | `put_revision` statement by statement, with crashes | `Look`, `Insert`, `Answer`, `Crash` |
| `AdminGate` | the two transactions of an administrator's request | `Receive`, `Authorize`, `Execute`, `Finish`, `Crash`, `Tick`, and outside the server `Sign` |
| `BlobStore` | `put_blob` step by step: file, row, and every way to end between them | `BeginUpload`, `Link`, `FileInTheWay`, `Insert`, `Abandon`, `Answer` |
| `BackupEpoch` (extends `BlobStore`) | `backup_epoch` beside the server, `restore_epoch` into a lost data directory, with failures, kills and a left-over write-ahead log | one per step; outside the program `Lose` and `Damage` |
| `MCRolloutHistory`, `MCReaders`, `MCPairing`, `MCAdminGate`, `MCBlobStore`, `MCBackupEpoch`, `MCConvergence` | symmetry sets, blob sizes and the key registry of the instances | |
| `FleetProofs`, `PairingProofs`, `SessionsProofs`, `ConvergenceProofs`, `RevisionStoreProofs`, `AdminGateProofs` | theorems about the module of that name; `PairingProofs` also about `PairingHistory` | |
| `RolloutProofs` | theorems about `Rollout`, `RolloutHistory`, `Requests` and `Readers` | |
| `BackupEpochProofs` | theorems about `BlobStore` and `BackupEpoch` | |

How they fit together: `Pairing` and `Rollout` both keep the registry and
contain the actions of `Fleet`, so that both are `Fleet` for the registry by their form
(lemmas `PairingIsFleet` and `RolloutIsFleet`, which pass `FleetProofs` on to them);
`Rollout` takes one atomic `Enroll` for the whole pairing protocol. `Rollout` takes an upload as one step that
adds an id, which is what `RevisionStore` lets anyone see of it: rows appear and never
change (`ManifestsAreImmutable`). `Requests` is `Rollout` with the idempotency table
and refines it (theorem `RequestsImplementRollout`); `AdminGate` treats any of its
handlers as one effect. `Rollout` refines `ChannelHeads`. `Readers` is `Requests` with
one reading thread, which changes no table (theorem `ReadersImplementRequests`), so
what holds of `Requests` and `Rollout` holds beside a reader and is checked in its run.
The history modules only observe (`HistoryImplementsRollout`). `Sessions` adds to
`Fleet` the columns that a device reports, and its encryption keys refine `WriteOnce`:
the cells of the abstract module are the key column of the rows. `Convergence` takes
from `Fleet` the row an assignment is validated against.

Choices that a reader of the code should know:

* A handler under `BEGIN IMMEDIATE` is one action, enabled exactly when the handler
  succeeds. A refusal changes nothing because of the rollback; where a refusal
  matters (`pair`, the gate, an upload) it is an action.
* A signed document is a record of the fields that are compared. For schema 2 the
  record *is* the assignment id, because the id is the digest of the content and the
  handlers check that. Signature checks are the restriction to documents that
  verify. The validity window of an assignment only limits *when* it can be stored,
  so the models, which let it be stored at any time, allow more than the code.
  A `nonce` makes two contracts for the same thing different.
* `Reporter` keeps the code's two ways to verify a report: the enrollment's own key,
  or the static key registry for a device that never paired (`Legacy`).
* Enrollment ids are random, so nothing is signed for one before it exists (`Known`).
  Without this a static-registry document could wait for an id yet to be drawn.
* `BackupEpoch` keeps of the database the rows of `blobs`, as SQLite reads them at
  that path: `log` is the write-ahead log that a server killed within a request may
  leave, and a database file that is linked in beside it is read through it. There is
  one backup at a time. `tainted` is a history variable that marks data from a restore
  that was killed or met a log, so that the properties can say what holds otherwise.
* `create_pairing_code` and `pair` read the clock before they have the lock. A pair call
  that waits is state of its own (`waiting`); a code carries the moment it was asked for,
  any one up to the present, and expires by that one.
* A lookup by an enrolled device comes with its token, so it asks for its own channel; a
  device of the static registry may ask for any (`MayAsk`).
* `AdminGate` has two of the gated operations; `put_revision` and `put_blob` are gated in
  the same way but do not run under `_idempotent`. `Sessions` leaves out of a heartbeat
  the comparison of its device and channel, which are fixed in the row, and the
  format of what is reported. The command line opens the store before a backup, which
  creates a database where there is none; `BeginBackup` does the same. No backup
  is begun during a restore, for which the README has the service stopped.
* The four results that are not `success` are one, since only `success` is tested.
* `NewestCanaryReports` is a set because the ORDER BY of `promote` has ties.
* In `Readers` one read is followed at a time: readers do not see each other. `seen`
  is a history variable with what the tables said, about the reader's device, at each
  moment since the read began. The rollout snapshot takes all assignments in one
  SELECT; one of them stands for the others. The rows of blobs and revisions never
  change once they are there, so the last SELECTs of `blob` and the file are one step
  that finds the blob or does not.
* In `Sessions` an enrollment id stands for its access token, and a key pair tells who
  made it. A request is in `requests` from the moment it is sent to the moment a thread
  has the lock. `MaxInFlight` bounds how many there are when an arbitrary one is sent;
  what a steady installation says of itself is not bounded, since otherwise the bound
  itself could keep it from being heard.
* In `Convergence` the holders of the keys in `Offline` sign what they decide, which is
  the state `signed`. Every other key signs whatever is wanted whenever it is wanted, so
  its documents need no state. A document is its own content id. Two ASSUMEs name what
  the deployment has to provide: the registry's shape, which its constructor checks, and
  that only offline promoters may sign release intents.
* Definitions headed `Fault:` are wrong variants of the definition that follows.
  They are used by no specification; each shows, put in the place of its original,
  that a property can fail.

## 3. The runs

Every run says `CHECK_DEADLOCK FALSE`, because the bounds on time, generations and
calls let an instance come to its end; the server itself never stops.

| Run | Instance | Shows |
|---|---|---|
| `rollout` | 1 paired and 1 static-registry device, 1 channel, 2 revisions, 2 nonces, 2 promotions, 2 reports | every order of the handlers keeps assignments at the heads (`AssignmentsFollowHeads`), reports true to their contracts (`ReportsAgreeWithContracts`), one active revision per generation, revoked devices frozen, and refines `ChannelHeads`; each required canary had reported success on that revision, not taken it back and reported on no newer round (`PromotionWasTested`); active reports are about promoted revisions; promotions are numbered without gap |
| `readers` | 4 keys, 2 channels, 2 sets of tags, 2 revisions of which one refers to the blob, 2 promotions, an installation of generation 1 or 2 beside a static-registry device, one reading thread | a lookup, a blob and a snapshot are what one moment of the call would have answered, the stated exceptions aside (`LookupsAnswerOneMoment`, `BlobsAreReachable`, `SnapshotsShowOneMoment`); stored answers and effects are the same history, also under repetition (`AnswersAreTheReleases`, `ServedRevisionsWereAnswered`); devices hold and are served only what belongs to them and to the channel (`AssignmentsFitEnrollment`, `LookupServesHead`) |
| `sessions` | 2 installations of one device, 2 key pairs each, 1 change of a client; the first installation is steady | envelopes fit the enrollment while the broker is asked; keys refine `WriteOnce`; a revocation ends the session; **liveness**: the capabilities on record become the client's (`CapabilitiesConverge`) and a capable device gets through to the broker again and again (`EnvelopeCallsAreAnswered`) |
| `convergence` | 2 installations, 2 devices, 2 bundles, 1 promoter, 2 online and 2 device keys, 1 intent, 2 accepted assignments, clock 0..2 | accepted assignments stay within an intent signed offline, whatever the online keys sign, and are accepted within both windows; accepted reports trace back to it |
| `pairing` | 2 codes, 2 devices, 2 waiting calls, 2 grants, clock 0..2 | one enrollment per grant, as granted, in time; installations numbered without gap |
| `pairing_attempts` | the same, guesses counted | **violated**: see the findings |
| `revision_store` | 3 uploads of 2 encodings of 2 ids, crashes | stored bytes never change; answers have a ground |
| `revision_race` | 2 uploads | **violated**: see the findings |
| `admin_gate` | 2 threads, 2 nonces, 2 keys, 2 documents, clock 0..3 | a nonce is held while its document is valid, a key takes effect once, nothing passes by the gate |
| `backup_epoch` | 3 blobs, a quota of 2, 2 backup destinations | rows keep their files; a backup beside the running server finds every file and agrees with itself; a restore that met no log is exact |
| `restore_log` | the same | **violated**: see the findings |
| `blob_repeat` | 3 blobs, a quota of 2 | **violated**: see the findings |

Why the bounds are enough. A contract can be wrong about its round in two ways, too
early and too late, and about its revision when the active one changes or comes
back: two revisions and two promotions give all of them. Two installations are what
a re-pairing after a revocation needs. Collisions of ids, keys, nonces and codes
need two actors; three uploads let one look before and two after a commit.
The rollout run needs two reports, a success and what takes it back. A reader is
overtaken at most by what four keys allow, which is publication, promotion and the
next publication with an assignment: the head moves and moves on within one call.
Contracts for either generation and either set of tags are offered to its device, and
its static device moves from one channel to the other.
The steady installation of `sessions` shares its device with another one, so that a
re-pairing and requests under an older name happen; one change of the client is what
makes a heartbeat in flight a late one. One intent is enough because an assignment
carries its own; two accepted assignments let a report name one and repeat the other. A clock of
0..2 has before, at and after an expiry of one unit; the gate adds one unit for a
validity of two. Every pass run's properties are also broken by a mutant under the
same bounds, so the situations they speak of do occur.

Three blobs and a quota of two have a blob stored before a backup's copy, one during
it and one refused. Nothing else in `BackupEpoch` is counted.

Fairness. Only `Sessions` assumes fairness, and only for the installations in
`Steady`; of administrators, other devices, losses and changes of a client it assumes
nothing. The agent of a steady device repeats its heartbeat, its key and its call
for an envelope (WF). A repeated request is not lost or refused by a busy lock for
ever: when a copy is on its way again and again, some copy is served (SF per
operation; WF would not do, because each copy can be lost). The client of the broker
opens its connection with a socket timeout of ten seconds, so a call that hangs ends
(WF of `TimeOut`). A broker that is asked again and again answers some time (SF): it
can hang, but not every time. Without the timeout `EnvelopeCallsAreAnswered` is
false, since the device makes one call at a time (the run's mutant). The rest of
the server does nothing by itself: each step is a request, and the other
specifications claim no liveness.

## 4. The proofs

Checked by TLAPS for every value of the constants. The assumptions, each named in the
module that declares the constant and evaluated by TLC in the runs:

* bounds are natural numbers, validities and lifetimes positive ones
  (`GateAssumption`, `PairingAssumption`, `ClockAssumption`, `SizeAssumption`, ...);
* a null value is none of the values it stands beside (`Absent...Assumption`,
  `NoRevisionAssumption`, `UnusedAssumption`, `NoReportAssumption`): NULL in a column, a
  missing row, JSON null;
* `Legacy` and `Enrollment` are disjoint, `Referring` revisions are revisions, steady
  devices are enrollments, and the key registry has the shape that its constructor
  checks (`RegistryAssumption`);
* `PromotersAreOffline`: only keys kept offline may sign release intents. This is about
  the deployment and not the code; what the validators promise rests on it.

In most cases the property is not inductive, and the work is to find what it rests on.

* `FleetProofs`: density is inductive with the type: the new number is one more than an
  existing one or 1, and above all existing ones.
* `RolloutProofs`, of `Rollout`: the argument goes in layers. The type says that heads
  are stored revisions. On it rests "rows follow heads": a publication or promotion
  moves a head and clears exactly the rows that followed it, and a row is only written
  for the current heads. On that rests `ReportsAgreeWithContracts`: a report on an
  active contract of the current generation is about the current active revision, since
  its contract is a stored row. This is the strengthening that makes
  `ActiveRevisionPerGeneration` inductive, which by itself says nothing about the row
  that the next report will name.
* `RolloutProofs`, of `RolloutHistory` (`PromotionsAreAlwaysTested`,
  `ActiveReportsAreAlwaysPromoted`, `PromotionsAreAlwaysTheHistory`). What a promotion
  reads are the tables, and what the property speaks of is the log. `HistoryInv` ties
  them in both directions: each row of a table of reports is the last word of the log on
  what it answers (`ReportsAreLogged`), and a contract reported on keeps a row in the
  table (`LoggedContractsHaveRows`), so a report on a newer round would have been seen by
  the gate. No revision is active before the first promotion (`ActiveByPromotion`). The
  log only grows, and what an entry was worth as of an earlier length does not change
  (`EarlierPass`), which keeps what was said of older promotions. That the gate finds a
  newest row at all rests on generations being bounded below and above
  (`NewestExists`).
* `RolloutProofs`, of `Requests` (`RequestsImplementRollout`,
  `AnswersAreAlwaysTheReleases`, `ServedRevisionsWereAlwaysAnswered`). `RequestsInv` says
  that each generation up to the current one is on record under one key
  (`ReleasesOnRecord`) and that both heads of a channel were published by an answered
  request (`HeadsWereAnswered`). That a *served* revision was answered is not inductive:
  a later assignment copies a head that was perhaps served to nobody.
* `RolloutProofs`, of `Readers` (`LookupsAlwaysAnswerOneMoment`,
  `BlobsAreAlwaysReachable`, `SnapshotsAlwaysShowOneMoment`). `ReadersInv` says that the
  present moment is among those seen and, for each point of control of a read
  (`LookupSound`, `SnapshotSound`), what its locals say of a moment seen. The hard
  steps are those of the writers: a token was checked, or a row not found, and then a
  writer commits. For the lookup this needs that a device that is no longer live is
  given no row (`NoRowWithoutLife`), so a row found after a revocation was there before
  it, and that a head moves only in the step that replaces the device's row
  (`HeadMovesRows`). For the snapshot it needs what a stored report says of the
  assignment it was made on.
* `PairingProofs`: `PairedGenerationsStayDense`, `GrantsAreAlwaysUsedOnce`,
  `EnrollmentsAlwaysMatchGrants`. That a grant is used once says nothing about the table
  of codes, where the digits of a purged code come back under another grant. `GrantsInv`
  adds that each row of the table is as the latest grant of its digits, which nobody
  has used until the row is consumed (`CodesAreGrants`), that two rows are two grants
  (`DigitsDiffer`) and that enrollments are what grants were used for
  (`EnrolledByGrant`).
* `SessionsProofs`: that an envelope fits the enrollment is not inductive: the next call
  copies the key column. `KeysInv` adds where keys come from: a device has and sends its
  own keys (`SentKeysAreOwn`), so a stored key is the installation's own and no
  enrollment has one before it is paired (`StoredKeysAreOwn`). The lemma `KeyColumnStep`
  says what a step does to the column, namely nothing or NULL to an own key; the
  envelopes and the refinement of `WriteOnce` both follow from it.
* `ConvergenceProofs`: `AssignmentsAlwaysStayWithinTheIntent`,
  `ReportsAlwaysTraceToThePromoter`. An intent that holds was signed
  (`IntentsAreSigned`). `ContractsInv` keeps two facts of an accepted assignment apart:
  what it says within its intent and of the row it was accepted for, which never
  changes (`Bounded`), and that its enrollment is still that installation
  (`StillAddressed`), which holds because a registry row keeps its device and generation
  (`NamedColumnsStay`). A report is traced through both.
* `AdminGateProofs`: `NonceIsAlwaysHeld`, `KeysAlwaysTakeEffectOnce`,
  `EffectsAreAlwaysOnRecord`. `GateInv` adds what a thread carries between the two
  transactions: a document that was signed and, once admitted, authorized, and a reading
  of the clock that is not later than now (`CallsSound`). The last is why the purge,
  which uses that reading, removes no row of a document that is still valid
  (`PurgeKeepsValid`).
* `RevisionStoreProofs`: the type, the immutability of stored bytes and the ground of
  the answers are inductive together.
* `BackupEpochProofs`: `RowsAlwaysHaveFiles`, `BackupsAlwaysFindTheirFiles`,
  `EpochsAreAlwaysConsistent`, `CleanRestoreIsAlwaysTheEpoch`. The server, a backup and a
  restore work on the same directory, and each has its part of `EpochInv`: a linked
  file stays until its row is there (`StoreInv`), nothing is served or backed up during a
  restore (`ServerInv`, `BackupInv`), and a restore starts from nothing and adds only
  the files of a complete epoch (`RestoreInv`). An epoch remembers which of its files were
  damaged after publication (`damaged`); it is published with all others, since each
  file the inventory lists was found and copied.

An attempt at a proof corrected one property. `SnapshotsShowOneMoment` first excepted a
contract shown with a report on a schema 1 assignment that is *still* in the table. For
the last step of a snapshot this could not be shown, and with five keys TLC found why:
the report can be replaced by a failure after it was read. The property is now stated
over the moments seen.

Only model-checked is what is out of the prover's reach: liveness
(`CapabilitiesConverge`, `EnvelopeCallsAreAnswered`), which needs ENABLED. Every other
property of a passing run is a theorem.

## 5. Findings

* `pair` lowers `attempts_remaining` and raises in the same transaction
  (`store.py:746`): the decrement is rolled back and the limit of a code never takes
  effect. Run `pairing_attempts`.
* `put_revision` checks and inserts in separate transactions (`store.py:1166-1177`):
  of two racing uploads of an id with different `created_utc` or signature both
  succeed and one is dropped. Run `revision_race`.
* `put_blob` links the file before its row commits and leaves it when the transaction
  fails or the process dies (`store.py:1238`): that blob can never be stored again.
  Run `blob_repeat`.
* `restore_epoch` does not look for `state.sqlite-wal` (`store.py:529`): a log left by
  a killed server beside the removed database is replayed over the restored one, so
  rows of the lost store come back. Run `restore_log`.

What the runs show and no document speaks against, so that it is no finding:

* The rollout snapshot shows a contract that was not reported on with the result of an
  earlier schema 1 assignment of the same revision; since it reads the reports last,
  even with one made after the contract was replaced (`SnapshotsShowOneMoment` excepts
  both).
* A device whose row is not there is told the active head by a third SELECT. If it is
  revoked after its token was checked, it is told the head of a later moment; and if a
  promotion between the two SELECTs gives it an active contract for the new head, it is
  told the bare head where one moment would have answered the contract
  (`LookupsAnswerOneMoment` excepts these two and nothing else).
* A failure on one of two contracts of the same round may be overlooked by the gate of a
  promotion, and a success of an earlier round counts as long as the device reported on
  no newer contract (`PromotionWasTested` says exactly this).
* After a promotion without a batch a device is told the active revision, but `blob`
  refuses its blobs until an assignment is stored.
* A call for an envelope whose row was read before a revocation is still answered
  (`RevocationEndsTheSession` excepts the calls under way).
* `max_assignments` of a release intent is validated, but no validator counts.

## 6. Not modelled, and the plan

Not modelled for good:

* Ed25519, base64url, canonical JSON and the patterns of ids; TLS and sockets. They
  keep no state, or are libraries. `Signatures` says what is taken of them.
* `transport_mode` and `main`: options are checked once, before the server starts.
* The command line, which parses arguments and calls handlers that are modelled;
  metadata, container and workflows.
* `integration_fleet_snapshot` and `revision`: they relate nothing that two of their
  statements read. `public_bundle` copies a part of the registry.
* `backup` and `restore_backup`: the first halves of `backup_epoch` and
  `restore_epoch`, without the blobs.

Left of the plan: `RowsAreFrozen` as a theorem of `Sessions` and `Convergence`, which
keep `Fleet`'s registry too; and a common statement of what a repeated request answers
for the gate and the idempotency table together.
