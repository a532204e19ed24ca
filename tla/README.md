# Carseph Notes: a TLA+ model of the server and its front end

Carseph Notes is a small multi-user web application: a Go server (`src/cmd/notes`,
`src/internal/*`) with a SQLite database, a directory of blobs, passkey-only accounts and
a JavaScript front end.  This directory holds a model of the server's state and
operations and of the pages that call it, TLC configurations that check them on small
instances, and proofs, checked by TLAPS, of what matters most for instances of any size.

## 1. The system

### Components, their state and operations

| Component | State | Operations | What makes it correct | Modules |
|---|---|---|---|---|
| Notes and folders (`httpapi/notes_handlers.go`, `store/notes.go`, `store/folders.go`, `blob/blob.go`) | tables `notes`, `folders`; one body file per note | create, read, update, delete a note; create, rename, delete a folder | a filed note is in a folder of its own user; deleted notes stay deleted; row and body agree; users do not touch one another's notes | `Vault` (abstract), `Notes`, `NotesProofs` |
| Startup sweep (`cmd/notes/main.go`, `store/files.go` `KeepSets`, `blob.SweepOrphans`) | keep set, position in the directory walk | read keep sets, walk, remove | what a crash left is removed, and nothing else | in `Notes` and `Files` |
| Uploaded files (`httpapi/files_handlers.go`, `store/files.go`) | table `files`; one blob `{id}.{ext}` per file | upload, serve, PATCH (label, rotation), replace bytes, delete | the row names the one blob there is and describes it; bytes are served under their type | `Files`, `FilesProofs` |
| Accounts (`webauthn/service.go`, `httpapi/auth_handlers.go`, `store/store.go`, `store/passkeys.go`, `store/invite.go`) | tables `users`, `passkeys`, `invite_codes`; ceremonies in memory | register, log in, add / rename / delete a passkey, mint an invite code | one account per code, unique names, a session only for the owner of a credential, single-use ceremonies, no account without a passkey | `Membership` (abstract), `Accounts`, `AccountsProofs` |
| Sessions (`sessions/sessions.go`, `store/sessions.go`, `auth` in `httpapi/server.go`) | table `sessions`; the browser's cookie | sign in, look up, slide, log out, clean up | a removed session stays removed; expired rows go; a session in use lasts | `Sessions`, `SessionsProofs` |
| Rate limiter (`httpapi/ratelimit.go`) | map of windows under a mutex | `allow`, `gcLocked` | bounded table; bounded rate; no one kept out by dead windows | `RateLimiter`, `RateLimiterProofs` |
| Migrations (`store.go` `Open`, `migrate`, `store/migrations/*.sql`) | `meta.schema_version`, the schema | open, migrate | the version is that of the schema; nothing is served before; the server comes up | `Migrations`, `Store`, `StoreProofs` |
| Tags (`setTagsTx`, `pruneOrphanTagsTx`, `attachTags`) | tables `tags`, `item_tags` | set, keep, prune, show | links join what exists; tags change only by who sent them | `Tags`, `Store`, `StoreProofs` |
| Image rotation (`httpapi/rotate.go`) | none | rotate pixels, rectangles, GIF frames | a picture is turned as a browser shows it turned; no frame loses a point | `Rotation`, `RotationProofs` |
| Page of a note (`web/static/note.js`) | fields, baseline, identifier, calls | open, edit, save all or one field, close, delete | nothing is lost without a question; one page makes one note | `NoteEditor`, `Browser`, `BrowserProofs` |
| List (`web/static/app.js`) | filter, list, sidebar, selection, tasks | load, filter, move, upload, select and delete | the list is what its title says; only what was agreed to is deleted | `ListView`, `Browser`, `BrowserProofs` |
| Viewer (`web/static/files.js`) | current file, elements, angle, calls | open, turn, save, delete, close | what is shown is what is named and acted on; a rotation is stored as seen | `FileViewer`, `Browser`, `BrowserProofs` |
| Upload validation, limits | none | `sniffAllowed`, sizes, sanitised names | accepted types are what they say | not modelled |
| Origin check, headers, request log, configuration, static assets | none | per request | - | not modelled |

### How they interact

`net/http` runs each request in its own goroutine.  A request passes the rate limiter
(only `/api/auth/`), the origin check, then `auth`, which looks the session up and slides
it, then a handler.  A handler makes several database calls and blob calls; no lock is held
from one to the next.  SQLite is opened with one connection (`store.go:44`), so single
statements and transactions are serialised, handlers are not.  Ceremonies are kept in a map
under `Service.mu`, each critical section is one of `put` and `take`.  A request whose client
hangs up has its context cancelled: later database calls fail, blob calls do not.  At startup
`main` starts the sweep in a goroutine and serves at once.  An hourly ticker removes expired
sessions.  `notes invite-new` is another process on the same database, which migrates it too if
it comes first.  A page of the front end sends calls without waiting for the ones before, keeps
what it knows in plain variables, and learns of nothing but the answers to its own calls.

### What is hard

* **Read, think, write all.** `updateNote`, `updateFile`, `replaceFileBytes` read a row, do
  other work, and write every column back.  Two such requests undo each other's changes; for
  files the old file *name* may come back after its blob was removed.
* **Two stores, no transaction across them.** Row before body on creation and deletion, body
  before row on update.  A failure or crash in between leaves a note without body, a body
  without row, a size that is wrong, two blobs of one file.
* **Checks long before their use.** Folder ownership, invite code and username, the number of
  passkeys, the session itself.
* **Ceremonies across requests.** Begin and finish are separate requests which may come from
  several tabs with one cookie, under another session, twice, late, or after a restart.
* **The sweep beside the server**, with a keep set that ages while it walks.
* **Time.** Windows, lifetimes and expiries compared on both sides of an equality.
* **Two processes on one database.** The version is read outside the transaction that uses it.
* **Tags shared by items** and folded by case, made in passing and pruned only on deletion.
* **Answers out of order.** A page goes on while a save, a load, a document or a rotation is on its
  way; answers arrive in any order, late, or never, and a call whose answer is lost was served.

`PROJECT.json` lists each of these under `hazards`, at the line where it bites, with the
properties that watch it.

## 2. The modules

Every module has one action per step of a handler.  A *step* is what no other request can
come between: an SQL statement or transaction, a file system call, a critical section.  A
request's handler is a record `req[r]` whose `pc` is the next step and whose other fields are
the handler's local variables; `Respond(r)` ends it.  Early returns and error answers are
branches that respond.  A helper such as `OwnsNote` stands for the `WHERE` clause of a statement.

### Notes

State: `notes`, `folders` (tables), `disk` (bodies), `tmps` and `litter` (temp files of
running writes, and left over), `minted` (identifiers are random and not reused), `req`,
`sweep`, `faults`, and two history variables, `atBoot` (notes that had a row when the process
started) and `clean` (notes which no fault, no sweep and no overlap of requests has touched).

| Action | Code |
|---|---|
| `Create`, `CreateFolderCheck`, `CreateRow`, `WriteTmp`, `Rename` | `createNote`, `CreateNote`, `writeAtomic` |
| `Update`, `UpdateRead`, `UpdateFolderCheck`, `WriteTmp`, `Rename`, `UpdateRow` | `updateNote`, `NoteByID`, `FolderOwned`, `UpdateNote` |
| `Delete`, `DeleteRow`, `DeleteBody` | `deleteNote`, `DeleteNote` |
| `CreateFolder`, `DeleteFolder` | `createFolder`, `deleteFolder`; `ON DELETE SET NULL` is in the action |
| `KeepSets`, `SweepSkipped`, `SweepList`, `SweepVisit`, `SweepDone` | the goroutine in `main`, `SweepOrphans` |
| `Fail`, `Crash` | a step that returns an error; the process dies and systemd restarts it |

A `folder_id` in a PUT is `"absent"`, `"null"`, `"empty"` or an identifier, and is decoded the way
`**string` is.  A body is known by its length, a title is opaque.  Tags are left out: they
live in the transaction of the row, so all they can do here is make it fail, which `Fail` does.

`Vault` is what the notes promise: a note is a row and a body that change together (`Create`,
`Update`, `Delete`, `Unfile`), when a request that asked for it (`Ask`) takes effect; a request may
also be refused (`GiveUp`).  `ImplementsVault` in `Notes` is its specification under a mapping:

* `AsOne(i)`, the note as the Vault has it.  A note that is being created is unborn until its body is
  there; a note whose update has stored the body, but not yet the row, has the row it is about to
  get; a note whose row is gone is deleted, whatever is left of its body.
* `Pending(r)`, what a request asked for and has not yet brought about.  An update with a body takes
  effect at the rename, one without at the `UPDATE`, a creation at the rename, a deletion at the `DELETE`.
* A note that is not in `clean` is lost: of a note that two requests, a fault or the sweep got at, the
  Vault promises nothing, except that it stays lost and no other note is the worse for it.  The
  mapping decides when a note is lost, and it does so for no other reason.

### Files

The same shape for uploads.  `disk` maps an identifier and an extension to bytes, which have a
type, a picture and whether they are turned around (a baked rotation); a row has `mime`, `ext`
(the file name), `kind`, `digest` (size and SHA-256) and a label that stands for folder, name
and tags.  `clean` is as in Notes.  Blob writes are one step, since temp files and their
litter are in `Notes`, and there is one user, since isolation is there too.
`Upload`..`CreateWrite` are `uploadFile`; `Serve`.. are `serveFileRaw`; `Patch`.. are
`updateFile` and `rotateFileInPlace`; `Put`.. are `replaceFileBytes`; `Delete`.. are `deleteFile`.

### Accounts

State: the tables `invites`, `users`, `passkeys`, `sessions`; `live`, the map of ceremonies;
`authn`, what each authenticator holds (the user handle and challenge it was created for, its
signature counter); `minted`; `req`.  Registration is `RegisterBegin`, `CheckInviteCode`,
`BeginRegister`, then `Attest` in the browser, then `RegisterFinish`, `RegisterTake`,
`RegisterWithPasskey` (one transaction), `IssueSession`.  Login (by name or discoverable) is
`LoginBegin`, `BeginLoginUser`, `BeginLogin`, `LoginFinish`, `LoginTake`, `LoginUser`,
`LoginCreds`, `LoginSign`, `IssueSession`.  Passkeys are `PasskeyBegin`, `BeginAddPasskey`,
`PasskeyFinish`, `AddTake`, `CreatePasskey` and `PasskeyDelete`, `CountPasskeys`,
`DeletePasskey`.  `Expire`, `Restart`, `Fail`, `EndSession` and `CreateInviteCode` are the rest of
the world.  A finish request may name any ceremony and present any credential.

The library `go-webauthn` and the authenticators are not part of the repository; they are
modelled by what the code relies on: an attestation verifies if it answers the ceremony's
challenge, an assertion if its credential is registered to the user and answers the
challenge, a counter is replaced only by a larger one.

`Membership` is what all of this promises: no ceremonies, handlers or time, and each of its
actions (`Mint`, `Join`, `AddKey`, `DropKey`, `SignIn`, `SignOut`) takes effect at once.
`ImplementsMembership` in `Accounts` is its specification under the mapping of `invites`, `users` and
`sessions` to `codes`, `members` and `signedIn`, and of the passkey rows to the set `keys[u]` of each member.

### Sessions, RateLimiter

`Sessions` has a clock, the row's and the cookie's expiry, and requests that look up, touch and
log out in separate steps; `Cleanup` is the ticker.  `RateLimiter` has the table of windows;
`allow` holds its mutex throughout and is one step, split into `AllowNew` and `AllowAgain`
by its two branches, each with the collection `gcLocked` makes first.

### Migrations, Tags, and Store which composes them

`Migrations`: two processes, the server and `invite-new`, each `Boot`, `ReadVersion`, `Migrate` (one
transaction: the statements of a migration and its record) and `Opened`; `Die` at any point.  The
statements are abstracted to whether they can be run again: the first four create tables
or add columns, the fifth can be repeated (`Repeatable`).

`Tags`: items are notes and files, which share `tags` and `item_tags`; an item that is gone stays
gone.  A name is a word, its case and a form (plain, padded by a blank, too long), so that
`normalizeTag`, the `NOCASE` index and the 32-byte cut are modelled by what they do.
`Create`, `UpdateRead`, `UpdateWrite` and `Delete` are the tag's side of the handlers in `Notes` and `Files`.

`Store` composes them: requests are served only by a server that is up, which is after
`migrate`, while `invite-new` may open the same file at any time; a server that dies takes its
requests with it, the rows stay.

### Rotation

`rotPoint`, `rotate`, `rotRect` and `rotateGIF` as operators on pictures and frames of any size, the
defensive growing of the canvas included.  `FileViewer` uses `rotate` for what the server stores.

### NoteEditor, ListView, FileViewer, and Browser which composes them

One step is what JavaScript does between two awaits; the server serves a call in one step of its
own, refuses it, or serves it and the answer is lost.  `NoteEditor` has the page of a note: `Visit`
and `boot`, `Edit`, `SaveNote`, `SaveField` (title, folder), `Serve`, `Answer`, `Close`,
`DeleteCurrentNote`.  `ListView` has tasks, the asynchronous functions under way: `Load`,
`PickFolder`, `Search`, `Move`, `Upload`, `DeleteFolder`, the selection, and `DeleteNext`, the loop of
`deleteSelected` over the live `Set`.  `FileViewer` has an element for each kind of document, the
browser's cache of pictures (the server's modification time never changes), and a rotation on the
two ways it can go: `PATCH` for types the server turns, fetch, canvas and `PUT` for the others.

`Browser` composes them into one tab.  They share the server's rows only and each page boots
afresh, so a behaviour follows one part; the product of the three would say nothing more.

### Mutants

Beside some definitions stands a *mutant of* it: the same definition with a mistake a
programmer might make.  The specification does not use it; put in the place of the original
it breaks one property of one run, which shows that the property watches the code.
`PROJECT.json` lists them.

## 3. The runs

`tlc -config X.cfg MC<Module>.tla`.  Every bound is a constant of the cfg.  Most runs take
seconds; `accounts_main` (434,000 states), `notes_main`, `notes_orphans` (798,000) and
`browser_main` (2.9 million) take one to three minutes.

| Run | Question | Bounds, and why they are enough |
|---|---|---|
| `notes_main` | `FolderOwnership`, `BodyHasOwner`, `NoResurrection`, `LiveBodiesKept`, `Isolation` with everything at once | two users, two requests, one note, one folder, one fault.  Each hazard is between two actors over one note; a second user is the stranger, the fault may be a crash, a failing step or a skipped sweep |
| `notes_orphans` | `SerialNotesWhole`; `OrphansSwept` (liveness); `ImplementsVault` (refinement) | one user, bodies of two lengths, one fault, which is what leaves an orphan, and then the next start.  There is no folder here, so what the Vault says of folders rests on the proof |
| `notes_null_unfiles` | *violation*, see findings | one request, all forms of `folder_id` |
| `accounts_main` | `TypeOK`, `UniqueNames`, `HandleMatchesRow`, `SingleUse`, `CountNotAhead`, `SessionNeedsCredential`, `ImplementsMembership` (refinement) | two names, ids, codes, credentials, ceremonies and requests, any of which may register, log in, add or delete; one token, a counter to 1.  Two ceremonies meet every race of two finishes and of a finish with an expiry or restart; logins that overtake one another and a passkey added across two accounts need a third, and are left to the proofs |
| `accounts_last_passkey` | *violation* | two deletions at once |
| `sessions_main` | `NoRevival`, `ExpiredRemoved` (liveness) | two tokens, two requests, lifetime 2, clock to 4: past two lifetimes |
| `sessions_cookie` | *violation* | one token |
| `limiter_main` | `Bounded`, `TwoWindows`, `RefusedOnlyWhenFull`, `LiveWindowsKept` | three keys over a cap of two, limit 2, window and collection interval 2, clock to 5: windows that start, end, restart and are collected; a counter stops at 4, two past the limit |
| `files_main` | `TypeOK`, `ServedAsTheyAre`, `SerialFilesWhole` | one file, two image types of which one rotates, and a document; two requests, one fault |
| `files_lost_blob` | *violation* | no fault |
| `store_main` | `TypeOK`, `VersionIsSchema`, `LinksJoin`, `SchemaFirst`, `ServerComesUp` (liveness), `PrunedOnDelete`, `KeptUnlessSent`, `OthersTagsKept`, `SentBackKeeps` | the five migrations there are, two processes, one fault; then two users, two items, two requests, one word in two cases and three forms, of which the lists sent are blank, plain, upper case, plain with too long, and two that clash |
| `browser_main` | `TypeOK`, `NothingLost`, `OneNote`, `ListMatchesFilter`, `OnlyMeantDeleted`, `ShownIsCurrent`, `SavedAsSeen` | two calls under way in each part, so that any two answers may change places.  Page: two notes to make, two texts, a folder.  List: a note and a file, a folder, a search that finds the note.  Viewer: an image of two points (which tells all four angles apart) of a type that either end turns, a PDF, a text; only the image may be deleted |

`CHECK_DEADLOCK FALSE` everywhere: identifiers, codes, counters and the clock are finite sets, and
when they are used up the model may stop; the program would go on drawing new ones.
A `TypeOK` that no run lists (`Notes`, `Sessions`, `RateLimiter`) is proved.
Symmetry is used for sets whose members the specification treats alike, and not in runs with
liveness.

**Fairness.**  `OrphansSwept` assumes weak fairness of the sweep's steps and of each handler:
goroutines that can run do, and neither blocks on anything but the disk.  It does not assume
that clients send anything or that crashes stop; a crash resets the sweep, but `MaxFaults`
bounds them.  It excuses the sweep that was skipped, which logs and gives up until the next start.
`ExpiredRemoved` assumes weak fairness of the cleanup ticker, which runs as long as the server.
`ServerComesUp` assumes weak fairness of the server's start, because systemd starts it again
(`Restart=on-failure`, `deploy/notes.service`); of `invite-new` and of requests it assumes nothing.

**What they show.**

* However requests interleave, fail or crash: a filed note is in a folder of its own user,
  though the check is several statements before the write (the foreign key catches the rest,
  as identifiers are never reused by another user); a deleted note does not come back; nobody
  acts on another's notes.
* The sweep removes every orphan that was there when the server started.  It removes
  the body of a *live* note only if that note is younger than the process: the keep set
  is read once, and a note created between that and the walk may lose its body (and a running
  write its temp file, which fails the request).  `LiveBodiesKept` states exactly this exception.
* A note or file whose requests came one after the other without a fault is whole.  Without
  the condition this fails: overlapping updates of a note leave a size that is not that of the
  body, or undo a move; overlapping PATCH and PUT of a file lose its blob (see below).
* More than that, such requests for a note are what `Vault` promises: each takes effect once, between
  its arrival and its answer, on row and body together, and as it asked, though `updateNote` reads
  the row, writes the body and writes the row back in three steps.
* An invite code makes one account and a name belongs to one, though both are checked at begin
  and used at finish; a ceremony is taken once; a session goes to the account its
  credential was made for; the stored counter may lag behind the authenticator's but not lead.
* A session that was removed is not revived by a request that had found it, because
  `TouchSession` is an `UPDATE`; the cleanup's test and the middleware's leave no gap.
* A client gets at most two limits' worth of calls in any window-long span, and is turned away
  by a full table only while that many others have windows that count.
* The handlers of accounts do what `Membership` promises, each in one transaction.  It does
  not promise that the last passkey stays (see below).
* Two processes may open a database at once and either may die: the recorded version is that
  of the schema, nothing is served before it is complete, and the server gets up again.  This
  rests on what the migrations are: one that has been applied fails, but for the last.
* An update that was under way when its item was deleted links no tag to it; one that sends no
  tags changes none, although it writes the rest of the row back as it read it.  Replacing tags
  may leave one without items, until some deletion prunes it.
* The page of a note loses nothing without a question and makes one note, of saves that did not
  overlap and whose answers arrived.  The conditions are needed: a second Save before the first
  is answered makes a second note; an answer that is lost leaves the page without its
  identifier; `saveFolder` reads its field again when it is answered; "Unfiled" is not stored.
* The list is what its title and search say after a load that nothing disturbed.  Of overlapping
  refreshes the last to be *answered* is shown, and nothing is loaded again after it.
* `deleteSelected` deletes what the user agreed to if the selection is left alone; it loops over
  the live set, so an item picked while it runs is deleted with the others.
* What the viewer shows is the file it names, but for two documents of one kind opened one after the
  other (the last to arrive is shown) and a rotation answered after another file was opened.  A
  rotation is stored as it was seen when what was seen is what is stored: the file's
  modification time does not change with its bytes, so a reopened picture may be a cached one.

### Findings

Each is a run that TLC refutes.

* `files_lost_blob` (`files_handlers.go:326`): PATCH reads `id.png`; PUT stores `id.webp`, updates
  the row, removes `id.png`; PATCH writes `id.png` back.  The file answers 404 from then on
  and `id.webp` stays on disk, kept by every sweep because its identifier has a row.
* `notes_null_unfiles` (`notes_handlers.go:156`): `null` means "keep" to the decoder, whatever the
  comment at line 141 says, and `""` is refused, so the editor's "Unfiled" does nothing.
* `accounts_last_passkey` (`auth_handlers.go:278`): two deletions count two passkeys each.
* `sessions_cookie` (`server.go:187`): the sliding expiry never reaches the browser's cookie.

## 4. The proofs

`tlapm <Module>.tla` for the eight proof modules.  They hold for any value of the constants, finite or
not, under the assumptions each module states of them: `Null` is not a value, identifiers of
different kinds differ, bounds are natural numbers, the forms of `folder_id` are no folder's
identifier, lists of tags consist of names, at most the last migration is repeatable, a part of the
browser's tab finds rows with the fields it reads.  Fairness is not used.

| Module | Theorems | Inductive invariant, and why it is needed |
|---|---|---|
| `NotesProofs` | `FiledAtHome` (`FolderOwnership`), `BodiesHaveOwners`, `DeletedStaysDeleted`, `LiveBodiesStay`, `UsersApart` (`Isolation`), `SerialRequestsWhole`, `VaultImplemented` (`ImplementsVault`), `SweepReachesAll`, `TypeCorrect` | `NotesInv` and `SerialInv`, below |
| `FilesProofs` | `AnnouncedTypeServed` (`ServedAsTheyAre`), `SerialRequestsWhole`, `DeletedStaysDeleted`, `SweepReachesAll`, `TypeCorrect` | `FilesInv`, that the bytes under an extension are of its type, in a handler's hands as on disk; `SerialInv`, below |
| `AccountsProofs` | `HandlesMatchRows`, `SessionsNeedCredentials`, `NamesUnique`, `TypeCorrect` | `Inv`, below |
| | `CeremoniesSingleUse`, `CountersBehind` | `CeremonyInv`: besides both properties, `HandlersCounted`, that the counter a login carries to its `UPDATE` is one its authenticator has shown |
| | `MembershipImplemented`, `OwnersExist` | `OwnerInv`: passkeys, sessions and handlers name accounts that exist, without which `AddKey` and `SignIn` would be done for nobody.  Each transaction is shown to be one action of `Membership`, each other step a stutter |
| `StoreProofs` | `VersionRight`, `SchemaComplete`, `VersionNeverBack`, `NothingServedBefore`, `NoDanglingLinks`, `DeletionPrunes`, `TagsKept`, `TagsArePrivate`, `SendingBackIsSafe`, `StartingOverEnds`, `TypeCorrect` | `SchemaInv`: what a process has in mind is never ahead of the recorded version; with it, that rows are touched at the last version only; `TablesInv`: links join what exists, and an update writes the tags it was sent |
| `RotationProofs` | `TurnedAsSeen`, `FrameCovers`, `FramesKeepTheirPoints` | none, they are facts about operators: turning points is one-to-one, a rectangle's points are those between its corners |
| `SessionsProofs` | `RemovedStaysRemoved`, `TypeCorrect` | requests and cookies carry tokens that were drawn, and expiries lie within one lifetime |
| `RateLimiterProofs` | `TableBounded`, `TurnedAwayOnlyWhenFull`, `LiveWindowsStay`, `TypeCorrect` | the table is finite, which `Cardinality` needs and the keys, taken from a header, do not give; then a key is added only below the cap |
| | `TwiceTheLimit` (`TwoWindows`) | `CountedInv`, below |
| `BrowserProofs` | `ClosingLosesNothing` (`NothingLost`), `OneNoteAPage`, `ListIsFiltered`, `DeletedAsMeant`, `NamedIsShown`, `StoredAsSeen`, `TypeCorrect` | `BrowserInv`, below |

**Notes.**  No part of the claim is inductive: what a handler writes was checked steps earlier, or read
in an earlier step.  `NotesInv` says what each position of a handler has made sure of (`HandlerOK`):
`Mine`, a folder that was looked up is still the user's or gone, and its identifier taken; `Own`, the
same of the note; `delete_body` is reached only when the row is gone.  This is stable because no
step gives an identifier away twice (`Steady`).  `SweepInv` adds that the keep set has every note
that was there when the process started, `RestInv` that temp files belong to requests about to
rename them.  Each lemma `...Step` goes through the actions once for one part.

**Accounts.**  `HandleMatchesRow` is not inductive: a row is written from a handler's variables, which were
taken from a ceremony that is gone by then.  `Inv` carries the knowledge along the way:

* `AttestInv`: a credential was made for the user of the ceremony it answers, as long as that
  ceremony is in the map, and that ceremony's id has been drawn, so that no later ceremony
  takes the id and another user with it;
* `LiveInv`: entries of the map are well formed and their ids drawn;
* `ReqInv` with `HandlerShape`: what each position of a handler knows of its fields; in
  particular a handler about to store a credential or to open a session has one
  made for its user;
* `TableInv` and `OtherInv`: types.

There is one lemma per action, under it one step per part of `Inv` the action can disturb; the
actions that only move a request share `MoveStep`, those that take a ceremony `TakeMove`.
`UniqueNames` follows on its own: only `RegisterWithPasskey` writes `users`.

**Serial requests** (`Notes`, `Files`).  That an item is whole while nobody is at it is not inductive: a
write that is half done makes it so only because nobody else has touched it.  `SerialInv` says, of an
item in `clean`, that at most one handler is at it and what that handler still has to do to make it
whole from where it is (`Serial`, `InHand`): the row has yet to follow a body of a known length, the
old blob has yet to be removed.  A second handler, a fault or the sweep takes the item out of `clean`.

**The Vault.**  `VaultImplemented` rests on both invariants.  `SerialInv` says besides what a refinement
needs: the row in `updateNote`'s hands is the stored one under the title it asks for, the row
`createNote` made is the one it was asked for, and the folders that either refers to are still there,
so that the last `UPDATE` cannot be refused once the body is stored.  `Views` reads `AsOne` off the one
request that is at a note; `OnNote` is a step of that request.  Then each step of a handler is shown to
be one action of `Vault` (`TakesEffect`) or a refusal or stutter (`GivesUp`); a deleted folder is
`Unfile`, and steps of the sweep and faults at most lose the notes they got at (`NoneTheWorse`).
That notes and folders do not share identifiers is used here: a new folder is no new note.

**What liveness rests on.**  `SweepReachesAll` (of notes and of files) is what `OrphansSwept` needs besides
fairness: a body without a row, or a temp file left behind, stays to be reached by the sweep until it is
gone, and each step of the walk leaves fewer entries to visit.  `StartingOverEnds` is the like of
`ServerComesUp`: a process takes the version further or finds itself overtaken.

**The limiter.**  `granted` keeps the times of the calls allowed to each key, and `TwoWindows` says that the
call allowed `2 * Limit` calls after another comes a window or more later.  `CountedInv` ties the
history to the table: of the calls allowed, none but those of the present window are later than its
start, and of those before it all but `Limit` are a whole window older than that.  So no sum over the
history is needed, and no induction on it.

**The browser.**  A tab is in one of its parts; what is proved of a part is that its own steps keep its part of
`BrowserInv` and that it is as it was made while the tab is elsewhere (`ElsewhereStep`,
`UnloadedStep`, `ShutElsewhere`).  Identifiers of notes and files are assumed to differ (they are
random), a row to have the fields its part reads, and a picture to be one.

* `EditorInv`.  `NothingLost` speaks of a page at rest only.  `CalmInv` says what is on its way: the one save
  there is was sent for the page's note, and once it is served the server has what the baseline will
  be after the answer (`Answered`), before that what it is (`Backed`).
* `ListInv`.  The list at rest is right because of what the one task under way holds: answers taken under the
  filter there is (`LoadOK`), of rows that have not changed, since each change begins a task.
* `ViewerInv`.  `ShownInv`: unless the history says that the file was overtaken, whatever is under way of the
  kind that is shown, or a rotation, is of the file that is named.  `SeenInv`: a rotation that
  was asked for once has, at each of its states, what it needs to end as it was seen (`TurnOK`):
  the stored picture before it is served, the turned one in the canvas or on the server after.
  That both ends turn a picture alike is `TurnedAsSeen`, taken over from `RotationProofs`.

**Only model-checked:** liveness (`OrphansSwept`, `ExpiredRemoved`, `ServerComesUp`), which these provers
cannot do; of the first and the last only the part above is proved.  Every invariant, action property and refinement that a passing run checks is stated by
a theorem.

## 5. Plan

All components of the server that keep state are modelled, and their safety is proved.  What is left:

1. Names: unique folder names and renaming; `sniffAllowed` as an operator on kinds of content.
2. `updateFile` ignores the error of its last `FileByID` (`files_handlers.go:330`): what a deletion just
   before it does to the answer is not modelled; the request has changed all it changes by then.

## 6. Not modelled

* Reading handlers that change nothing (`getNote`, `listNotes`, searches), renaming of folders and
  passkeys, `clientKey`, `validUsername`: text, or a single statement nothing depends on.
* Upload validation (`sniffAllowed`, size limits, sanitised names): functions of one request's bytes,
  without state; which types are stored is a constant of `Files`.
* Of the front end: menus, dialogs, sorting, zoom, the settings and sign-in pages, renames.
* Status codes and error texts; a panic in a handler, which `net/http` recovers, is the end
  of its request.
* The origin check, security headers, request log, configuration, static assets: no state.
* Cryptography, `go-webauthn`, SQLite and the file system, beyond what the code relies on.
