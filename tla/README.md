# chatbot-be in TLA+

chatbot-be is the server of a chatbot that answers from documents its administrators upload:
a NestJS application on PostgreSQL and a Google Cloud Storage bucket. Several instances of it run
against one database. Administrators belong to organizations; organizations own documents, share
them and hand them over. A worker inside every instance turns uploaded PDFs into Markdown chunks.
Widgets on web pages open chat sessions and ask questions that are answered from the chunks.

This directory holds TLA+ modules of the parts where concurrency and failure matter, the TLC
configurations that check them, and proofs that TLAPS checks.

Paths below are relative to the repository's root `src/`, line numbers as in `PROJECT.json`, which
maps every definition to the code it stands for.

## 1. The system

| component | state | operations | interacts with |
|---|---|---|---|
| PDF worker (`src/pdf-processor/pdf-processor.worker.ts`) | `activeCount`, `activeDocumentIds`, `tickInFlight`, `stopped`; per attempt the token, the lost flag, the timer | `tick` (poll, stale check, claim), `requeueStale`, `processDocument`, heartbeat, cleanup, stop, start | documents repository (SQL), object store, pipeline |
| Documents repository (`documents.repository.ts`) | rows of `documents` and `document_chunks` | `requeueStaleProcessing`, `claimQueued`, `heartbeatProcessing`, `completeProcessing`, `markFailed`, `hardDelete` | called by the worker and the upload service |
| Object store (`gcs-storage.service.ts`) | `<name>.pdf`, `<name>.md`, `<name>/...` in the bucket | upload, download, two deletions by name | upload service and worker share the paths of a name |
| Upload service (`src/upload/upload.service.ts`) | none: the rows | upload with rollback, delete, reprocess, expiry, share, unshare, transfer | organizations repository, object store |
| Organizations (`src/organizations/`) | `organizations`, `organization_memberships`, `document_organization_shares`, `document_ownership_transfers` | create, invite, change role, remove, accept, reject; every document mutation under locks | upload service |
| Usage (`src/usage/`, `src/scripts/usage-backfill.ts`) | `usage_daily` | count requests, tokens, answers and bad answers; repair a bucket; backfill; reports | chat service, widget keys |
| PDF pipeline (`pdf-pipeline.service.ts`, `markdown-section-splitter.ts`, `pdf-chunk-parser.ts`) | none | pages to Markdown, sections, paths, chunks | worker, LLM |
| Chat (`src/chat/`) | `messages`, `message_feedbacks`, the event stream of a request | one turn with its stream, a posted message, feedback, one regeneration per answer | LLM, retrieval, usage |
| Retrieval, selection and content (`src/retrieval/`, `src/chat/services/resource-*.ts`) | the rows; of a turn: catalogue, choice, contents, citations | list the catalogue, choose chunks, read contents by path, cite documents | documents repository, chat orchestration |
| Widget keys and collaborators (`src/admin/`) | `widget_keys`, `widget_key_collaborators` | create, revoke, lists of domains and apps, invite, remove, share statistics | login, usage reports, sessions |
| Widget sessions (`src/widget-auth/`) | `sessions` | open a session with a key from a page or an app, expiry | chat guards |
| Administrator login (`src/auth/`) | `admins` | login and refresh: upsert, accept pending invitations | identity provider |
| LLM clients (`src/llm/`) | none | calls with timeouts | chat, pipeline |
| MCP client (`src/mcp/`) | a cached list | used by nobody but for one proxied GET (`chat.controller.ts:347`) | |
| Schema and migrations (`src/db/`) | tables, constraints; an advisory lock | migrate at startup | everything |

### What is hard, and what makes each part correct

*Ingestion* (worker, documents repository, upload service, object store). A row is a lease: `processing`
with a `processing_token`, kept alive by `updated_at`. Instances crash, hang, miss heartbeats and
lose the answer of a statement that committed; users delete, edit and reprocess a document while
it is processed; two attempts of one document can run at once, and the objects in the bucket are
addressed by name, not by attempt. Correct means: only the attempt that still owns the row publishes;
chunks exist for ready rows only; a deleted row stays deleted; an orphaned row is taken back and a
queued row is claimed; `activeCount` is exact; the PDF a retry needs is there.

*Organizations*. Authorization is decided before a transaction and again inside it; transactions run at
READ COMMITTED and rely on explicit row locks, and answers to invitations do not take the lock that
managers' changes take. Correct means: an organization keeps a manager; whoever commits a change is
allowed to at that moment.

*Sharing and transfers*. A request acts on the owner it has read; owners change. Two organizations and a
document are locked, and foreign keys lock more. Correct means: the owner has no share, the audit log
is a chain, no circle of waiting requests that the code could have avoided, and every request ends.

*Usage*. Counters follow messages and ratings incrementally and are recounted from them, by a rating whose change does
not fit and by a script, at READ COMMITTED and under row locks and table locks. Correct means: each answer and each
change of a rating counts once, a recount is not overtaken by what it has not seen, the CHECK of the row never fails a
rating, and the transactions never wait in a circle.

*Chat*. A session has no lock: its turns are sequences of awaited calls with others in between. A limit is checked before
a turn and consumed during it; an answer may be regenerated once although the rating, the claim and the new answer are
written at different times; a reader has been sent an answer that may still fail to be stored. Correct means: one
regeneration of an answer by the service at most, a bound on the questions, a context from before the question, `[DONE]` only for what is stored,
and an end to every stream.

*Widget keys, sessions and login*. Lists are read and written back, some under a row lock and some not; a session is
inserted in two statements; a session outlives the permission it was opened with; an invitation is matched by an address
and accepted at login, whose failure is ignored. Correct means: no committed change of app ids or revocation is lost, the
sessions of a forbidden origin drain, an invitation reaches the one it is for.

*Pipeline and retrieval*. Text is split and merged at four thresholds; the model proposes the paths of sections; a turn reads
catalogue and contents in two queries while documents are replaced, and finds a chunk again by a path from which
suffixes have been taken. Correct means: every paragraph is in exactly one place, paths tell chunks apart, what was
chosen and is visible is found, nothing else is, and whatever reached the model is cited.

The hazards of `PROJECT.json` list where each of these bites.

## 2. Modules

| module | what it models | extends / uses |
|---|---|---|
| `DocumentLifecycle` | the abstract document: what readers and owners may see of a row | |
| `DocumentQueue` | rows, instances and attempts: the worker, the documents repository and the row side of uploads, deletes and reprocesses | implements `DocumentLifecycle` |
| `DocumentStorage` | the queue together with the bucket | extends `DocumentQueue`, and implements it |
| `OrganizationMembers` | the memberships of one organization | |
| `DocumentSharing` | owner, shares and audit log of documents, with row locks | |
| `UsageAggregates` | the counters of a bucket, the transactions that write them and their locks | |
| `ChatSession` | one widget session: messages, turns, event streams | |
| `WidgetKeys` | keys, lists, collaborators, login, sessions | |
| `PdfPipeline` | pages to chunks, as operators | |
| `Retrieval` | what a turn reads of documents that change | extends `PdfPipeline` |
| `...Proofs` (of `DocumentQueue`, `DocumentStorage`, `OrganizationMembers`, `DocumentSharing`, `UsageAggregates`, `ChatSession`, `WidgetKeys`, `Retrieval`) | theorems about the module they extend | TLAPS |
| `MC...` | constants, symmetry, bounds for TLC | |

Definitions whose comment begins with *Mutant* are not part of any specification. Each is a definition
as a plausible mistake would have it; `PROJECT.json` names the property that mistake breaks.

### DocumentQueue

`status`, `active`, `token`, `fresh`, `cooling` are columns of `documents` (`status`, `is_active`,
`processing_token`, whether `updated_at` is recent, whether `last_reprocessed_at` is within the cooldown);
`chunks` is the attempt whose `document_chunks` rows the document has. An attempt is named by the token it was claimed
with: `phase`, `docOf`, `hostOf`, `lost`, `generated` are where it is and the local variables of `processDocument`
and of its heartbeat. `tick`, `slots`, `activeDocs`, `activeCount` are the worker's latch, the limit it passes to the claim,
`activeDocumentIds` and `activeCount`. `upload` is where `upload()` stands. `revoked` is a history variable: the tokens taken
from a row by anyone but their attempt. An action is a statement that commits, or a stretch of code between two awaits:

- A statement whose answer is lost is a disjunct of its action: the row changes, the caller continues on
  its error path.
- The heartbeat's UPDATE and the setting of the lost flag are one action: for one token the loss is
  final, so a flag set later is a later heartbeat.
- The stale check and the computation of the free slots that follows it are one action; `TickPoll` covers
  the ticks in which no check is due or it fails.
- A worker stops between ticks, since only the start of a tick reads the flag. A crash is `Restart`: the
  attempts and the memory of an instance are gone, the rows stay.
- The clock is abstracted to `fresh`: `LeaseExpires` may happen to any row that is being processed, also under a live
  attempt whose heartbeats are late.

### DocumentStorage

`pdf` is the document whose PDF is stored under a name, `markdown` the attempt whose Markdown is (`<name>.md` and the
split files together). `sweeps` holds deletions that have been issued and not finished; each of their objects may
fail to go. `source` is the document whose PDF an attempt downloaded. Two documents can use one name one
after the other: the unique index on active rows allows no more. `quiet` and `abandoned` are history variables. A document is
quiet when nobody else could still write or delete under its name when it was reserved; it is abandoned
when its upload was rolled back. `SourceKept` and `OwnSource` are about quiet documents, because the code gives the
others no protection:

- `delete()` frees the name and then deletes the objects (`src/upload/upload.service.ts:253`);
- a PDF can land after its document was deleted (`upload.service.ts:206`);
- `rollbackUpload` deletes objects and row in parallel (`upload.service.ts:592`).

### OrganizationMembers

One organization; they share no rows. A manager's request is `Ask`, `LockOrganization`, `Authorize`,
`ReadMembership`, `CountManagers` and a write with its commit. `AcceptInvitation` and `RejectInvitation` lock a
membership row only and happen at any moment. A membership is `member`, `role`, `state`. The e-mail address of
an invitation stands for the administrator who has it; addresses that belong to nobody yet or to two
administrators are left out.

### DocumentSharing

A request is an intent (`actor`, `op`, `doc`, `owner` as it was read, `target`) and a program counter. It
locks the organizations in the order of their ids, one step each, then the document, compares the owner,
authorizes and writes. The insert of a share waits for the key-share lock of its foreign key. The
rollback of an upload, memberships and `admins.role` change around it. Expiry and reprocess follow the
same protocol as a deletion and change nothing this module has; `DocumentQueue` models them.

### UsageAggregates

A transaction that stores an answer has the name of the answer; `writer` is how far it is (`createMessage`:
insert, then `incrementTotalAnswers`). `rater` is the transaction of `upsertMessageFeedback`: message locked, previous
rating read, rating replaced, fast path tried, and if it matches no row the placeholder, `FOR UPDATE`, the recount and
the SET. `backfill` is `runBackfill` with its three `LOCK TABLE`s. `row` is what is committed of `usage_daily`, `draft` what
the holder of the row lock has made of it; commit publishes, abort discards, and every transaction may abort anywhere.
The locks are what PostgreSQL does for these statements: a write takes ROW EXCLUSIVE on its table, which conflicts with
the backfill's SHARE ROW EXCLUSIVE, and waits behind it as well. `Existing` answers are from before the columns
`total_answers` and `bad_answers`: the rows start without them. Tokens are left out: they are added by the same statement
as `requests`.

### ChatSession

`messages` is numbered by `created_at`. An answer is `pending` from the start of its transaction, so that it appears with
a number smaller than that of questions stored in between. A turn is a program counter with the local variables of
`chatStream`, `regenerate` and the orchestration: the source and the claim of a regeneration, the question, the
history that was read, whether the model said anything, the answer. `response` is the event stream as its reader sees it. Any
call may fail (`Fail`), readers leave (`Disconnect`, the turn goes on), the server dies (`Crash`). A message that a client posts
as an assistant's (`PostAnswer`) is stored with the metadata it was sent with, so it may name any message as the one it was
regenerated from, or be claimed from the start; the checks of a regeneration read these as they read the service's own. `from`
and `claimed` are those metadata; `posted` is a history variable, and says who wrote a message. What a turn retrieves is
`Retrieval`; the transaction that stores an answer is `UsageAggregates`.

### WidgetKeys

Requests are sequences of statements: `domain` (read, write back), `revoke`, `app` (`SELECT ... FOR UPDATE`, write),
`invite` (key, administrator, insert), `uninvite`, `login` (upsert, accept, answer), `stats` (own keys, shared keys, report), and
`session` (insert with an empty token, store the token). `lock` is the row lock of a key: it holds up the statements that write
the row or refer to it by a foreign key. `promised` is a history variable: what the committed changes amount to. Domains are
sequences of labels and `IsDomainAllowed` is the code's matching of patterns; addresses are compared as the code compares
them, normalized or not.

### PdfPipeline and Retrieval

`PdfPipeline` is pure: `Combined` (pages with their fallback), `SectionsOf` (blocks by heading, splitting at level 3 and by
length, merging), `ChunkPath` and `Assemble`. A paragraph is its size, its heading level and its number, which is how
`PublishedIsWhole` finds it again. A heading that is made up has the length of the title it is made of (`MadeUpFor`: the first
heading of the text, or a word of the code's own), with the marks of the heading counted as part of it; `MinBody` is the floor of 1,000
characters that `splitByLength` leaves beside it, so that a section with a very long heading does exceed `CHUNK_MAX_CHARS`
(`Fitting`). The path of a section is the proposed one or, if nothing is left of that, the slug of the section's title
(`SlugifyTitle`) or, if that is empty too, its number. A slug keeps the slashes at the ends of its title, which make empty segments.
The titles are a constant of `Retrieval`, and which of them a section has is left open: the code builds them from
headings, of several sections when it merges these.

`Retrieval` publishes documents made by these operators for every text, every
proposal of paths and every title the instance has, hides and replaces them, and runs a turn: `ListCatalog`, `Select`, `FetchContents`,
`Answer`. A path is a sequence of segments, and a segment has a stem, a suffix after its last dot and the numbers that
`ensureUniquePath` appends, because two functions of the code take suffixes away and the properties depend on which.
Where the code loops, the model folds, and the operators that more than one property needs have names (`Joins`, `Collected`,
`Overviews`, `Found`). `Process` has the guards on which the pipeline throws: too many failed pages, or no section at all.
The assumptions say that there are finitely many documents with names of their own, that pages are texts of numbers that
no split has copied yet, that names and proposals are paths, and that titles are sequences of words without dots, which is what
is left of them after `slugifyTitle` has dropped the characters it does not know; no bound on their number or length.

## 3. Runs

| run | instance | shows |
|---|---|---|
| `queue_safety` | 2 documents, 2 instances with room for 2 attempts each, 2 tokens | the lease fence, chunks only for ready rows, deleted stays deleted, exact counting |
| `queue_takeover` | 1 document, 2 instances with room for 1 attempt each, 2 tokens | the queue implements `DocumentLifecycle`; orphans are recovered; queued rows are claimed |
| `storage_objects` | 2 documents of one name, 1 instance, 2 tokens | the source of a retry is kept; chunks come from the document's own PDF |
| `storage_cleanup` | 1 document, 1 instance, 2 tokens | a counterexample: the cleanup of a failed attempt deletes its successor's Markdown |
| `organization_members` | 3 administrators, 3 memberships, 2 requests | a manager remains; only managers commit changes; nothing accepted becomes pending |
| `document_sharing` | 1 document, 3 organizations, 2 requests, up to 3 transfers | owner never shared, audit chain, authorization at commit, circles of locks |
| `usage_counting` | 2 answers of one bucket, one of them older than the counters, 2 raters, the backfill, 1 counted request | CHECK never fails; no commit makes a counter wrong; recounts repair; every transaction ends |
| `chat_turns` | 2 requests, 1 question allowed, 4 messages | how far the limit holds; one regeneration whatever is posted; `[DONE]` means stored; the context precedes the question; every turn ends |
| `widget_keys` | 2 administrators, 1 key, 2 app ids, a pattern and 2 hosts, 2 requests, 2 invitations, 1 session | app ids and revocations are not lost; forbidden origins drain; invitations reach their invitee |
| `widget_tokens` | 1 administrator, 1 key, 2 requests, 1 session | a counterexample: the "temporary" empty token stays |
| `document_retrieval` | 3 documents (one with a dot in its name, one processed twice), 2 chunks selected, 1 extra reference, 3 sections | what is published is whole; what is chosen is found; what is used is cited |
| `document_sharing_ends` | 1 document, 2 organizations, 2 requests | every request ends |

### Bounds and why they are enough

Two documents show one attempt's effect on another's row and a claim of several rows; two instances
show a takeover, and a third would only be another claimer. A token is used once, as in the code, so the
number of tokens bounds the number of attempts in a behaviour: two give a document an attempt
and its successor with the first one still running, which is what every property about the lease needs. The proofs
cover every number of documents, instances and tokens.

`MCDocumentStorage` additionally has no stopped worker, no claim that finds nothing, no attempt with its
lost flag set, at most one document in its cooldown and one late deletion, and a VIEW that drops a history
variable none of its properties reads. Without the bound on cooldowns and late deletions the instance
has 7.5 million states and passes too.

In `OrganizationMembers` two requests are enough to interleave two checks with two writes; three
memberships leave one for the invited. In `DocumentSharing` two requests suffice for every circle of two,
and the theorem `SharingOnlySharesDeadlock` covers the longer ones. `MaxTransfers` bounds how many transfers of a document are
asked for. `MCDocumentSharingEnds.cfg` leaves super administrators out with a constraint that is closed
under every step.

In `UsageAggregates` one bucket is enough, because transactions of different buckets share only table locks and the
backfill's recount takes buckets one by one; two answers, of which one was never counted, make the counters too small,
so that both the fast path and the recovery are taken, and two raters can meet on one answer or on two. All properties but the
last are proved for any number. In `ChatSession` two requests race for every check and claim, and four messages
are a question, its answer, another question and a regenerated answer. `MaxQuestions` is 1 there: the check and the length of
the history depend on it in the same way for 5. In `WidgetKeys` two requests interleave every read with every
write of the same row; the identity provider spells one administrator's address with a capital letter, and invitations are typed in
both spellings, so that every comparison of addresses has a case in which normalizing matters. In `Retrieval` one document has seven texts (without headings, merged, split at subheadings, split
by length, with a heading too long for its section, with failed pages), three proposals of paths, two of which collide after
normalization while nothing is left of the third, and a title with slashes around its word; the second is replaced
between catalogue and contents; the third ends like a file name, and nothing is left of its proposal or its title. The thresholds are
scaled to 2, 3 and 5 characters and the floor to 3, with headings of 1 and of 3: each comparison is met on both sides. Instances with longer texts only repeat these cases.

### Fairness

`UsageAggregates`: the steps of a transaction are strongly fair, because PostgreSQL wakes those that wait for a lock in
the order of their arrival. Nothing is assumed about aborts, so `TransactionsEnd` shows that the locks alone never
stop a transaction. `ChatSession`: each turn is weakly fair: calls of the model have a timeout until the stream begins, statements end, and
a stream that has begun is assumed to end or to fail. `WidgetKeys`: requests are weakly fair, and may fail; time passes
for a session. `Retrieval` has no liveness.


`DocumentQueue`: the steps of a live attempt, the ticks of a worker and the replacement of a stopped one are
weakly fair: awaited calls return, timers fire and the platform restarts instances. The stale check
and a claim of something are strongly fair: the database does not fail the check for ever, nor find every queued row
locked by somebody else each time (`FOR UPDATE SKIP LOCKED`). Time passes for a row that no live attempt renews.
An edit renews the lease of an orphan too (`updated_at` is both the lease and the time of the last
edit), so the fairness also assumes that users do not go on editing an orphaned document for ever. Weak fairness
of attempts is an assumption about the pipeline: the code has no limit on an attempt's duration, and
the heartbeat goes on while the pipeline hangs.

`DocumentSharing`: statements end; a row lock is strongly fair because PostgreSQL queues the waiting;
deadlock detection is weakly fair because a circle persists until one of it is aborted.

## 4. Findings

`storage_cleanup`. A failed attempt's `markFailed` clears the token; the document can then be reprocessed and claimed before the
failed attempt's cleanup runs, which then deletes the Markdown of the new owner. The comment at
`pdf-processor.worker.ts:173` says a newer owner's artifacts must not be deleted.

`widget_tokens`. `widget-auth.service.ts:89` inserts a session with the token `''` and calls it temporary; line 103 stores the
real one in a second statement. If signing or that statement fails, or the server dies, the empty token stays, and
because `session_token` is UNIQUE no session of any key can be inserted afterwards. Concurrent openings collide for the same
reason.

Met while modelling, and stated in the modules rather than as runs:

- The limit of five questions (`chat.controller.ts:113`, `chat.controller.ts:270`, `openapi.yaml:157`) lets six through: the check is
  `userMessageCount > MAX_QUESTIONS_PER_SESSION` on the messages stored so far. Requests in flight at the same time add one
  each. `QuestionsBounded` states what does hold.
- A regeneration is claimed before it is generated; a turn that fails afterwards leaves the claim, and the answer can never be
  regenerated (`chat.service.ts:413`). `RegeneratedOnce` is "at most once" for that reason.
- `POST` with role `assistant` stores the metadata of the client (`chat-message-input.dto.ts:33`, `chat.service.ts:226`), from which
  `getAnswerRegenerationTarget` decides (`chat.service.ts:367`). A posted message can say that it was regenerated from an answer, before or
  after the service has regenerated it, so several stored messages may name one source; the check then refuses that answer's
  regeneration. What holds, and what `RegeneratedOnce` states, is that the service itself makes one at most.
- A section titled `/api/users` for which the model proposes nothing usable is published under `base//api/users`: `slugifyTitle` keeps
  slashes at the ends (`pdf-pipeline.service.ts:453`), and nothing normalizes the slug. The path is unique and is found as it is, but
  has the empty segment that `normalizeRelativeChunkPath` takes out of proposals. `PublishedIsWhole` allows it there and nowhere else.
- `retrieval.service.spec.ts` wants dots in paths kept unless a known extension follows, but `normalizeResourcePath`
  (`resource-content.service.ts:31`) takes any short suffix away afterwards. A chunk whose path ends like a file name, `.md` included, is
  never found, and a document whose own name does loses its overview and may go uncited. `Clear` in `Retrieval` is that exception.
- `admin.service.ts:515` says that an invited administrator who exists is accepted at once. An address that is stored with
  capital letters is not matched there, and the invitation waits for the next login.
- `registerDomains` and `removeDomain` lose concurrent changes (`admin.service.ts:241`, `admin.service.ts:388`); `ChangesKept` is therefore about app ids and
  revocation.
- The reference material is cut at a "hard cap" of 50,000 characters, and the note about the cut comes on top.
- `OnlySharesDeadlock` is as strong as the code allows. `setShare` holds the owning organization and the document and then needs the target organization, so a share
  with an organization and a transfer to it do wait for each other when the target's id is the smaller one,
  and PostgreSQL aborts one of them.

## 5. Proofs

Everything below is proved for every value of the constants; the assumptions are the `ASSUME`s of the
modules (finite sets, distinct model values, positive bounds).

- `DocumentQueueProofs`: `TypeOK` is inductive. `LeaseConsistent` needs that tokens are unique among rows and
  that an attempt past its claim has a host; `RevokedNeverPublishes` rests on the fence: `completeProcessing`
  needs the row's token, and a revoked token never comes back because claims use fresh ones. `WithinConcurrency`
  counts attempts with the cardinality theorems. `QueueImplementsLifecycle` maps each action to a step of
  `DocumentLifecycle` or to a stutter.
- `DocumentStorageProofs`: a step of the composition is a step of the queue or leaves its variables alone, so
  all of the above holds with the bucket (`StorageImplementsQueue`), and the rows' invariant can be used here. `StoreInv` adds what is known of the
  objects: as long as a quiet document is active nobody else of its name is busy or sweeping (`OneActive`, `AtRest`); a
  document that has begun, was given up, or is past its upload has its own PDF or none (`Begun`, `GivenUp`, `OwnPdf`,
  `AfterUpload`); an attempt past its download that owns its row has the document's PDF (`Sourced`, `Downloaded`). `SourceKept`
  and `OwnSource` follow. One lemma per action that touches an object; `QuietMoves` covers all the others at once.
- `OrganizationMembersProofs`: `ManagerRemains` is strengthened by what an open transaction knows: past its
  read, either it will count, or there is a manager other than its target; past its count there is one in any
  case. The second part is needed when a pending manager accepts between the read and the write. Managers
  only leave under the organization lock, which has one holder.
- `DocumentSharingProofs`: all five properties of `DocumentSharing`. The inductive invariant adds three things to them:
  - `Compared`: a request that has locked its document acts for the owner, and past its check its actor may. It
    is kept because each row lock has one holder: nobody else can write that document, nor take away a
    membership of an organization that is locked, until the request ends.
  - `Intended`: no share or transfer aims at the owner. `OwnerNeverShared` needs both.
  - `LockedInOrder`: a request that waits for an organization holds only smaller ones. In a circle of
    waiting requests without an insert of a share everybody waits for an organization, and for a smaller
    one than the request that holds it waits for; but a bounded set of numbers has a largest
    (`LargestOrg`, from the library's well-foundedness of `<`).

- `ChatSessionProofs`: all five invariants of `ChatSession`, for any number of requests and any limits, whatever metadata posted messages bring. `QuestionsBounded` is inductive because a turn
  counts against the bound from the moment it is admitted (`Admitted`); its steps are about cardinalities. `RegeneratedOnce` needs that the claim comes before everything
  else and is never taken back (`ClaimedFirst`), and that there is one turn at most behind a claim or one answer that a turn has stored (`OneClaim`); what is posted can only make a check
  refuse, never pass.
  `Shape`, `OpenAnswers` and `Finishing` tie a turn's place to the messages it has stored; `Reserved` keeps the room that the
  bound on messages has promised.
- `UsageAggregatesProofs`: everything but `TransactionsEnd`. The invariant says what each transaction holds at each statement (`Locking`), how the draft
  of the holder of a row differs from the committed row (`Drafted`), that a rater knows the rating it replaces (`Known`, by the lock of the message),
  and that a recount is still right when it is written (`Fresh`): whoever could change what was counted needs the row,
  or a table that the backfill holds. A commit then moves source and row by the same amount (`CommitAnswerKeeps`,
  `CommitRatingKeeps`, with `RatingCounts` for the change of a rating), or makes them equal (`WriteBucketsKeeps`).
  `OthersKeep` shows once that no step changes what another transaction holds.
- `RetrievalProofs`: all properties of `Retrieval`, for pages, texts, proposals and titles of any number and length. The inductive
  invariant says that what is published of a document is whole (`Complete`), and that a selection has the overview of each
  of its documents among its first `MaxSelected` paths (`Chosen`).
  - `PublishedWhole`: each stage of the pipeline turns a text into a list of texts that `Rearranges` it, which means that every paragraph
    keeps its size but for copies, none comes from elsewhere, and order is kept. The relation is transitive and closed under
    concatenation, so the stages compose: `BlocksWhole`, `SplitByH3Whole`, `SplitByLengthWhole`, `MergeWhole`,
    `SectionsWhole`. Sections are `Bounded`: merging never makes one longer than `MaxChars`, and `splitByLength` only by a heading.
    `HardSplitWhole` is the arithmetic of the last, short piece. Paths differ because `EnsureUniqueWhole` finds a free number
    among one more than there are used paths (a pigeonhole), and lead nowhere else because `NormalizeWhole` leaves no special segment
    and `SlugWhole` none but empty ones at the ends (`Relative`).
  - `UsedCited`: overviews come first, and finding chunks keeps their order and only drops some, so the overview of a document that gave
    anything is among the first that were found. It was found because every chunk that can be read has its overview beside it.
  - `SelectedFound`: two chunks that can be read never have one path, of one document or of two, so what is looked up under a
    clear path is the chunk that was chosen.
  - Folds are unfolded by `FoldIsRun` and `RunSteps`: the library defines a fold by a function on sets that a CHOOSE picks; it is shown to
    exist, one element at a time, and two of them to agree. Induction is by the least number outside a set (`Induction`), and for
    sequences by their length (`SeqInduction`), so that no theorem with an operator as a parameter is needed.
- `WidgetKeysProofs`: every property of `WidgetKeys` that holds. `ChangesKept` is inductive because what the holder of a key's row
  is about to write is the row's list with its change (`Doing`), and the row is held from the read on (`Locked`). `InvitationsReach`
  needs that an invitation is never addressed anew (`Steady`) and that whoever has accepted it has its address (`Invited`): the insert
  may find the invitee only because a normalized address is normalized already. `WithdrawnDrains` is about cardinalities: a request that has passed
  the check becomes the one session that it opens (`InsertDrains`), and a forbidden origin passes no check (`BeginDrains`).

Left to TLC: liveness under fairness (`OrphansRecovered`, `QueuedEventuallyClaimed`, `RequestsEnd`, `TransactionsEnd`, `TurnsEnd`),
since TLAPS cannot prove `ENABLED`. Every invariant and every action property of the runs that pass is proved.

## 6. Not modelled, and what is left

Not modelled:

- *Startup migrations*: one advisory lock around one call of a library, on a connection that a `finally` closes.
- *MCP client*: nothing uses its cache since the catalogue comes from the database.
- *HTTP layer and configuration*: routing, validation and environment keep no state.
- Of the modelled components: prompts, wording and truncation of reference material; text extraction and the repair of wrongly decoded
  text; the branch of the resource content for flat lists, which nothing fills; `parseChunksFromMarkdown` and
  `validateOriginAndPageUrl`, which nothing calls; organization invitations of addresses without an account; the sums of a report.
- The identity provider, the bucket, the model and PostgreSQL are external and modelled by what the code relies on.

Left, in this order:

1. `ChatSession` composed with `UsageAggregates`: the transaction of an answer in both.
