# flop-agent-office in TLA+

TLA+ models, TLC runs and TLAPS proofs for the parts of flop-agent-office that
decide what gets signed, sent and recorded: the nonce store, the append-only
proof ledger, its file and its verifier, the recorder of outbound writes, the
publish flow of the first announcement, the public write guard, the client-side
rate limiter, and the way from a keystore file to a signed message that another
side verifies. `PROJECT.json` maps every definition to its lines of the source.

## 1. The system

| Component | State | Operations | Talks to |
|---|---|---|---|
| Nonce store, `identity/nonce.py` | table `nonces`, one counter per (did, scope) | `reserve`, `observe`, `current` | SQLite; called by the announcement and by whoever signs |
| Storage, `storage/db.py` | one SQLite file in WAL mode, its schema version | `connect`, `apply_migrations`, `immediate` | used by the two stores |
| Proof ledger, `proof/ledger.py` | table `activities`: append-only, hash-chained | `append`, `head`, `count`, `by_id` | SQLite; called by both recorders |
| Hash chain and verifier, `proof/hashchain.py`, `proof/verify.py` | none | `compute_entry_hash`, `verify_chain` | reads the ledger |
| Outbound recorder, `technocore/outbound.py` | rows of the ledger | `record_intent`, `send_and_record`, `dangling_intents` | ledger, client |
| Client, `technocore/client.py` | a budget; the environment's write switch; one-time gates | `send_signed_message`, `read_room`, `discover_limits` | network, rate limiter |
| Rate limiter, `technocore/ratelimit.py` | token buckets under a lock | `try_acquire`, `acquire`, `Budget.*` | client |
| Announcement, `technocore/announcement.py` | rows of the ledger | `prepare_first_announcement`, `publish_first_announcement_once` | nonce store, capability, ledger, client |
| Command line, `flopoffice/__main__.py` | none | `verify-ledger`, `ledger-status`, `publish-technocore-announcement`, ... | all of the above |
| Configuration, `config/*` | the environment; the committed did | `load` | wiring |
| Keystore, `identity/keystore.py` | one encrypted file | `load_encrypted_pem` | wiring |
| Capability and wiring, `identity/capability.py`, `wiring.py`, `signer.py`, `verifier.py` | a key in memory | `root_agent_capability_signer`, `sign_technocore_message`, `sign_technocore_note`, `verify` | configuration, keystore, canonicalisation |
| Canonicalisation, `identity/canonical.py` | none | `single_line_sweep`, validators, payloads, `encode_path_segment` | capability, client, service |
| DID encoding, `identity/did.py` | none | `encode_did_key`, `decode_did_key` | wiring, verifier |
| Boundary: `technocore/untrusted.py`, `tools/secret_scan.py` | none | wrap, scan | client, ledger, command line |

Processes share nothing but the ledger file, the keystore file and the service's
room. What is hard:

* **concurrency**: any number of processes open, migrate and append to the same
  file, every SQL statement is a point where another may run, readers take no
  lock, and `reserve_announcement_nonce` reads the counter before it opens its
  transaction; threads share a bucket;
* **crashes** between any two statements, of the schema too, and between the
  intent, the request and its outcome;
* **the network**: a request outlives its caller's timeout, answers are lost,
  writes of two processes overtake each other; a service may answer anything;
* **partial failure**: `database is locked` at any append, an exhausted budget,
  an answer that is no JSON or cannot be hashed;
* **stale looks**: the keystore path is looked at eight times, `ledger-status`
  asks four questions, and what they are about changes in between;
* **two sides that must agree**: what is swept, encoded and signed here is
  decoded, swept and verified by the service;
* **limits**: 19-digit nonces that SQLite cannot store; buckets per process
  against a limit per address;
* **the file itself**, changed by something other than the program.

`PROJECT.json` "hazards" lists each at its line with the properties aimed at it.

## 2. The modules

| Module | Models |
|---|---|
| `NonceSpec` | what `nonce.py` promises: one counter that strictly grows, atomically |
| `NonceStore` | `reserve`, `observe` and the announcement's explicit claim, one SQL statement per step |
| `HashChain` | the chained row, its digest, `verify_chain` (no state) |
| `LedgerSpec` | what `ledger.py` promises: an atomic append of a chained row |
| `Ledger` | `append` by several processes, one SQL statement per step |
| `LedgerFile` | the file around `Ledger`: opening, migrating, dying, and the commands that read it |
| `LedgerTamper` | a ledger file changed behind the code's back, and what `verify-ledger` says |
| `Technocore` | external: one room of the service, and the network |
| `WriteSpec` | what both recorders promise who reads the ledger: a write is noted before it lands, lands at most once, and is concluded at most once and truly |
| `Outbound` | `send_and_record` over `Technocore` |
| `Publish` | the publish command over `Technocore` |
| `PublicGate` | the write guard and one-time gates over a program's life |
| `RateLimit` | token buckets, budgets that are replaced, requests on their way, the service's bucket |
| `DidKey`, `Canonical` | the encodings (no state) |
| `SignerWiring` | from a keystore file and an environment to a capability |
| `SignedMessages` | a capability in use: sign, send, verify, read back |
| `MC...` | the constants TLC needs |
| `...Proofs` | the theorems (section 4): `LedgerProofs` is about `Ledger` and `LedgerFile`, `SigningProofs` about `DidKey`, `Canonical`, `SignerWiring` and `SignedMessages`, the others about the module they are named for |

`Outbound` and `Publish` extend `Technocore`. They take nonce issuance and ledger
appends as single steps, either of which may also raise `database is locked`:
`NonceStore` and `LedgerFile` implement `NonceSpec` and `LedgerSpec`, where each
is a single step, and those implementations are proved. So is the other half: the
two recorders take nonces as `NonceSpec` hands them out and append only rows that
`LedgerSpec` takes, whose reference exists (`UsesItsServices`), which is why they
have no step for a reference that `append` refuses. Each implements `WriteSpec`, by its own reading of its own rows (`noted`,
`verdict`, `said`). `LedgerFile` extends
`Ledger`; `SignedMessages` extends `SignerWiring` (over `DidKey`) and `Canonical`.

**NonceStore.** `last` is the table; `lock` is SQLite's write lock; `pc`, `call`,
`seen`, `pending`, `result` are the frame of a call. `Begin` is `BEGIN IMMEDIATE`
(blocked while another holds the lock; `BusyTimeout` is the raise after
`busy_timeout`); `Read` the SELECT; `ApplyReserve` and `ApplyObserve` the code up
to the commit, with their early return and their exceptions (`Rollback`);
`Commit` the COMMIT. `Peek` is the unlocked read of
`reserve_announcement_nonce`, `RefuseRaced` its "raced" exit. `Crash` may come at
any step. `issued` and `witnessed` are histories: what was handed out, and the
largest value a completed call issued or observed. The two ceilings are
constants: `MaxStorableNonce` (2^63 - 1) and `MaxDigitsNonce` (10^19 - 1).

**HashChain, Ledger, LedgerTamper.** `rows` is the table in `chain_index` order.
SHA-256 is ideal: a digest is its preimage, so it never collides. The columns no
property tells apart are one, `body`. `Ledger` splits `append` at its statements,
and its INSERT meets the schema's constraints. In `LedgerTamper` the honest
writer's append is atomic, and between appends single columns are overwritten,
re-hashed, re-linked, renumbered, or rows deleted; `honest` is what the file held
before the first change, `tampers` the changes.

**LedgerFile.** `file` is what is on disk: does it exist, which tables it has, its
schema version. A connect goes `create -> begin -> check -> migrate -> commit ->
open`, each a statement: the bookkeeping table is a transaction of its own, the
tables of version 1 are created, and become visible, in another, under the write
lock that appends take too. `Die` closes a connection anywhere and SQLite rolls
back. `report[r]` is a run of `verify-ledger` (one SELECT) or `ledger-status`
(head, count, groups, dangling: one SELECT per step, no transaction around them);
a file that has no tables yet ends either in "no such table".

**WriteSpec.** A write is a nonce. `Note`, `Land` and `Conclude` are atomic; a verdict
is "landed" with its place in the room, "not landed", which forbids the write to
land ever after, or "unknown", which commits to nothing. In `Outbound` an intent row
is the note, a result with a seq says landed, a refusal by the write guard not
landed, and everything else unknown: a timeout, an odd answer, and also any HTTP
error, since client.py:436 takes every status from 400 on alike and a gateway may
answer 502 or 504 after the service has stored the message (`StoreMasked`). In
`Publish` the row that closes the proof is the note, `PUBLISHED` says landed and any other result unknown.

**Outbound.** A write runs reserve, intent row, guard, budget, request, answer or
timeout, outcome row. An answer reaches its caller whole (`FinishReply`), is lost, or
keeps trickling in; the timeout is only for a caller to which nothing comes. `raised` is a history of exceptions that left the recorder.
`dangling_intents` is the query.

**Publish.** `run[c]` is the invocation a process is in: its nonce, how many of
the four proof rows it has written, the id of the last, its outcome. Arguments
that fail a check never start one. A `publish_result` row links to the
`publish_blocked` row. `sent` and `exits` are histories. A nonce is the
counter plus one: one that an operator chooses, or that raced, leaves a gap, and
nothing here depends on more than the order of nonces.

**PublicGate.** One thread, so a call to `send_signed_message` is a step; gates,
hosts and writes are combined freely, right and wrong. Two threads sharing one
gate object are not modelled: no code of the repository does that.

**RateLimit.** Times are ticks and tokens are units of 1/(2 * Minute), which makes
half of an advertised limit an integer; rounding of floats is not modelled.
`acquire` is split where it releases the lock, and between its check of the deadline
(ratelimit.py:73) and the sleep (75): time may pass at each. A token puts a request
in `flying`; the service's bucket counts it when it arrives, in any order and at most
`Latency` later, unless it is lost. A thread keeps the bucket it
started on when `discover_limits`, or a new client, makes another.

**DidKey, Canonical.** `encode_did_key` and `decode_did_key` with the sizes of the
encoding as constants (58 letters, 256 byte values, a prefix, 32 key bytes), and
the characters that are no letter as two letters of their own. Texts are
sequences of characters, one for each class that the sweep, `str.strip`, the
validators, the service's rule for names and `quote` tell apart: "a" and "1", "A" for
the letters a name may not have, "-" and "." which `quote` leaves alone, "|", "/", the
spaces and the rest.

**SignerWiring.** `call` is the frame of `root_agent_capability_signer`: the
settings, seven looks at the path before the bytes are read, and the match of the
key with the expected did; `store` is what is at the path, and `ChangeStore` lets
its owner replace, remove or re-mode the file between any two looks.

**SignedMessages.** `write` is a message or note in hand, with the refusals of
`CapabilitySigner`, of raw or untrusted arguments too. `SendMessage` verifies it locally;
then httpx takes a segment "." or ".." out of the path, and the service splits and
decodes what is left, checks the room by its own rule (`NAME_RE`), sweeps and verifies,
and may still find a good message a duplicate or its nonce too small
(`ServiceAnswers`). `ReadRoom` is `_to_message` on whatever the
service says the message was: another room, nonce, text or author, or another
reading of the very bytes that were signed. Ed25519 is ideal: a signature is the
key and the bytes.

## 3. The runs

| Run | Question | Bounds |
|---|---|---|
| `nonce_store` | Is a nonce ever reused or forgotten? Do the transactions implement `NonceSpec`? Does every call end? | 2 processes, 2 keys, storable maximum 2, arguments -1 .. 3: every refusal, both ceilings and exhaustion occur |
| `ledger` | Does a file that several processes open, migrate, append to and die over keep one whole schema and one intact chain? Does it implement `LedgerSpec`? Are reports made meanwhile true? Does every opening end? | 2 writers, 1 reader, 3 ids, intents, failures and a refused row |
| `ledger_tamper` | What can be changed without `verify-ledger` noticing, and where does it point? | 4 honest rows, 4 changes in any order, appends in between |
| `outbound` | Is what the ledger says of a write true of the room? Does the recorder implement `WriteSpec`? Does every write end? | 2 processes, 3 writes, clients the guard allows and refuses |
| `publish` | Are the trails of concurrent and repeated runs apart, complete before the request, and true afterwards? Does the flow implement `WriteSpec`? | 2 processes, 2 invocations with a nonce, good and bad arguments |
| `public_gate` | What can reach a public host, over any sequence of calls? | 2 gates, 4 hosts, 2 rooms, texts and nonces, 2 requests |
| `rate_limit` | Do threads stay inside the budget and inside `max_wait`, and the client, whose requests arrive late, inside the service's limit? | 2 threads, 3 ticks (a minute), advertised limit 4, latency 1 (the most `LatencyFits` allows), `max_wait` 2, naps of 1, 2 budgets |
| `signing` | Is the key of a capability the configured did's? What becomes of a text it signs on the way to the service, is everything shown as verified authentic, and what is truly reported shown as verified? | 3 letters, 4 byte values, a prefix of 1 byte, keys of 2; every did text of up to 5 letters; 10 states of the keystore; every text of up to 2 characters of 6 classes and 14 longer ones, some too long; 8 rooms and 4 names, right and wrong; nonces 0, 1 and 111, of which the last is too long |
| `ledger_deletion`, `outbound_landed`, `outbound_unrecorded`, `publish_repeated` | the disagreements of section 5 | smaller instances of the above |

The bounds are enough because the hazards need little: a race needs two writers,
one of which may have died; a link needs a predecessor and a successor; overtaking
needs two requests and the third write shows that what follows is unaffected;
a re-run needs a second invocation; a second spelling of a did needs a leading
zero or a letter too many; the sweep and the encodings act on a character and its
neighbours. For safety the bounds do not matter at all: every invariant and every
safety property of the passing runs is proved (section 4), the refinements among them.
What rests on the bounds alone is the liveness.

Two runs leave out steps by an ACTION_CONSTRAINT, to stay small: in `ledger` an
intent stands alone and every other row refers to some row, there or not
(`RecordersActivities`); in `signing` signing goes on only under the committed did
with notes allowed (`OneSigner`), since what follows does not depend on which did
it is. Where a run says `CHECK_DEADLOCK FALSE`, it is its own bound that stops
the model (appends, writes, invocations or clock ticks are used up), not the
program; the `nonce_store`, `ledger`, `public_gate` and `signing` runs check for
deadlock. `public_gate`, `rate_limit` and `publish` use symmetry, with invariants and, in `publish`,
a refinement that names no process; liveness is checked without symmetry only. The action
properties `NeverBackwards` and `AppendOnly` have no run of their own: they follow
from the refinements that `nonce_store` and `ledger` check, with `CounterIsHighest`,
and are proved.

**What the runs show.** Nonces are never reused or forgotten by any interleaving
of reserve, observe and explicit claims: a claim whose unlocked check went stale
is refused after the fact, and the nonce it burnt stays burnt. The lock is free
after every exception, the ledger's constraints are never met by a race, no
migration meets the tables of another, and an append on top of a tampered file
does not hide the break. The four answers of `ledger-status` are of four moments,
yet the head is one of the records counted and no intent that was resolved when
it counted is reported. A noted head hash commits to the whole history up to it.
In a room, no request precedes its intent or its proof trail, no nonce is sent
twice, a recorded seq is the right one even when answers are late, and of all
failures a refusal by the guard alone proves that the write is not in the room and
never will be. The sleeps of one `acquire` never exceed its `max_wait` together,
though the check before a sleep may be stale. A client that discovers its limits once
never makes the service throttle it while its requests take no longer than
`LatencyFits` allows: a third of a minute where 4 writes a minute are advertised, no
time at all where 2 are, because the two buckets then lend as much as the service
allows. The condition is needed: with it left out TLC finds a 429 at 4 a minute and two
thirds of a minute, and at 2 a minute and one third. With a limit of 1 no latency is
short enough: `max(1.0, ...)` takes all of that limit instead of half. A capability is of the
configured did, whatever happened to the file while it was read; the branch that
wiring.py:95 calls unreachable is; what is signed verifies at the
service after its own decoding and sweep, except that a room or text of one or two
dots never gets there and a room outside the service's rule is refused for its
characters; a message shown as verified was signed by its author for
that room, nonce and text, or is a note whose key is a number; and a message
of which the service told the truth is shown as verified, so a signature of its own that
does not verify always means that something was changed on the way.

**Fairness.** `NonceStore!FairSpec` and `Outbound!FairSpec` assume weak fairness of
each process's steps once a call has started, `LedgerFile!FairFileSpec` that of
each connect: a running process is scheduled, its lock wait ends by `busy_timeout`
(db.py:161), and each of its reads from the network by httpx's timeout
(client.py:223). That timeout is of one connect, write or read and not of the call, so
it does not end a wait in which bytes keep coming: `WritesEnd` says that a write ends
unless its answer trickles in for ever, and a caller that nothing reaches gives up.
Nothing forces a call to start or a process to crash, and the service and the network
promise nothing.

## 4. The proofs

For every set of processes, threads, keys, arguments, bodies, hosts, keystores, dids
and texts, for every bound, and for every size of the base58 encoding, with the
constants' named assumptions only. The assumptions say what kind of value a
constant is and what the code checks before anything else: that `NoProc` is no
process, that the storable maximum is within the 19-digit one, that the committed
did parses (`RootAssumption`), that dids, rooms, names and texts are strings and
nonces integers (`Dids`, `Chars`, `ArgumentsAssumption`: the types of the methods'
arguments). TLC evaluates each of them on the instances it checks.

| Theorem | Establishes |
|---|---|
| `NonceStoreProofs!TypeCorrect`, `LockDiscipline`, `NoNonceReused`, `CounterRemembers` | the invariants of `NonceStore` |
| `NonceStoreProofs!CounterNeverBackwards` | the action property `NeverBackwards` |
| `NonceStoreProofs!Refinement` | `NonceStore` implements `NonceSpec` |
| `LedgerProofs!TypeCorrect`, `ChainAlwaysVerifies`, `RecordsAreTraceable`, `WritersNeverConflict` | the invariants of `Ledger` |
| `LedgerProofs!NothingIsRewritten` | the action property `AppendOnly` |
| `LedgerProofs!Refinement` | `Ledger` implements `LedgerSpec` |
| `LedgerProofs!FileIsLedger` | `LedgerFile` implements `Ledger`, and so all of the above holds of the file |
| `LedgerProofs!FileImplementsLedgerSpec` | `LedgerFile` implements `LedgerSpec`, and only appends |
| `LedgerProofs!FileChainIntact`, `FileTypeCorrect`, `SchemaIsWhole`, `StatusIsTrue`, `WarningsAreTrue` | the invariants of `LedgerFile` |
| `LedgerTamperProofs!HeadCommits`, `BreaksAreLocated` | the invariants of `LedgerTamper` |
| `LedgerTamperProofs!AppendsHideNothing` | the action property `AppendKeepsBreak` |
| `OutboundProofs!IntentComesFirst`, `OutcomesAreLinked`, `ResultsAreTrue`, `RefusalsAreFinal` | the invariants of `Outbound` |
| `OutboundProofs!DanglingStays` | the action property `DanglingIsFinal` |
| `OutboundProofs!KeepsItsPromise` | `Outbound` implements `WriteSpec` |
| `OutboundProofs!UsesItsServices` | `Outbound` takes nonces as `NonceSpec` hands them out, and appends rows with such a nonce whose reference exists |
| `PublishProofs!TrailsApart`, `ProofComesFirst`, `NonceSentOnce`, `PublishedIsTrue`, `ExitOkIsTrue` | the invariants of `Publish` |
| `PublishProofs!KeepsItsPromise` | `Publish` implements `WriteSpec` |
| `PublishProofs!UsesItsServices` | the same of `Publish` |
| `PublicGateProofs!GateOpensOnce`, `PublicAsBound` | the invariants of `PublicGate` |
| `RateLimitProofs!BudgetKept`, `SleepsInTime`, `DiscoveryIsSafe` | the invariants of `RateLimit`, the last for every limit and latency that `LatencyFits` lets go together |
| `SigningProofs!EncodingIsCanonical` | a did that parses is the encoding of its key |
| `SigningProofs!KeyIsRecovered` | the encoding of a key parses, back to that key |
| `SigningProofs!KeyIsTheDids`, `DidsAreUnambiguous` | the invariants of `SignerWiring` |
| `SigningProofs!SignedTextsAreAccepted`, `VerifiedMessagesAreAuthentic` | the invariants of `SignedMessages` |

The arguments.

*NonceStore.* `IssuedIncreasing` is not inductive: a process about to commit must
be known to hold a value above everything issued. The inductive invariant adds
that a process past its SELECT has the lock and still reads what is in the table
(`ReadStillTrue`), that what it is about to write lies above it
(`WriteStillAbove`), and that the table is the largest value witnessed. Mutual
exclusion (`LockOwned`) makes the first two stable against other processes. It
needs that `NoProc` is no process and that the storable maximum is within the
19-digit one.

*Ledger.* The invariant adds that the head a writer read is still the head, that
the reference it checked is still there, and that ids in use are distinct and
older than the next; the lemma `AppendChain` shows that a row built on the head
of an intact table gives an intact table.

*LedgerFile.* Every step of the file is a step of `Ledger` or leaves its variables
alone; a death is a `Crash` there or nothing. So the invariants of `Ledger` are
inherited, not proved again, and so are both refinements (`FileImplementsLedgerSpec`). `SchemaInv` says that at most one process is between
its BEGIN IMMEDIATE and its COMMIT, none while an append has the lock, and that
the tables and the version come together. `Knows` says what a report has read so
far of a table that only grows: the rows it has counted have not changed since, so
an outcome that was there when it counted is there, and seen, when it lists the
intents without one.

*LedgerTamper.* While nothing was changed the rows are the honest ones and unbroken.
`verify_chain` reports the first row that is broken (`FirstBreakReported`), and
whether a row is broken depends on it and on the row before it alone
(`BrokenIsLocal`). Since a digest is its preimage, two rows with one entry hash
and a hash that is their own agree in every column it covers, `prev_hash` among
them (`HashBinds`); so, down the chain, do the rows before (`HashBindsHistory`).
The invariant adds that the honest rows are unbroken, and that after a single edit
the rows are the honest ones but for the edited column, whatever was appended
since (`EditedOnly`).

*Outbound.* Reserved nonces are distinct, and a nonce is in the hands of one
process, in the network or in the room, at most once in each, and never in both
of the last two (`RequestsApart`). A waiting process's answer is true of its own
nonce (`ReplyTrue`), and so is the outcome it then carries (`OutcomeTrue`): that
is what keeps a late answer from being recorded for another write; and a write that
the guard refused was never given to the network. The refinement needs no
more than that and the bound on nonces (`NoncesBounded`): an intent row maps to `Note`, a service that stores a request to
`Land`, an outcome row to `Conclude`, and any other step changes neither what the ledger
says nor the room (`RowSays`, `IntentNotes`, `StoreLands`, `OutcomeConcludes`).
That a row's reference exists when it is appended (`OutboundRowFits`, and
`PublishRowFits` for the announcement) is the same invariant: the intent in hand
is in the ledger, or the row before is.

*Publish.* An invocation's nonce is its own (`RunsApart`), the last row it wrote is
of its stage and nonce and continued by nothing (`TrailEnds`), and until it sends,
nothing was sent with its nonce. The lemma `TrailGrows` shows that a row that
refers to such an end keeps all trails apart. The refinement needs more (`SpecInv`):
whatever is in the network was sent, the nonces in the room increase, so none is
there twice, and no invocation still in hand has a result row of its nonce.

*PublicGate.* A gate whose call was made is closed for good, before the request
goes out; what was sent with a gate was its first call, and matched it.

*RateLimit.* `Level(b, t)` is what bucket b holds at time t if nobody takes from
it. Since any grant, what was taken plus what is left is at most a full bucket
and the flow (`SpentInv`); cut off at a later grant, that is `WithinBudget`. The
requests on their way were granted within the last `Latency` ticks (`FlownBy`), so
what their bucket misses and takes in over the latency pays for them. What the
service's bucket misses, with the requests it has yet to expect, is therefore at most
what the client's buckets have lent over the latency (`SafeInv`), and `LatencyFits` says
that this is no more than a full bucket of the service. For the sleeps, a
call has never slept longer than the clock has run since it began, or will have when
the sleep it is in ends (`SleepInv`), and a nap is entered only if it fits in what is
left of `max_wait`, however late it begins.

*SignerWiring.* The did a call expects was parsed, and is the override or the
committed one; the committed did parses by `RootAssumption`, which
`config/public_identity.py` checks when it is imported. That no two dids have one
key is `EncodingIsCanonical`: a text that decodes is the encoding of what it
decodes to. It rests on numbers: `ToDigits` of a number is the one sequence of
digits of that number that does not begin with a zero (`DigitsOfNumber`,
`NumberOfDigits`), and as many zeros as a text begins with, its bytes begin with
(`Base58RoundTrip`). The other direction, `KeyIsRecovered`, is the same argument
from the bytes (`BytesRoundTrip`): a number's digits begin with no zero
(`NoZeroLeads`), so the leading ones in the text are those that stand for the
leading zeros of the bytes.

*SignedMessages.* The invariant says that the message or note in hand was
validated and swept and is signed with the capability's key, and that something is
read only once something was written. Acceptance then rests on two lemmas
about texts. Sweeping twice is sweeping once (`SweepIsIdempotent`). And the path of
two encoded segments has one slash, where the first ends, since the encoding
leaves none in a segment (`EncodeSegment`, `PathSplits`), no escaped newline is in it
because a swept text and a valid room have none (`SweptHasNoNewline`), and a segment
is removed as dots only if the room or text is those very dots (`DotsAreDots`). So the
service reads the room and the text that were meant, and its own sweep changes nothing.
Authenticity rests on the bytes: a room holds no separator and a decimal nonce
neither (`DecimalIsInjective`), so a payload has one reading as a message
(`OneMessage`); as a note it has another only if what the message takes for the
nonce is the key (`MessageOfNote`); and the author, whose did the reader is given,
is the capability's because no other did has its key (`AuthorIsTheWriter`). The
converse, that a true report verifies, needs that what is signed is swept and
stays so, and that the did in hand parses to the key that signed (`WriteVerifies`).

Where an argument is an induction, over the rows of a chain, the digits of a number
or the characters of a text, it is made by a least counterexample: a nonempty
set of natural numbers has a least element (`LeastElement`), and the first place
where two things differ is preceded by places where they do not. The recursive
functions of `DidKey` are shown to exist and to satisfy their equations in the same
way (`Recursion`: the partial solutions below each n agree).

Left to TLC: the liveness (`CallsEnd`, `OpensEnd`, `WritesEnd`), which is out of
the prover's reach.

## 5. Where code and documentation disagree

| Run | The text | The code |
|---|---|---|
| `outbound_unrecorded` | outbound.py:64 "A failed write is recorded as failed and returned to the caller" | `RateLimitExceeded` is no `TechnocoreError`; it escapes and leaves the intent dangling |
| `outbound_landed` | outbound.py:8 failed "when the request did not land" | a timeout is recorded as failed, and the write may be in the room |
| `publish_repeated` | `__main__.py`:254 "exactly once", README.md:193 "It sends at most once" | each run publishes again, with a fresh nonce; at most once holds per run |
| `ledger_deletion` | README.md:164 "editing or deleting a record detectable and locatable", THREAT_MODEL.md:50 "deletions surface as index gaps" | of two rows the newer is deleted, and the chain that is left is VALID (verify.py:127) |

Seen while modelling, and without a run:

* a publish that dies after its request leaves `publish_blocked` as its last row,
  which `dangling_intents` does not look for (outbound.py:115), so `ledger-status`
  does not warn of it;
* `verify-ledger` and `ledger-status` on a file that has no tables yet end in an
  uncaught "no such table", where a missing file is reported as an error;
* a failure recorded as "HTTP 502" or any other error does not prove that the write
  is not in the room (client.py:436);
* an answer that trickles in holds `send_signed_message` for as long as it does: the
  timeout of client.py:223 is of each read, not of the call of line 431;
* a message to or of "." or ".." is signed and sent, but `quote` leaves dots alone
  (canonical.py:312) and httpx removes the segment, so the request is for another path;
* `validate_room` passes rooms whose characters, or whose length of 49 to 128, the
  service refuses with 400 (canonical.py:182-187, 208-231);
* where a service advertises 2 writes a minute, a client that discovers this can be
  throttled as soon as its requests take any time;
* each client, process and discovery starts with full buckets, so several of one
  address may together exceed the service's limit per address;
* `NAME_RE` ends in `$` (canonical.py:187), which also matches before a final
  newline, so a name may end in one;
* `decode_did_key` raises `UnicodeEncodeError` for a did with a character outside
  ASCII: through `verify`, and through `settings.load`, which turns only
  `DidKeyError` into `ConfigError`;
* a keystore that goes away between `is_file()` and `stat()` raises an `OSError`
  of its own, no `KeystoreError`;
* `int()` of a nonce such as "²", for which `isdigit()` is true, raises
  `ValueError` outside the `try` of `_to_message` (client.py:405);
* a note whose key is all digits has the bytes of a message, so its signature also
  verifies as one, of the same author (the second case of `VerifiedIsAuthentic`).

## 6. Not modelled

* The secret scanner and the key-file hook: regular expressions over text. The
  ledger's refusal of a matching row is `Ledger!Acceptable`.
* `untrusted.py` beyond its marker, `reveal` and the fence: text.
* `doctor`, `scan-secrets`, `list_rooms`: no state that changes and no
  decision that anything rests on.
* Cryptography: Ed25519, SHA-256 and the keystore's encryption are ideal.
* The length limits of rooms and names, and rounding of floats in the buckets.
* `save_encrypted_pem` and `production_signer`, which only raise, and
  `seen_signatures`, which nothing writes.

## 7. Plan

Done: every component that keeps state, and the safety of every run proved. What remains:

1. The composition of `Publish` with `SignedMessages`: an announcement as a text,
   not only as a nonce.
2. `Outbound` and `Publish` together on one ledger, for reports that look at both
   kinds of trail.
3. `PublicGate` with threads, if the repository comes to share gates between them.
