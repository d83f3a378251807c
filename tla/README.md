# Visto Easy: a TLA+ development

TLA+ models of the Go service in `src/` (an application for visas: applicants file a *pratica*, the back
office works on it, a payment provider reports payments), the TLC runs that check them, and theorems about
them proved with TLAPS. Names follow the source: actions bear the name of the handler or store method they
stand for, states and events the strings of the code. `PROJECT.json` maps every definition to its lines.

## 1. The system

### Components, their state, their operations

| component | state | operations that change it | source |
|---|---|---|---|
| pratiche | `MemoryStore.pratiche` (map under a mutex) or the Mongo collection `pratiche`; each with state, dates, files, operator and an append-only timeline `eventi` | create, edit, submit, delete (draft), change state, assign, note, ask for a document, add/delete a file, send the visa | `server.go` 1010-1333, 2775-2962; `memory.go` 171-467; `mongo.go` 306-645 |
| payments | `pagamenti` (by token), processed webhook events | create link, provider session, webhook, refund | `server.go` 1354-1446, 2865-2945; `memory.go` 469-547, 700-712; `mongo.go` 647-750, 913-942 |
| refresh sessions | `refreshSessions` (id, user, revoked, expiry) | login, refresh, logout, revoke one, revoke all, list | `server.go` 646-757, 1840-1907; `memory.go` 549-644; `mongo.go` 752-842 |
| accounts and one-time tokens | `users`, `passwordResetTokens` | register, invite, forgot, reset, verify | `server.go` 484-541, 759-900, 1621-1716; `memory.go` 76-141, 646-698; `mongo.go` 206-270, 844-911 |
| second factor | `Utente.TOTPSecret`, `Utente.TOTPEnabled` | setup, enable, disable | `server.go` 911-1004; `memory.go` 143-169 |
| rate limiter, login lock | two in-memory maps, each under its mutex | one call per request or login | `server.go` 3000-3065, 3508-3616 |
| IP lists | `allowedIPs`, `blockedIPs` with expiry | add/renew, remove, bulk revoke, list, decide | `server.go` 2024-2338, 3102-3225; `memory.go` 786-906; `mongo.go` 1042-1204 |
| security and audit events | append-only logs; per connection of the stream, the signature sent last | appended by the handlers, read by lists, statistics, CSV and SSE | `server.go` 1909-2022, 2340-2555, 3243-3245; `memory.go` 714-728; `mongo.go` 944-981 |
| listings | none; a page is computed per request | filter, sort, slice | `server.go` 1448-1619, 3455-3487 |
| start, seeds, scripts | environment; the seed accounts and demo pratiche they write | choose the store, seed, serve, stop; `create_admin_user`, `seed_demo_data` | `main.go`; `server.go` 69-323; `mongo.go` 35-200; `memory.go` 40-74; `scripts/` |
| notifications | none | e-mail on registration, link, payment | `notifications/email.go`, `server.go` 2670-2773 |
| file storage | external (S3/MinIO) | signing of URLs | `storage/presign.go` |
| JWT, roles, CORS, headers | none | per request | `auth/auth.go`, `httpapi/middleware.go` |
| web frontend | browser | client of the API | `web/` |

### How they interact

`net/http` runs every request in its own goroutine. A handler checks the caller's role, makes between one and
seven calls to the `DataStore`, and answers; there is no transaction around them, and the result of many later
calls is ignored (`_, _ =`). The store is a `MemoryStore` (every method takes one mutex, some take it twice)
or a `MongoStore` (every method is one or more calls to the database, each with 8 seconds; several processes may
share it); `main.go` 51-66 chooses. The payment provider calls the webhook as often as it likes. The limiter, the
lock and the IP lists stand in front of the authentication endpoints.

### What is hard

* Requests interleave between any two store calls, and a check in one call is acted upon in a later one.
* `MongoStore` reads a whole document, changes it in the process and writes it whole: lost updates.
* A process may crash, and a call may fail, between two calls whose results belong together.
* The webhook is delivered again, concurrently, and in any order.
* Windows, expiry and locks meet at their last instant.
* A start writes accounts and pratiche, in many calls, next to other processes, scripts and earlier starts that
  were cut short; outside production it may serve from a store that dies with it.
* Lists are cut, may come back short without an error, and change between two pages.

The full list, line by line, is `hazards` in `PROJECT.json`; each names the properties that watch it or the reason
none does.

### What makes each part correct

* Pratiche: the timeline explains the state; moves follow the table; milestones and dates agree with the
  history; only drafts disappear, and for good; what was begun is completed.
* Payments (`Registro`): an event is one deposit, in one step; a deduplicated event has done its work; refunds follow
  confirmations; a paid pratica is completed; the mail about it is true.
* Sessions: what was closed stays closed; a token is not rotated without bound; "revoke all" revokes all, and
  after the lifetime of an access token nothing of the user gets in.
* Accounts: a token is used once, for what it was made for; an invitation ends in a usable account; the second
  factor does not shut its user out.
* Limits: how many requests and wrong passwords can really pass in a window.
* IP lists: what a decision means for the rules it has read.
* Alarms: a lock and a series of failures are shown at the next beat of the stream.
* Listings: a page is exactly its positions; when a walk over a changing list is exact.
* Starts: whoever serves finds its accounts and rules; no account is replaced; seeding is bounded; the table allows
  every plan of the demo pratiche; a pratica of the script belongs to an account and is in the state its timeline
  leads to.

## 2. Modules

```
Mappe            functions whose domain changes (the maps of the stores)
PraticaDoc       one pratica as a document; what each operation computes from it; its consistency
CicloVita        abstract: the life cycle the store promises            (EXTENDS PraticaDoc, Mappe)
PraticaMemory    the handlers over MemoryStore                          (EXTENDS PraticaDoc, Mappe; INSTANCE CicloVita)
PraticaMongo     the handlers over MongoStore                           (EXTENDS PraticaDoc, Mappe)
Registro         abstract: the ledger the payments promise              (EXTENDS Mappe)
Pagamenti        payments, webhook, refunds, and the states they move   (EXTENDS PraticaDoc, Mappe; INSTANCE Registro)
Sessioni         refresh sessions
Accesso          access tokens, over Sessioni                           (EXTENDS Sessioni)
Account          accounts, one-time tokens, second factor
Identita         the access tokens and the accounts, side by side       (EXTENDS Accesso; INSTANCE Account)
Accessi          rate limiter and login lock
Allarmi          security events and the stream of alarms, over Accessi (EXTENDS Accessi)
PolicyIP         IP lists and decision
Paginazione      page arithmetic, in machine integers
Elenchi          walking through the pages of a list that changes       (INSTANCE Paginazione)
Ufficio          the alarms, the IP lists, the pages and the walk,      (EXTENDS Allarmi;
                 side by side                                            INSTANCE PolicyIP, Paginazione, Elenchi)
Avvio            starts, stores and seed accounts of several processes
Demo             the demo pratiche of a start                           (EXTENDS PraticaDoc, Mappe)
ScriptSeed       the script seed_demo_data against the server           (EXTENDS PraticaDoc, Mappe)
Semina           the seeding, the starts and the script, side by side   (EXTENDS Demo; INSTANCE Avvio, ScriptSeed)
PraticaDoc_proofs                                 lemmas on the maps of the stores and on one document
PraticaMemory_proofs, PraticaMongo_proofs,
Pagamenti_proofs, Account_proofs,
Identita_proofs, Ufficio_proofs, Semina_proofs    theorems and their lemmas
MCPratica, MCPraticaMongo (INSTANCE CicloVita), MCPagamenti, MCPolicyIP,
MCIdentita, MCUfficio, MCSemina                   instances for TLC
```

**PraticaDoc.** The two stores compute a new document from an old one with the same code; that computation is
written once here (`NuovaPratica`, `ConStato`, `ConNota`, ...), with the transition table, and the two modules
of the stores differ in what they read, and when they write it. `Coerente` says what a consistent document
is: `Catena` (each change in the timeline starts where the previous one ended and is in the table),
`StatoSpiegato` (replaying the timeline gives the state), `Tappe` (nothing is approved, paid, issued or
completed without its milestones), `DateSpiegate` (the two dates agree with the timeline), `InvioUnico` (one
submission). Texts, names, amounts and times are left out.

**PraticaMemory.** A method that takes the mutex once is one action. Handlers with several calls are one action
per call, and `richieste` holds the suspended ones: submission (`SubmitGet`, `SubmitChange`), request of a document
(`RichiediGet`, `RichiediChange`, `RichiediNota`), the applicant's deletion of a file (`EliminaDocumentoGet`,
`EliminaDocumentoStore`), sending the visa (`InviaVistoEmesso`, `InviaVistoCompletata`).

**PraticaMongo.** Every change is a `...Find` that computes the new document into `lette[r]`, then `ReplaceOne`
that writes it over whatever is there (or nothing, if the pratica is gone: no upsert). Insertion and conditional
deletion are one call. `Cade` stops a handler anywhere.

**CicloVita.** A pratica is born as a draft, advances along the table leaving one event per move, is annotated, or
disappears as a draft and never returns. The refinement mapping forgets owner, data, operator and files;
for MongoStore it is stated in `MCPraticaMongo`, of behaviours with one handler at a time.

**Pagamenti.** Both stores (`Store`), with or without failures (`Guasti`). Webhook: find, mark, confirm, four
changes of state. `movimenti` is a history of confirmations and refunds. The pratica is its state; other handlers
on it appear as `AltroCambio` (a change through the table) and, over MongoStore, `AltraScrittura` (a document
written back with the state that was read). `Notifica` is the mail a link or a webhook ends with.

**Registro.** A payment is opened once; an event deposits at most once, on the payment it names and in one step; a
refund needs a deposit. The refinement mapping keeps the state of each payment and the events that confirmed: the
mark, the states of the pratica and the handlers in flight are stutters.

**Sessioni.** A refresh looks (`RefreshGet`), opens (`RefreshCreate`), revokes (`RefreshRevoke`). MongoStore's
`UpdateMany` goes through the sessions one by one. Histories: `padre` (which session was replaced), `chiusi` (users
all of whose sessions were revoked), `guasto` (has anything failed).

**Accesso.** A login and a refresh sign an access token (user and age); the middleware looks at nothing else. Time
passes in ticks between any two calls; `daQuanto` counts the ticks since all the sessions of a user were revoked.

**Account.** Fields `Attivo` and `EmailVerificata` are always written together and are one. A password is named by the
token that set it; a code by its secret. A token is consumed before the password is hashed, which may fail
(`PasswordRifiutata`). Histories: `generati`, `consumi`, `mostrati`, `guasto`, `sovrapposti`.

**Accessi.** Clock of ticks. A login is limited, looked up in the lock, compared, reported. Histories: the requests let
through and the wrong passwords compared, each a mark with its tick and a number that tells it from its equals; a
successful login empties the latter, as it clears the tracker.

**Allarmi.** `Init` chooses the store. The logins of `Accessi`, each followed by the event it writes: under the mutex in
MemoryStore, stamped and then inserted in MongoStore, where the list returns the newest `LimiteLista` events and any of
equal time (`Liste`). A failed query returns an empty list, and a cursor that stops the part it has read (`Letture`):
the stream may read either. Its snapshot and signature are the operators of their functions. `persi` remembers an
event that was lost.

**PolicyIP.** A target is a prefix length and the clients it covers. The decision reads the block list, then the allow
list, and each read may return a part of its list, or nothing, without an error (`Letture`). `Scelta` returns every
rule the code may return (equal prefixes and equal times depend on the order of the store).

**Paginazione, Elenchi.** `paginateBounds` in integers from `-MaxInt - 1` to `MaxInt` that wrap; a slice out of range
is a panic. A walk sorts the list afresh for every page, equal keys in any order; `accaduto` records what happened to
the list meanwhile.

**Avvio.** A process is off, opening (the seeds of `MongoStore`, one `UpdateOne` each), seeding (those of `NewServer`)
or serving, over the database it shares or a `MemoryStore` of its own, and may stop at any step. The environment
(production, URI, `BACKOFFICE_SEED_ENABLED`, and whether bcrypt hashes the seed password, `hash`) is fixed. Block rules
stand for whatever a store keeps. The accounts that scripts write to the database are here too: `CreaAdmin`
(`create_admin_user`) and `SeminaUtente` (`seed_demo_data`, which makes the account of an e-mail an applicant whatever
it was).

**Demo.** The seeding of demo pratiche, a store call per action, with its two `continue`s and its `break`; the
remainders of the index that pick a plan, an operator and a file are free choices. A write of a whole document is a
read (`Legge`) and a replacement (`Sostituisce`), of a start as of the handler of a request (`Gestori`): what was
stored in between is undone. Histories: `segue` (is a pratica being driven, was it left, was it changed by someone
else, did its plan end) and `perse` (which of state and files a write back has undone).

**ScriptSeed.** Runs of the script, a document per action, and a request of the server that reads and replaces.
`nomina` tells whether the last event of a pratica names the id it is stored with: on a rerun it names an id the script
has made up (`main.go` 201), while the document keeps its own. The actor of that event is left out.

**Identita, Ufficio, Semina.** Parts that share no state, side by side: a variable that `Init` chooses and no step
changes (`caso`) picks the one a behaviour is about, and the others rest. A run of such a module checks each of its
parts on the instance that suits it, and a theorem of it speaks of all of them. What bounds one case only is a
condition on its step (`PassoAccessi`, `PassoConti`, `PassoFattore`; `ora' <= OraAllarmi`; `PassoBozze`, `PassoPiani`
with `SoloGuidate` and `UnAvvio`, `PassoSoli`). A property of a part that is reached through `INSTANCE` is restated
there under its own name (`SemeCoerente == Script!SemeCoerente`); `TypeIdentita`, `TypeUfficio` and `TypeSemina` are
the conjunctions of the parts' types.

**MC modules.** They give small values to the constants of one module, and symmetry. `MCPraticaMongo` also chooses, with
`seriale`, between two overlapping handlers on short timelines and one handler at a time on long ones.

## 3. Runs

Every run finishes within 5 minutes with two workers. `CHECK_DEADLOCK FALSE` everywhere: ids, events, tokens and
ticks are finite, and a system in which nobody asks for anything may stop.
Symmetry, where a cfg states it, is of handlers, processes or fresh ids, and only in runs without liveness.

| run | instances | shows |
|---|---|---|
| `pratica` | 1 pratica, 1 applicant, 1 operator, 1 file, 2 handlers; no handler starts on a timeline of 10 events, no note or assignment on one of 4 | `TypeOK`, `PraticheCoerenti`, refinement of `CicloVita`, and, under fairness, `VistoInviatoSiCompleta` |
| `mongo` | 1 pratica; two handlers, timelines to 7; or one handler, files, an operator, timelines to 9 | `TypeOK`; `DocumentiCoerenti`: lost updates never leave a document that contradicts itself; `EliminataResta`; `SerialeImplementaCicloVita`: refinement of `CicloVita` when handlers do not overlap |
| `pagamenti_mongo` | 1 payment, 2 events, 2 handlers, failures and crashes | `TypeOK`, `ConfermaUnica`, `RimborsoDopoConferma`, refinement of `Registro` |
| `pagamenti_memory` | 2 payments of 1 pratica, 2 events of the first, 2 handlers, fairness | `MarcatoConfermato`, `AvvisoVeritiero`, `PagataSiCompleta` |
| `identita` | one of: 3 sessions with access tokens of 3 ticks; 4 sessions alone, one of which expires; 1 account with 3 tokens; 1 account with 2 tokens and 2 secrets. 1 user, 2 handlers, both stores, failures and crashes | `TypeIdentita`; `ErediLimitati`, `RevocaTutteChiude`, `RevocaEntroDurata`, `ChiusaResta`; `TokenUnaVolta`, `SoloConToken`, `InvitoCompleto`, `SecondoFattoreUsabile` |
| `ufficio` | one of: alarms (2 logins in flight, 3 ticks, a window of 1, 3 events, a list of 2); limits (2 logins, 5 ticks, windows of 1, limits of 2); IP rules (1 client, an address, its /32, a /24, 1 handler, 1 instant); a walk (3 items, 3 keys, pages of 1 or 2); every request for a page in 6-bit integers | `TypeUfficio`; `BloccoSegnalato`, `TentativiSegnalati`; `RateRispettato`, `TentativiLimitati`; `PrecedenzaPrefissi`; `CamminoEsatto`; `PaginaEsatta` |
| `semina` | one of: drafts and their files (`bozze`: 2 processes, 3 pratiche, target 2); plans (`piani`: 6 of the 12, on 1 pratica of 1 file at most, 2 starts, and 1 handler that changes it to any state, deletes its file or writes it back); 2 processes in production (`produzione`); 1 process at a time in every environment (`soli`); 2 runs of the script, 2 users, 2 pratiche, 1 request (`script`) | `TypeSemina`; `DemoLimitate`, `PianoCompiuto`; `BlocchiDuranoInProduzione`, `SemiPresenti`, `IdentitaStabile`; `SemeCoerente` |
| `mongo_tabella` | as `mongo` | violation of `StatoSegueTabella` |
| `pagamenti_perso` | 1 payment, 2 events, 1 handler, failures | violation of `MarcatoConfermato` |
| `pagamenti_avviso` | as `pagamenti_perso` | violation of `AvvisoVero` |
| `policy_esatta` | 1 client, an address, its /32, a /24, 1 handler, 2 instants | violation of `DecisioneDocumentata` |
| `avvio_seme` | as `semina` | violation of `SemeSoloSeAbilitato` |

### Why the bounds are enough

* Two handlers: each race listed is between two handlers, or a handler and an atomic call (creations, deletions,
  refunds, logouts and expiry need no handler). The theorems of section 4 remove this bound, and the others below,
  from every invariant and action property.
* Timelines: the shortest way to `VISTO_EMESSO` has 8 events, to `COMPLETATA` 9. In `pratica`, handlers start up to
  length 9 and always finish, so that another handler can still work on the pratica between the two changes of the
  visa, complete it itself, and have the second change refused and ignored. Notes and assignments, which the table
  does not see, start up to length 3, among the first moves. In `mongo`, two handlers start up to length 6, which
  reaches `VISTO_IN_ELABORAZIONE`; the issue of the visa over MongoStore is reached with one handler only (with 8 the
  two-handler instance exceeds five minutes).
* Sessions: four are a login, two overlapping refreshes of it, and one more; with access tokens, three. Expiry is given
  to one session, the first or any that takes its id, and only where there are no access tokens (a session that has
  expired signs none).
* Payments: two events of one payment are all a race of deliveries needs; the second payment, which nobody pays, moves
  the pratica when its link is made.
* Tokens: three, so that one account can meet all purposes; two beside the second factor (the way in, and a reset).
* Ticks: with windows of one tick, five are more than two full windows and what comes after them; three, for the alarms,
  are a window and what comes after it. Three events and a list of two: one event of the window can be pushed out.
* IP rules: at one instant (`MaxIstante = 0`) all rules are equally new, and among equally long ones the code may choose
  any: every choice that a later instant would force is among those tried. The theorem is of every clock. In
  `policy_esatta`, with two instants, the network may also be the newer rule.
* Walk: three items in pages of two have a last page that is cut; three keys let an item enter before, between and
  after the others. Six bits (`MaxInt = 31`): sizes, pages and lengths around the largest integer and around zero, as
  in 64.
* Starts: two processes are all a race needs; a target of two lets a process stop between its first and its second
  pratica; with the environments one process suffices, the others being what two do.
* Plans: in `piani` two starts meet on one pratica, so that one's `AddDocumento` can undo a move of the other; a handler
  works beside one start at a time, while no move was undone, and what it has changed is not followed further. The six
  plans (`Indici`) are the empty one, four that end in `SOSPESA`, `RIFIUTATA`, `ANNULLATA` and `COMPLETATA`, and the one
  that passes a state twice; the others are beginnings of these, and `PianiAmmessi` proves all twelve. One
  draft of the applicant lets a start find enough pratiche and turn to their files.

### Fairness

Liveness is claimed only of handlers that have started: `WF_vars(Prosegue(r))`, that is, the Go runtime goes on
running a goroutine that can run, and a mutex is held for a bounded time. No client, provider or back-office user is
assumed to do anything. Only `pratica` and `pagamenti_memory` state it: over MongoStore calls fail and handlers stop,
and what the other modules promise is safety.

### What the violations say

* `mongo_tabella`: the README of the code promises validated transitions (line 17). Over MongoStore the validation
  is of the document read; two requests, one of which read before the other wrote, take the stored state back or
  sideways. Every document remains one coherent history (`DocumentiCoerenti`), but not the one that happened.
* `pagamenti_perso`: deduplication is recorded before the work; when the process stops, or a call fails, in between,
  the provider's retries are ignored and the payment remains PENDENTE.
* `pagamenti_avviso`: a payment link may be made for a pratica in any state. When it is paid, the four changes of
  state are refused, their results ignored (`server.go` 1440-1443), and the mail says that the visa was issued (2768).
  `AvvisoVeritiero` is what holds: over MemoryStore the mail is true of a pratica that waited for its payment.
* `policy_esatta`: of rules of equal length the newest represents its list. If an address is blocked and, at the same
  instant or later, the same address as a network of full length, an exact allow rule wins, although an exact block is
  stored (README line 110). `PrecedenzaPrefissi` states what does hold: apart from this case, a client is blocked if
  and only if some matching block rule is at least as long as all matching allow rules.
* `avvio_seme`: opening the Mongo store sets the seed passwords whatever `BACKOFFICE_SEED_ENABLED` says (README line
  175; `mongo.go` 190), also in production, and undoes a password the user has chosen.

Two divergences are described and not stated as runs. "Eliminazione documenti consentita solo in bozza" (`server.go`
1318) is of the pratica as it was read; a submission may come before the deletion (1321), and the models let it. And a
process outside production that cannot reach the database at its start serves from memory (`main.go` 62), where block
rules do not survive a restart (README line 16); `BlocchiDuranoInProduzione` is stated of production, where the
process ends instead.

### What some properties do not claim

Every condition below is needed: without it there is a counterexample, on the instance of the run or on one with more
handlers. Those that are not plain values are history variables of the models. The other items say what a property
does not speak of.

* `ErediLimitati`, `RevocaTutteChiude` and `RevocaEntroDurata` hold when no call has failed: the results of the second
  and third call of a refresh are ignored, and when the revocation fails the old session remains good. The latter two
  also need that no refresh of the user was between its calls: such a refresh opens a session, or signs an access
  token, that the revocation cannot see.
* `InvitoCompleto` needs that no handler stopped halfway (the activation that follows the password is a second call;
  the token is used by then). `SecondoFattoreUsabile` needs that handlers of the second factor of one account do not
  overlap: an enable that overlaps a setup or a disable can leave it on with a secret the user was not shown, or none.
* `RateRispettato` is twice the configured limit, because the window is fixed and not sliding. `TentativiLimitati` is
  twice the threshold and the logins already past the check, because a new window forgets a lock set late in the
  old one. It counts since the last successful login, which clears the tracker, and it is stated of at most one login in
  flight more than the threshold (with more of them the bound is higher).
* `BloccoSegnalato` and `TentativiSegnalati` need `LogCompleto`: no event on its way to the log or lost, and the
  events of the window within the list (1000 in the code). The first also needs an alarm window as long as the lock.
  Both are of the next beat that reads a whole list (`Liste`): a beat whose query fails, or whose cursor stops, reads
  less (`Letture`), is told of no error, and may show "ok". The stream of the model takes those beats too.
* `PrecedenzaPrefissi` is of the lists as the decision has read them, which may be parts of what is stored: a read that
  fails returns no rules, and a decision without the block rules lets everybody in (`mongo.go` 1084).
* `CamminoEsatto` needs that no item leaves, no key changes and no two keys are equal (the sort is not stable and is
  done afresh for every page); that nothing is shown twice also needs that no item enters before others.
* `PaginaEsatta` is of requests whose arithmetic fits an integer; beyond that the handler panics, and the
  models go no further.
* `DemoLimitate` needs that no list came back short without an error: a short list is counted as few pratiche. Its
  bound on files leaves out the pratiche of which a write back has undone a change of files (`perse`): the file is
  back, or gone, behind the back of those who counted it.
* `PianoCompiuto` leaves out the pratiche whose state somebody else has changed, and those of which a write back has
  undone a change of state: `AddDocumento` of another start (`mongo.go` 574-589) writes back the state it read, the
  table refuses the next move (`server.go` 299), and the pratica stays half way with nothing failed or stopped.
* `BlocchiDuranoInProduzione` is of the rules that are stored; the expiry of rules and a read of them that fails are in
  `PolicyIP`.
* `IdentitaStabile` is of ids. Roles are less stable: `create_admin_user` makes any account an administrator, and
  `seed_demo_data` makes one that is not a seed an applicant, an administrator included.
* `SemeCoerente` is of the owner and the state; after a second run of the script the last event of a pratica names a
  pratica that does not exist.
* `MarcatoConfermato` and `PagataSiCompleta` need that calls do not fail.

## 4. Proofs

`PraticaMemory_proofs` proves, for every set of ids, users, operators, contents, files and handlers and every bound:

* `TipiMemory`: `Spec => []TypeOK`.
* `CoerenzaMemory`: `Spec => []PraticheCoerenti`.
* `MemoryImplementaCicloVita`: `Spec => Ciclo!Spec`, the refinement.

`PraticaMongo_proofs` proves, in the same generality and with handlers that may stop anywhere:

* `TipiMongo`: `Spec => []TypeOK`.
* `CoerenzaMongo`: `Spec => []DocumentiCoerenti`.
* `EliminataRestaMongo`: `Spec => EliminataResta`.
* `EsclusivoImplementaCicloVita`: `Spec /\ []Esclusivi => Ciclo!Spec`: while no two handlers are at work on the same
  pratica, MongoStore implements the life cycle too. `UnoAllaVoltaImplementaCicloVita` is the case of one handler at a
  time, which the run `mongo` checks.

`Pagamenti_proofs` proves, for both stores, any number of payments, events and handlers, and with failures where not
said otherwise:

* `TypeOKPagamenti`: `Spec => []TypeOK`.
* `ConfermaUnicaPagamenti`: `Spec => []ConfermaUnica`.
* `RimborsoDopoConfermaPagamenti`: `Spec => []RimborsoDopoConferma`.
* `ImplementaRegistroPagamenti`: `Spec => ImplementaRegistro`, the refinement.
* `MarcatoConfermatoPagamenti`: `~Guasti => (Spec => []MarcatoConfermato)`.
* `AvvisoVeritieroPagamenti`: `Store = "memory" /\ ~Guasti => (Spec => []AvvisoVeritiero)`.

`Account_proofs` and `Identita_proofs` prove, for both stores, any number of users, sessions, tokens, secrets and
handlers, with calls that fail and crashes:

* `TypeOKSessioni`, `RevocaTutteChiudeSessioni`, `ErediLimitatiSessioni`: `Spec => []P` for `TypeOK`,
  `RevocaTutteChiude`, `ErediLimitati` of `Sessioni`.
* `ChiusaRestaSessioni`: `Spec => ChiusaResta`.
* `RevocaEntroDurataAccesso`: `SpecAccesso => []RevocaEntroDurata`, for every lifetime `Durata`.
* `TypeIdentitaIdentita`, `TokenUnaVoltaIdentita`, `SoloConTokenIdentita`, `InvitoCompletoIdentita`,
  `SecondoFattoreUsabileIdentita`: `SpecIdentita => []P` for `TypeIdentita`, `TokenUnaVolta`, `SoloConToken`,
  `InvitoCompleto`, `SecondoFattoreUsabile`; `Account_proofs` has the same of the specification of `Account`.

`Ufficio_proofs` proves, for any limits, windows, thresholds and lists, any accounts, addresses, rules and items, and
any number of overlapping logins and decisions:

* `TypeOKAccessi`, `RateRispettatoAccessi`, `TentativiLimitatiAccessi`: `Spec => []P` for `TypeOK`, `RateRispettato`,
  `TentativiLimitati` of `Accessi`.
* `BloccoSegnalatoAllarmi`, `TentativiSegnalatiAllarmi`: `SpecAllarmi => []P` for `BloccoSegnalato`,
  `TentativiSegnalati`.
* `TypeUfficioUfficio`, `PrecedenzaPrefissiUfficio`, `PaginaEsattaUfficio`, `CamminoEsattoUfficio`: `SpecUfficio => []P`
  for `TypeUfficio`, `PrecedenzaPrefissi`, `PaginaEsatta`, `CamminoEsatto`.

`Semina_proofs` proves, for any number of processes that start, stop and overlap, any environments, seeds, targets and
counts:

* `TypeOKDemo`, `DemoLimitateDemo`, `PianoCompiutoDemo`: `Spec => []P` for `TypeOK`, `DemoLimitate`, `PianoCompiuto` of
  `Demo`.
* `TypeSeminaSemina`, `BlocchiDuranoSemina`, `SemiPresentiSemina`, `SemeCoerenteSemina`: `SpecSemina => []P` for
  `TypeSemina`, `BlocchiDuranoInProduzione`, `SemiPresenti`, `SemeCoerente`.
* `IdentitaStabileSemina`: `SpecSemina => IdentitaStabile`.

Assumptions. The theorems on pratiche and accounts rest on none. The others rest on those their modules name, all of
them evaluated in the runs: each event names a payment (`TokenDiAssumption`); an id is never empty and handlers are
finitely many (`SessioniAssumption`); an access token lives at least a tick (`DurataAssumption`); limits and windows are
positive, lists and targets are numbers, processes and logins are finitely many (`AccessiAssumption`,
`AllarmiAssumption`, `DemoAssumption`, `UfficioAssumption`, `SeminaAssumption`; the last two include the assumptions of
`PolicyIP`, `Elenchi`, `Paginazione` and `Avvio`).

*Pratiche over MemoryStore.* `TypeOK` is inductive: one step per action, from `PraticaDoc_proofs` (what `Con` and
`Senza` do to domain and range). For `PraticheCoerenti` the inductive invariant is `TypeOK /\ PraticheCoerenti`:
although a suspended handler has checked something in an earlier state, it relies on nothing it checked then
(`SubmitChange` looks at the table again, inside the mutex), so no conjunct about `richieste` is needed, and this is
exactly what the theorem says about the code. The core is in `PraticaDoc_proofs`: an event that sets no state leaves
`Catena`, `StatoSpiegato`, `Tappe`, `DateSpiegate` and `InvioUnico` as they are, and `ConStato` preserves each of them
for a move of the table, because the last event that sets the state is unique and ends in the current one. For the
refinement, every action is mapped to one of `CicloVita` or a stutter, with the facts about `Con`, `Senza` and the
mapped functions.

*Over MongoStore* the consistency of what is stored is not inductive: `ReplaceOne` stores what its handler computed
some time ago. The invariant adds that exactly the handlers about to write hold a document (`DOMAIN lette`), and that
each document held is typed and consistent; a document read is consistent because it was stored, and the `Con...`
lemmas of `PraticaDoc_proofs` carry it to the one to be written. `EliminataResta` follows step by step: `ReplaceOne`
does not change the domain of the collection, and `CreatePratica` takes an id never given.

The life cycle needs more: that what a handler is about to write is one move (`UnaMossa`: invisible, an advance along
the table, an annotation) ahead of what is stored now. `Avanzati` says so, and it is inductive exactly as long as no
other handler writes between the two calls, which is what `Esclusivi` forbids. A deletion in between does no harm: the
handler then finds nothing to replace.

*Payments.* `ConfermaUnica` says that an event occurs once in the history of confirmations; it is kept only because
the event of a handler about to confirm has been marked and has not confirmed yet. The inductive invariant `Inv` is
the conjunction of `TypeOK`, `VoloBuono` (what a handler in flight carries at each of its steps), `UnoSolo` (the event
of a handler about to confirm is marked, has not confirmed, and no other handler is about to confirm it), `Esistono`
(the payment of a handler about to mark is there), `ConfermeViste` (events that confirmed are marked, and confirmed
their own payment), `PagatiConfermati` (the last movement of a COMPLETATO payment is a confirmation), `ConfermaUnica`
and `RimborsoDopoConferma`. One lemma per action shows that `Inv` is kept; what follows the confirmation in a handler
touches none of its parts and is shown at once (`ProsegueInv`). The refinement of `Registro` uses `Inv` for the one
delicate step: a confirmation is a deposit of an event that has not deposited. For `MarcatoConfermato`, without
failures a marked event is one that has confirmed or is held by the handler about to.

The mail is decided from the pratica as the webhook found it, and sent after four changes of state whose results are
ignored. `Veritieri` says where the pratica can be while a webhook that found it on the way to completion (`Percorso`)
still has changes to make: in a state from which the next one leads on, or beyond it (`Verso`). Other handlers do not
spoil this, because from each of these states the table leads only to the next.

*Sessions.* `ChiusaResta` follows step by step from `TypeOK`: a step drops or revokes sessions (`Peggiora`), lets one
expire, or opens one under an id never given. `RevocaTutteChiude` is not inductive: between the first and the last
document of an `UpdateMany`, sessions of the user are still active, and a refresh whose revocation is pending could
open one more. The invariant `ChiusiBene` says that, when no call has failed, for each user whose sessions were all
revoked no refresh is about to open a session, and each session still active is among those that a revocation has
still to look at. The lemma of each action shows that it adds no such refresh and takes from a revocation only what it
revokes.

`ErediLimitati` is a count. `ContiGiusti` says that, while a session is active, the sessions opened in its place are
no more than the handlers that have still to revoke it; and that, with the handlers about to open another, they are
never more than the handlers there are. The first is needed for the second: a handler joins only by seeing the session
active.

*Access tokens.* A step of `Accesso` is one of `Sessioni`, or a login whose session was not stored, so `TypeOK` and
`ChiusiBene` hold here too. `Vecchi` adds that each token of a user who is out is at least as old as the time since
he was: a tick adds as much to both, a login lets the user in again, and a refresh about to sign for him is excluded by
`ChiusiBene`.

*Accounts.* `TokenUnaVolta` needs to know that an unused token was never accepted (`TokenCoerenti`). `SoloConToken`
also needs what a handler in flight has established: `Onesto` says that one about to set a password holds a token
accepted for it, with the purpose it carries, and one about to activate holds a token to verify or to activate. Tokens
given and accepted are never forgotten (`Cresce`), so that what was true of a handler or of an account stays true
while others act. The four parts of `Inv` - tokens, handlers, accounts, the rest - are shown separately for each
action.

For `InvitoCompleto`, `Invitati` says that, if no handler stopped, an account with a password set from an invitation
is active or has a handler about to activate it. For `SecondoFattoreUsabile`, `Fattori` says that, if moreover no two
handlers of the second factor of one account overlapped, there is one at most for each account, each is in order
(`InOrdine`: what it relies on, it saw or wrote itself), and an account with none can be used (`Usabile`).

*Rate limiter.* The bound of one window is in the bucket; that of an interval across two is not, because a new window
overwrites the old one. `Tiene` says that the bucket accounts for every request since the start of its window, and
that at most `Limite` got through in the window before it. An interval as long as the window meets at most these two.

*Login lock.* The count is harder, because logins that have passed the check still report after the lock closes, and a
report may come on the last tick of a window that was locked on its first. `Contata` says, of an account with an entry,
that it is open and counts every failure of its window (`Aperta`), or was locked once (`ChiusaUnaVolta`) or twice
(`ChiusaDueVolte`) in it, and in each case how many failures there were since which tick and how many logins are still
to report; `Pulita` is the account without an entry. `Soglia`, the threshold and all logins but one, is what one window
can reach.

*Alarms.* The stream reads a log that is written after the fact. `Segnalata` says that, for every tick, the wrong
passwords since then are no more than the events in the log and on their way to it; `Tracciato`, that a lock has its
event in one or the other (`InvTracce`). Both hold until an event is lost. When the log is complete and the window
fits in the list, every list holds the whole window (`FinestraIntera`), and what it shows follows. The types also need
that the log has room for the events of all logins in flight (`Spazio`).

*IP lists.* A decision looks twice, and the lists change in between. `Scelto` says what the first look left: a longest
rule among those it found to match, or none. `PrecedenzaPrefissi` compares that with what the second look finds.

*Pages and walks.* `PaginaEsatta` is arithmetic: a result that fits is itself, and one that does not comes out negative
(`AvvolgeEntra`); the positions between the bounds are those with the quotient of the page (`QuozienteTra`). A walk is
about the place of an item in the order (`Posto`: how many come before it). Items that enter only move places up, so
what had its place before the next page has been shown (`Coperti`); if they enter after the others, what was shown
keeps its place, before the next page (`Alle`).

*Demo pratiche.* `DemoLimitate` is a count: the pratiche seeded and those that processes still lack are never more
than the target for each process (`Contate`), and the files of a pratica with the processes about to give it one are
no more than the processes (`FileContati`). Both need to know what a writer in flight will store (`TipiLette`,
`Pendente`): a start adds a file only in `allega`, and a request never adds one, so that a replacement that adds more
than its writer was counted for has undone a change, which `perse` records. For `PianoCompiuto`, the twelve plans are
sequences the table allows (`PianiAmmessi`), and `Condotte` says that each pratica being driven has one process
driving it, which is where the plan has come to unless somebody else changed it or a write back undid it. The steps
that drive nothing - files, notes, requests - are `Innocua`: they leave the state, or are recorded as one of these
two.

*Starts.* A step of any process or script loses nothing from an archive (`Cresce`): no account and no id, no password
becomes missing, and a role changes only to ADMIN or, of an account that is not a seed, to RICHIEDENTE. Hence what a
process has seeded stays (`Seminati`), whatever others do and however they stop, and `IdentitaStabile` is the same fact
about one step. In production nobody works from memory, and the database has the rules that were added and not removed
(`Produzione`).

*Script.* Documents are written after the accounts they belong to, by runs that carry the ids in a list, and rewritten
by requests that read them before. `InvSeme` says that what a run carries (`Portata`) and what a request holds (`Sua`)
is about accounts that are stored, which are only added; and that the second loop has an account to take.

*Compositions.* A step of `Identita`, `Ufficio` or `Semina` is a step of one part, or leaves it alone
(`PassoDelleParti` and its like), so the invariants of the parts hold together (`InvIdentita`, `InvUfficio`,
`InvSemina`); what rests is in its initial state (`Soli`, `Riposo`). `ContiP` in `Identita_proofs` is `Account` once
more, with its theorems.

Only model-checked: liveness (`VistoInviatoSiCompleta`, `PagataSiCompleta`), which is outside what the prover does, and
`SerialeImplementaCicloVita` as it is stated for TLC, on one of two instances; what it says of MongoStore is
`UnoAllaVoltaImplementaCicloVita`. The five properties that TLC finds violated are not claimed. Every other property of
the runs is the statement of a theorem.

## 5. Not modelled

* The audit log, the stream of notifications, CSV reports and the counters of the dashboard: append-only or recomputed
  from lists, nothing reads them to decide, most of their code is formatting.
* What each filter of a list compares: in `Elenchi` an item matches or it does not. The statistics of security events
  (`server.go` 1976-2022) count such a filtered list, with a threshold that may be zero, and decide nothing.
* Presigned URLs, CORS, security headers, the content and delivery of mails: no state, or I/O of another system.
* The cryptography of JWT, TOTP and passwords: a code is identified with its secret, a hash with its password. Roles:
  each action assumes the caller its handler requires.
* The parsing of addresses and of webhook payloads (an event has an id and names a payment).
* Creation of indexes, except that it may fail (`Avvio`).
* The frontend: every request it can send is already an input.
* Slices shared between MemoryStore and a response that is being encoded, and the growth of the maps of the limiter and
  the lock, which are never emptied: the models have values and not addresses, and finite sets of clients.

## 6. Plan

Done: the pratiche and the payments over both stores, with their refinements and theorems; sessions and access tokens;
accounts and second factor; limits and alarms; IP lists; listings; starts, seeds and scripts, with theorems about each.

Every invariant and action property of the runs is proved, and the refinements of `CicloVita` and `Registro`.

Next: an abstract specification of sessions (a chain of tokens, closed from its end) refined by `Sessioni`; the
choice of event id and token from a webhook payload; the registration of a file after its presigned upload.
