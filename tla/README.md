# PD-Guard in TLA+

PD-Guard masks personal data in texts on their way to a language model and puts
it back in what comes out. This directory holds TLA+ modules that model the
service, the TLC configurations that check them on small instances, and theorems
checked with TLAPS. Paths below are relative to the crate's `src/`.

    tlc -config MC_RoundTrip.cfg MC_RoundTrip.tla     # a run: see "Runs"
    tlapm TextProofs.tla                              # a proof module

## The system

| Component | State | Operations | Depends on |
|---|---|---|---|
| pipeline (`service/pipeline.rs`, `mask.rs`, `domain/entity.rs`) | `MaskState` for one call: a counter per type, a number per value | `mask_line` | detectors, entity engine, filters, resolver, combination rules, maskers |
| demask (`service/demask.rs`) | none | `demask` over a `Mapping` | – |
| guard service (`service/guard_service.rs`) | none of its own; reads and writes the vault | `mask`, dry run, `process_tz`, `demask` | pipeline, vault, crypto |
| vault (`adapter/vault_memory.rs`) | session → sealed mapping; TTL, capacity | `put`, `get`, `delete` | – |
| crypto (`infra/crypto.rs`) | master key | `encrypt_mapping`, `decrypt_mapping` | – |
| process handler (`controller/process_handler.rs`, `middleware.rs`) | permits in use, buckets | `POST /process`, `/process/batch` | rate limiter, policy resolver, guard service |
| proxy handler (`controller/proxy_handler.rs`, `service/json_paths.rs`) | session id and degraded flag of one exchange | mask a request, send it on, demask the response | guard service, upstream client |
| upstream and engine clients (`adapter/llm_client.rs`, `ner_http.rs`) | a circuit breaker each | `send`, `recognize` | network |
| circuit breaker (`adapter/circuit_breaker.rs`) | state, failures, total, opened_at | `allow`, `record` | clock |
| rate limiter (`infra/rate_limit.rs`) | a bucket per system | `check` | clock |
| configuration (`config/*`, `service/policy_resolver.rs`, `main.rs`) | the current compiled configuration | load, merge, validate, swap | file watcher, admin port |
| resolution (`service/resolve.rs`, `combination.rs`, `relevance.rs`) | none | candidates → entities | policy |
| detectors, validators (`service/detect/*`) | none | text → candidates | resources |
| normalised document (`domain/document.rs`) | a folded copy of the text and its offset map | fold, `to_original`, sentences, windows for the engine | – |
| JSON paths (`service/json_paths.rs`) | none | `extract`, `replace` along paths | – |

Interaction: a handler authenticates, limits and parses, resolves a policy and
calls the guard service; the guard service runs the pipeline (the engine is
called from inside it), seals the mapping and keeps it in the vault or hands it
to the client. Handlers share the vault, the breakers, the limiters and the
resolver; nothing is locked across an await.

Hard behaviours: a request under a `payload_id` is a forward step, a retry of it
or a reverse step depending on what the vault holds at that moment; lookup,
masking and store are three awaits with nothing held across them; masks are
incomplete when the engine fails or a deadline passes; the engine is given a few
sentences, cut from one form of the text at offsets of another; entries disappear;
several systems share one key space; the proxy masks the strings of one exchange
one by one under one session; the breaker's counts are four relaxed atomics;
two reloads of the configuration may overlap, and what they swap reaches the
policy resolver alone; the resolver may displace what has displaced another.

What makes each part correct:

* pipeline and demask: one number per value and type, different values have
  different numbers, what is cited comes back as what it stood for;
* guard service: a payload id means one thing from its first answer on; no
  system is given another's data; every request is answered;
* proxy: no deadline and no failure of the engine takes a value from what is
  looked for unless the response says so; a response is restored from the
  mappings of its own request, to the right values;
* breaker: a failing dependency is cut off, for the configured time, and a
  circuit does not stay shut;
* limiter and permits: a bucket admits its rate and no more, permits come back
  on every path but a body that never ends, a batch is answered whole;
* configuration: a request is served under one configuration, the nearest layer
  decides, an edit that is told is taken up;
* resolver, rules, filters: what is selected is apart and strongest, the masking
  pass meets every entity, what stays in the text stays for a reason, and a
  candidate more makes no filter and no rule let go of what they kept;
* document, validators, paths: spans lie on characters, checksums and dates are
  what their definitions say, what is replaced is what was extracted.

## Modules

| Module | Models | State and actions |
|---|---|---|
| `Masking` | numbering and maskers, the masking pass of `mask_line`, both passes of `demask` | operators: `Number`, `Mask`, `MaskLine`, `DemaskLine` |
| `MaskState` | `MaskState::next_number` as a loop over the entities | operators: `NextNumber`, `NumberAll`, a recursive function over the positions of a text; proved equal to `Masking!Number` |
| `Detection` | what `mask_line` can find: the early exit, detectors in order, the deadline, the sentences the engine is given | operators: `HasPdSignal`, `Windows`, `Given`, `Panics`, `Complete`, `Detections` |
| `RoundTrip` | one text masked, sent to a model, the reply demasked | `MaskText`, `ModelReplies`, `DemaskReply` |
| `GuardService` | `POST /process` on a shared vault | an action per await-free piece of `process_tz`, `mask`, `demask`; `Timeout`, `Evict` |
| `SessionContract` | the abstract promise of a payload id: bound once, then a function of the binding | `Ask`, `Bind`, `Recall`, `Refuse` |
| `GuardContract` | the refinement mapping from `GuardService` to `SessionContract` | – |
| `Proxy` | one exchange of `ProxyHandler` | `Dispatch`, `MaskNext` per string, `Send`, `UpstreamReplies`, `RestoreNext` per string, failures, `Stall`, `Evict` |
| `CircuitBreaker` | `allow` and `record`, any number of callers | an action per operation on an atomic; `Tick` |
| `RateLimit` | `RateLimiter`: a bucket per handler and system | `Admits`, `Refuses`, `Tick`; `Watch` moves the observer of `NeverOverRate` |
| `Admission` | both handlers up to the service: permit, authentication, rate, body, policy; the items of a batch and their deadline | an action per piece between awaits; `Stall`, `HangUp`, `DeadlinePasses`, `Swap`, `Clock` |
| `Policy` | `validate`, `resolve_policy`: four layers merged into the effective policy | operators: `Valid`, `MergedProfile`, `EffectivePolicy` |
| `Reload` | the configuration at run time: file, watcher thread, reload endpoint, resolver, a request | `Edit`, `Tell`, `StartWatching`, `Take`, `Call`, `Read`, `Swap`, `Fail`; `Resolve`, `Bypass`, `Refuse`, `Answer` |
| `AddressChains` | `AddressDetector` from the parts on | `Link`, `Begin`; operator `Published` |
| `Relevance` | the four relevance filters | operators: `Relevant` and one per filter |
| `Pipeline` | `mask_line` from the candidates on: chains, filters, the sweep of `resolve`, combination rules, components, the masking pass | a round of a loop is a step: `LinkPart`, `BeginChain`, `Assemble`, `Select`, `Displace`, `Drop`, `Swept`, `CombineAndExpand`, `Mask` |
| `Sums` | the sums that loops add up | `SumTo`, a recursive function |
| `Document` | folding, the offset map, sentences, signals, windows | operators: `ToOriginal`, `Sentences`, `Windows` |
| `Validators` | Luhn, INN, SNILS, dates | operators |
| `JsonPaths` | `extract` and `replace` over a tree | operators; a function of the segments that are behind stands for each recursion |
| `TextInputs` | every input of `Document`, `Validators` and `JsonPaths`, put together a piece at a time | `TypeCharacter`, `TypeDigit`, `TypeNumber`, `Parse`, `AddSegment` |
| `MC_*` | values of the constants for TLC | – |
| `MaskingProofs`, `TextProofs`, `GuardServiceProofs`, `ProxyProofs`, `AdmissionProofs`, `PipelineProofs`, `ReloadProofs`, `CircuitBreakerProofs` | theorems | – |

How the modules fit: a request passes `Admission`, is given a policy by
`Reload` (which extends `Policy`), and is served by `GuardService` or `Proxy`.
Both choose at each masked text among the ways of `Detection`, which extends
`Masking`; `RoundTrip` is `Masking` alone with a model that replies. `Pipeline`
(which extends `AddressChains` and `Relevance`) looks into the detection that the
others take as one step: from the candidates to the entities `Masking` numbers.
`Document`, `Validators` and `JsonPaths` are pure and below all of them. `Proxy`
has one exchange only, because its session id is fresh and its vault entry
therefore its own. `Reload` has one kind of request, `resolve` and what the
action of the route makes of it, since nothing else reads the configuration.

Abstractions:

* A text is a sequence of tokens: words, values, placeholders and forms (what the
  other maskers write). A token is what the code replaces as one span. Offsets,
  spelling and layout are abstracted, order and identity are kept. One token
  stands for all the spellings of a placeholder that the tolerant expression of
  `demask.rs` accepts.
* `Shape[v]` is what a masker other than the placeholder one writes for `v`; two
  values may share it, which is what makes the second pass of `demask` interesting.
  It is never a value itself, with one exception: `Kept` are the values the
  partial masker writes as they are (mask.rs:58-91 stars digits alone, so an
  address of electronic mail without any stays). That a synthetic mask happens to
  be a value somebody has is left out.
* A seal is a record of system, session and mapping that opens for the same two:
  the key derivation and the associated data, without the cipher.
* What a detector or the engine would report of what it is given is an input
  (`TypeOf`, `Canon`, `NerOnly`); what it is given is modelled. `Detection` is
  complete, or lacks what the engine would find, or stops at the deadline after
  some of the detectors. A token lies in one sentence, which ends at a token of
  `Stop`. The engine is given the first `MaxWindows` sentences with a signal
  (`Windows`): what it would find in the others is not looked for, and not marked
  as missing. Tokens have no offsets, so which texts are cut at wrong places is an
  input: `Misread` says what the engine is given instead, `Uncut` are the texts
  that cannot be cut, where `ner_http.rs:70` panics. `Document` says which texts
  may be: those with a character whose folding has another width. A panic of a
  heavy text is an error of `mask` (guard_service.rs:91-103); of another text it
  ends the connection (`closed`, `dropped`).
* In `Pipeline` a candidate is a type, a span in bytes, a score in hundredths and
  flags for what the code looks up: whether a checksum confirmed it, and which
  of the filters' words are near it. Any set of candidates may be found, so the
  detectors may be any; candidates that begin at one place come in any order.
  A span is never empty: `to_original` gives an empty one only for what is found
  inside the folding of a single character. Which of the words for the bank's own
  addresses stand near an assembled address is chosen freely (`BankWords`).
* In `RateLimit` time goes in ticks and tokens in fractions of a tick's refill,
  so no rounding takes place; the code has `f64`. Time since the last call counts
  up to a second, after which the bucket is full whatever more passes.
* In `Policy` a map of the configuration is a total function with `Absent`, and a
  list that is only looked up is a set. `Valid` names the checks a property can
  tell apart; the others of `validate` (types of a profile, a route's upstream,
  routes that match alike) are in the configurations that do not load. Routes are
  a function, without an order and without duplicates.
* In `Document` a character is its width, what it folds to, and what the code
  asks of it. The folded text is not put together: a place in it is how far what
  the characters before it fold to goes (`NormStart`, `FoldEnd`). In the run texts
  are short and widths and foldings are those that occur; the proofs assume of a
  character that it is at least a byte wide, that it folds to something, and that
  one the fast path leaves alone folds to one of its width
  (`CharactersAssumption`).
* In `CircuitBreaker` time is an age counted up to `OpenSeconds`. It is all
  `allow` can tell, so time is unbounded and the states are finite.
* Definitions named after a bug (`NumberStuck`, `LookupMisses`, ...) are mutants:
  each is checked to break a property when it takes the place of the definition
  that follows it.

## Runs

Bounds are constants of the configuration. They are chosen so that the case a
property is about happens; the mutants confirm it, since each property is broken
by one within the same bounds.

| Run | Instance | Shows |
|---|---|---|
| `roundtrip` | texts up to 3 tokens over a word, a name in two spellings, another name, two cards of one shape, an address the partial masker keeps, a code; every subset seen; replies up to 3 tokens | `NumberingAgrees`, `CitedPlaceholdersRestored`, `ExactReplyRestored` |
| `guard_isolation` | 2 systems, 1 payload id, 3 overlapping requests, eviction, engine failure, deletion after demask, a heavy text that panics | `TenantIsolation`, `EveryRequestAnswered` |
| `guard_overlap` | 1 system, 4 overlapping requests, complete masking | `ReverseRestores`, `KeepsContract` |
| `guard_serial` | 1 system, 2 payload ids, 4 requests one after the other, a text that panics outside the blocking pool, engine failure, deadlines, timeouts | `RetryGetsSameMask`, `ForwardIsMasked`, `KeepsContract` |
| `guard_stateless` | 3 systems, one without demask, 3 overlapping requests, all operations, a heavy text that panics, stateless | `TenantIsolation`, `ContextRestores` |
| `proxy_exchange` | 2 strings in either order, 5 kinds of routes, responses of up to 2 strings of up to 2 tokens, every failure; 1 window, a text with two, one cut at the wrong place, two that panic, one of them heavy | `UnmarkedMeansUndisturbed`, `LastTextRestored`, `AnsweredUnlessStalled` |
| `breaker_shared` | 2 callers, window 3, success, failure and lost results | `CutsOff`, `NeverShutForGood`, and with `TypeOK` that a count exceeds its window by the calls in flight at most |
| `admission` | 2 connections, of single requests and of batches of up to 2 texts, masks and others; 1 permit; a system at 1 a second and one without a rate; 2 ticks a second, stretches of up to 2 ticks observed; clients that hang up or stall, a reload | `NeverOverRate`, `AdmitsUpToRate`, `PermitsAccounted`, `BatchHangsTogether`, `TakesRequestsAgain` |
| `reload` | 9 configurations to start with, 6 to be edited to (one unreadable, one that does not validate), 2 edits, the watcher, 1 call of the endpoint, 1 request | `MaskedByNearestLayer`, `DemaskedByAll`, `CatchesUp` |
| `pipeline` | up to 4 of 20 candidates and parts that touch, overlap and nest; 3 policies | `SelectedApart`, `StrongestSelected`, `NothingPassedOver`, `LeftForAReason`, `MoreFoundMoreMasked` |
| `text_inputs` | texts of up to 4 of 9 characters, numbers of up to 10 digits out of 3, triples of 21 numbers around the bounds of dates, 3 documents and their parts with paths of up to 4 segments | `SpansOnCharacters`, `CapitalsSelected`, `CapitalsSent`, `LuhnCatches`, `OneControlEach`, `DatesExist`, `ReplacedIsExtracted` |

Three tokens hold a repeated value between or beside another; a reply of three
tokens swaps, repeats and drops. Three requests under one id are a forward step,
one that interferes and a reverse step; four add a retry. Two strings are enough
for one to replace what the other left. Two callers are enough for every race of
the breaker that has one atomic operation of another caller in between; three
were tried for `CutsOff` and agree.

A stretch of two ticks is a second, the shortest in which a bucket is refilled
whole; a longer one was tried and agrees (the theorem covers all). One permit is
the limit that is always about to be reached. Two edits let the second be told
while the first is being loaded; one call of the endpoint overlaps the watcher's.
In the sweep three candidates in a row are the fewest of which one loses to
another that is displaced in its turn; the fourth stands beside them and counts
for a rule. `OneControlEach` appends the control itself, so bodies of up to 10
digits reach the numbers of 12.

One run is expected to find a violation; `PROJECT.json` quotes what the
repository says of the program:

| Run | Property | What happens |
|---|---|---|
| `proxy_fail_policy` | `FailPolicyKept` | `ner_on_failure: fail`, the engine fails; the proxy sends the unmasked string on and does not mark the response |

### Configurations beside the runs

Each of these finds a violation too, and is kept to be run by hand when that part
of the code changes.

| Configuration | Property | What happens |
|---|---|---|
| `MC_Guard_Race.cfg` (`MC_GuardService`) | `RetryGetsSameMask` | README.md:68-71 calls a retry idempotent. Two overlapping retries both miss, the engine fails for one, the client gets two masks |
| `MC_Guard_Expiry.cfg` (`MC_GuardService`) | `ForwardIsMasked` | the entry is evicted before the reverse step, which then binds the id itself (guard_service.rs:214); the retried original is answered in the clear, as a reverse step |
| `MC_Proxy_Numbers.cfg` (`MC_Proxy`) | `NeverAnotherValue` | two strings of a request both number from one and share a session; `[FIO_1]` of the first is restored to the second's |
| `MC_Breaker_Race.cfg` (`MC_CircuitBreaker`) | `StaysOpen` | a late store of `half_open` (circuit_breaker.rs:50) ends an opening that has only begun |
| `MC_Reload_Routes.cfg` (`MC_Reload`) | `RawOnlyIfBypassed` | README.md:211-214 tells of changes without a restart. The action of a route stays that of the start: a text goes on unmasked although the configuration in force no longer says bypass |
| `MC_Pipeline_Offices.cfg` (`MC_Pipeline`) | `OnlyOfficesDropped` | README.md:44 speaks of the bank's addresses. relevance.rs:97-102 drops a candidate of any type that stands within 60 bytes of one |
| `MC_Windows.cfg` (`MC_TextInputs`) | `WindowsInOriginal` | windows are spans of the folded text (document.rs:5); ner_http.rs:67-71 cuts the original with them, and on texts with a character that changes its width the cut is shifted, loses the capital or panics. `CapitalsSent` is stated for the other texts |

### Met on the way

* Two spellings of one canonical form come back in the later spelling (hence
  `SpellingsDiffer`); a redacted value is never recorded (hence `KindsRecorded`).
* A second system with the same payload id overwrites the first one's entry,
  whose reverse step is then masked again: the vault is keyed by the session.
* With `delete_after_demask` the proxy restores the first string of a response
  and no other; in stateless mode it drops the context and restores nothing.
* A sentence beyond `max_windows` is not sent to the engine, nor one without a
  signal of its own, and neither sets `degraded` (pipeline.rs:329-346): a response
  without `x-pd-degraded` says that nothing failed, not that every sentence was
  read. `UnmarkedMeansUndisturbed` claims no more.
* A heavy text that panics in the blocking pool is an error of `mask`, for which
  the proxy sends the string as it is, unmarked, under any `ner_on_failure`
  (guard_service.rs:91-103, proxy_handler.rs:151). Cutting a window inside a
  character is a way to it. A text that is not heavy ends the connection.
* Values that the partial masker writes as they are count as masked, with a record.
* `has_pd_signal` (pipeline.rs:253-290) looks for words of context only in text
  with a capital, so names in lower case are not sent to the engine for them.
* A type that is in `always_mask` and has a rule is masked when too few types are
  present, but may be held back by its rule when there are enough: more
  candidates, fewer masks. `MoreFoundMoreMasked` excuses exactly these
  (combination.rs:16-69).
* The filter of company names looks for «ип» and «ао» as parts of words, in a
  stretch that holds the name itself: «Филипп» is never masked while it is on
  (relevance.rs:208-211).
* A candidate that loses to one which is itself displaced later stays unmasked,
  though it overlaps nothing that is selected (resolve.rs). `LeftForAReason` says
  so: its reason is to have lost.
* `validate` does not look at the profile of a route: a misspelt name gives an
  empty profile, which masks nothing. Two routes may have one id. A layer above
  the profile cannot switch the engine off.
* The mode `components` may be set on any type; it takes addresses apart.
* What is edited between the first load and the start of the watch is not told.
  A reload over the endpoint that reads before the watcher's and swaps after it
  leaves the older configuration in force; `CatchesUp` excuses that.
* A route that a reload removes is still served, without its list of systems and
  its profile. `health_ready` reports the version of the start.
* A match that ends within a character whose folding is longer loses it.
* Three and more parts without a street and a house are no address.
* The body of a request is read with no timeout while its permit is held
  (process_handler.rs:431): clients that stop sending can hold all of them, which
  `TakesRequestsAgain` names as the one way not to take requests again.

## Fairness

* `GuardService`: weak fairness per request of every step but receiving and of
  masking a text that awaits the engine. tokio runs ready tasks; the engine may
  never answer, and what ends such a request is the handler's timeout, which is
  fair. Clients owe nothing.
* `Proxy`: weak fairness of the handler as a whole, which includes the timeout
  around the headers of the upstream. The upstream itself owes nothing. A body
  that stops is `Stall`: the code has no timeout for it. A panic is `dropped`.
* `CircuitBreaker`: time passes, calls come and come to an end, and a caller
  that has begun goes on. `NeverShutForGood` and `CutsOff` need that somebody
  calls, since the circuit changes its state only inside calls.
* `Admission`: weak fairness, per connection, of what the handler does, which
  includes the timeout of serving. What comes of a body is decided at some time
  too: it is read, found bad, or the client stalls (`Stall`). A stalled client
  owes nothing, not even hanging up, and keeps its permit, since the code has no
  timeout for the body. `TakesRequestsAgain` does not assume the stall away but
  excuses the state in which such clients hold every permit.
* `Reload`: weak fairness of starting the watch, of taking an event, and of each
  reload going on: threads that run. Edits, events and requests owe nothing.
* `RoundTrip`, `Pipeline` and `TextInputs` are checked for safety alone.

Deadlock is checked where the system goes on for ever: `breaker_shared`,
`admission` and `reload`, where time passes and configurations are edited or
requests come again. Elsewhere it may stop: every request of `GuardService` has
been answered, the exchange of `Proxy` is over, the text has been masked, the
input is as long as it may be.

## Proofs

All constants are arbitrary, under the named assumptions of the modules:
`MaskersAssumption`, `TokensAssumption` (tokens of different kinds differ),
`DetectionAssumption`, `ServiceAssumption`, `ProxyAssumption`, `RateAssumption`,
`AdmissionAssumption`, `PipelineAssumption`, `PolicyAssumption` (absent values
are not values), `ReloadAssumption`, `BreakerAssumption`, `CharactersAssumption`,
`NumbersAssumption`, `JsonAssumption` (a value is made of values). TLC evaluates
them in every run of their modules.

* `MaskingProofs`: what the operators compute, for texts of any length.
  `NumberIdentifiesValue`: two entities of one type have one number exactly when
  they have one canonical form. The number of an entity is the size of a set of
  canonical forms that grows from left to right, and such a set that is strictly
  larger has a larger size. `CitedPlaceholderRestored` follows: every record that
  matches a cited placeholder has its key. `ExactMaskRestored` is about the second
  pass: the places it finds are those of any function that satisfies its equation
  (`TargetIs`), and on the mask itself the places of the values do.
  `NumberingClosedForm`: the loop of `next_number` over the entities of a text
  numbers them as `Number` does, which every other proof uses. What is numbered
  after the first positions of a text is exactly the forms met there, each with
  its number, and a type's counter is how many of its forms were met
  (`NumberedUpTo`).
* `TextProofs`, on `RoundTrip`: `RoundTripTypeCorrect`; `RoundTripNumbersAgree`,
  `[]NumberingAgrees`, from `NumberingClosedForm`; and `RoundTripRestores`, which is
  `[]CitedPlaceholdersRestored`. The invariant adds that the mapping is that of
  the text and that the reply's placeholders are where `source` says.
  `RoundTripRestoresExactReply` follows from it and `ExactMaskRestored`.
* `TextProofs`, on `TextInputs`: for inputs of any length, the seven
  invariants of the run `text_inputs`. They hold of every input, so the invariant
  is only that inputs are made of what they are made of.
  `InputsSpans`: where a character begins grows in both forms of a text, every
  offset of the folded one is in one character (`CharAt`), and an offset maps to
  where that one begins; on the fast path the offsets of both forms are the same.
  `InputsSelected`: nothing cuts a stretch without a stop, so one sentence holds
  it (`SentenceAround`); that sentence has a signal, since its slice of the
  original holds the capital (`SpanCovers`, the lemma of `InputsSpans`); and of
  the sentences with a signal the first `MaxWindows` are taken, or all
  (`FirstOfThem`). `InputsCapitals`: where every character keeps its width both
  forms have the same offsets (`SameOffsets`), so the window of `InputsSelected`
  is a slice of the original with the capital in it. `InputsLuhn`: what a digit counts is different for each digit,
  and a swap changes the sum by less than ten and not by nothing unless the digits
  are 0 and 9. `InputsControls`: the control is a function of the digits that
  have a weight. `InputsDates`: `is_leap` is when the calendar has one leap day
  more, for every year that is read. `InputsReplaced`: `Extract` and `Replace`
  along a path are what the rest of the path does to the entries its first
  segment selects (`ExtractSegment`, `ReplaceSegment`); a rebuilt value has the
  same places (`RebuiltFacts`), so what was replaced is read back (`ReadBack`, by
  the length of the path), and other entries are as they were (`ReadElsewhere`).
* Where a loop of the code goes over any number of things, the model has a
  recursive function on `0..n` (`SumTo`, `NumberAll`, `Extract`), and what it computes is
  proved by the least `n` for which it would not hold (`LeastExists`): also that
  the function exists at all (`SumsExist`, `PassExists`), since `CHOOSE` promises
  nothing.
* `GuardServiceProofs`: `GuardTypeCorrect`, an inductive invariant of five named
  parts (vault, calls, control, drafts, answers), proved action by action; and
  `GuardIsolatesTenants`, `[]TenantIsolation`. That one is not inductive: it says
  nothing of what is still on its way. The strengthening says of each entry,
  draft and context that the values in its mapping were shown by the system it
  is sealed for. `GuardContextRestores` says the same kind of thing of contexts:
  each one out is sealed from the mapping of the text it answers (`CInv`).
  `GuardKeepsContract` is the refinement, under `Orderly`: one system, a vault in
  memory that evicts nothing, calls of the payload id contract alone, and either
  requests of an id that do not overlap (`Serial`) or detection that never fails
  on an id that has one text (`Steady`, `OneText`). The runs `guard_serial` and
  `guard_overlap` are instances of the two. `KInv` says that each answer follows
  from the binding of its id and that a request about to store either is the
  only one or stores what is there; every step is then a step of
  `SessionContract` or none. `GuardReverseRestores`, `GuardRetryGetsSameMask` and
  `GuardForwardIsMasked` follow from `KInv`. Without the conditions they fail:
  `MC_Guard_Race.cfg` and `MC_Guard_Expiry.cfg`.
* `ProxyProofs`: `ProxyUnmarkedMeansUndisturbed`, `[]UnmarkedMeansUndisturbed`
  for any routes, numbers of strings, windows and ways to cut them. `sent` is empty until the loop has ended, so the
  invariant speaks of the loop (`LoopOK`): strings not come to are as they were
  sent, strings left behind are covered unless the flag is set. A string may be
  visited twice; masking never adds a value. `ProxyLastTextRestored` assumes that
  no route selects the last string twice (`LastVisitedOnce`): what is masked
  twice leaves the mapping of its mask in the vault. The invariant says whose
  mapping the entry is, of each string of the response left behind that it is
  restored, and of each string not come to that it is as the model wrote it.
* `AdmissionProofs`: `AdmissionTypeCorrect`; `AdmissionNeverOverRate` and
  `AdmissionUpToRate` from an invariant of the watched bucket, that what it holds
  and what it has admitted never exceed its burst and what was refilled, and
  never fall short while there is room; `AdmissionAccountsPermits`, `[]PermitsAccounted`
  by the cardinality of the set of requests in flight;
  `AdmissionBatchHangsTogether`, since a timeout among the items means that the
  deadline is over.
* `PipelineProofs`: all five properties of the run, for every set of candidates
  and every policy. The invariant has three parts. `CandidatesInv`: what the
  chains publish and the filters leave are well formed. `SweepInv`: what waits
  begins no earlier than what was selected last, so comparing with that one alone
  is enough, and each eligible candidate waits, is selected or has lost.
  `MaskInv`: what is to be masked is apart pair by pair, also after addresses are
  taken apart, so the cursor passes over nothing.
* `ReloadProofs`: `PolicyFollowsNearestLayer` and `PolicyDemasksIfAllDo` are facts
  of the merge for every configuration (a lemma says what merging four layers
  gives); the two invariants of the run follow, as a request keeps the policy
  it was given.
* `CircuitBreakerProofs`: `BreakerTypeCorrect`. That `total` is bounded is not
  inductive: callers reset one another's counts. The strengthening counts the
  callers that have added and not yet compared (`Overdue`).

Model-checked only: liveness and everything under fairness (`EveryRequestAnswered`,
`AnsweredUnlessStalled`, `CutsOff`, `NeverShutForGood`, `TakesRequestsAgain`,
`CatchesUp`), which the prover does not do; and `KeepsContract` with `ner` and
`deadline` on requests that overlap, which has a counterexample and is no
theorem. Every invariant and action property that a passing run checks is
proved, where a theorem above names a condition under that condition.

## Not modelled

* `vault_redis.rs`: its constructor always fails, the service does not start.
* Ciphers, sockets, HTTP parsing, metrics, logging, token counting: no decision
  modelled here depends on them.
* The expressions and dictionaries of the detectors: their results are inputs,
  any of them, of `Pipeline`. The words a filter looks for are flags.
* How a masker writes a value (partial forms and shapes): `Shape` and `Kept` are any.
* The offsets of the engine's answers (`ner_http.rs`), which are not mapped back
  to the original, and the check of the ranges of passport series.
* Parsing the configuration, environment variables, and compiling detectors and
  keys from it: a configuration parses or does not.
* `ner_onnx.rs` is a stub. `tools/loadgen` is a client; the way it uses a payload
  id is within the clients of `GuardService`.
* What happens to requests at shutdown is hyper's; the vault is in memory and
  nothing survives a restart, so there is no recovery to check.

## Plan

What is left, in this order:

1. The engine's offsets in `Document`, together with what overlapping windows
   report twice.
2. The partial maskers, as far as two values may meet in one shape, and synthetic
   masks that are somebody's value.
3. The contract for several systems: what an id means to the second of them.
